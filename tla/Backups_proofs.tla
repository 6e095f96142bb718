--------------------------- MODULE Backups_proofs ---------------------------
(***************************************************************************)
(* Proofs about Backups, for any number of servers, backups, users, ticks  *)
(* and reports under way, any schedule and any timing: types, that a tick  *)
(* of the scheduler comes to all that is due, and the throttle.  How       *)
(* backups end is in BackupEnds_proofs.                                    *)
(***************************************************************************)
EXTENDS Backups, TLAPS

Command == [type : {"backup_server", "restore_server"}, backup : BackupIds]
Report == [pc : {"idle", "read", "write"}, msg : Progress \cup {None}]

(* What a job under way has found out.                                     *)
JobHas ==
    \A j \in Jobs :
        /\ job[j].pc \in {"load", "find", "upsert", "config", "insert", "send", "fail", "mark"}
              => job[j].server \in Servers /\ job[j].kind \in Kinds
        /\ job[j].pc \in {"select", "next", "sweep"} => job[j].kind = "scheduled"
        /\ job[j].pc # "idle" /\ j \notin Users => job[j].kind = "scheduled"
        /\ job[j].pc = "sweep" => job[j].due = {}
        /\ job[j].pc \in {"select", "sweep", "mark"} => job[j].at \in Times
        /\ job[j].pc = "find" => job[j].kind = "restore"
        /\ job[j].pc \in {"insert", "fail", "mark"} => job[j].kind # "restore"
        /\ job[j].pc = "upsert" => job[j].kind = "configure"
        /\ job[j].pc \in {"load", "upsert"} /\ job[j].kind = "configure" => job[j].set \in Settings
        /\ job[j].pc \in {"insert", "send", "fail", "mark"} => config[job[j].server] # None
        /\ \/ job[j].pc \in {"send", "fail", "mark"}
           \/ job[j].pc \in {"load", "find", "config"} /\ job[j].kind = "restore"
           => job[j].backup \in BackupIds /\ backup[job[j].backup] # None

(* A message of the agent is about a backup that was inserted.             *)
ReportsHave ==
    /\ \A i \in 1 .. Len(toAgent) : backup[toAgent[i].backup] # None
    /\ \A b \in working : backup[b] # None
    /\ \A i \in 1 .. Len(toPlatform) : backup[toPlatform[i].backup] # None
    /\ \A r \in Reporters :
          rep[r].pc # "idle" => rep[r].msg \in Progress /\ backup[rep[r].msg.backup] # None

IInv == TypeOK /\ JobHas /\ ReportsHave

-----------------------------------------------------------------------------
(* Types.                                                                  *)

(* Sending on a queue, and taking from it.                                 *)
LEMMA Sending ==
    ASSUME NEW S, NEW q \in Seq(S), NEW m \in S
    PROVE  /\ Append(q, m) \in Seq(S) /\ Len(q) \in Nat /\ Len(Append(q, m)) = Len(q) + 1
           /\ \A i \in 1 .. Len(q) : Append(q, m)[i] = q[i]
           /\ Append(q, m)[Len(q) + 1] = m
  OBVIOUS

LEMMA Taking ==
    ASSUME NEW S, NEW q \in Seq(S), q # <<>>
    PROVE  /\ Head(q) = q[1] /\ q[1] \in S /\ 1 \in 1 .. Len(q)
           /\ Tail(q) \in Seq(S) /\ Len(Tail(q)) \in Nat /\ Len(q) = Len(Tail(q)) + 1
           /\ \A i \in 1 .. Len(Tail(q)) : Tail(q)[i] = q[i + 1] /\ i + 1 \in 1 .. Len(q)
  OBVIOUS

(* Rows are never taken back.                                              *)
RowsKept ==
    /\ \A b \in BackupIds : backup[b] # None => backup'[b] # None
    /\ \A s \in Servers : config[s] # None => config'[s] # None

(* The fields of a job.                                                    *)
LEMMA JobFields ==
    ASSUME TypeOK, NEW j \in Jobs
    PROVE  /\ job[j] \in Job
           /\ job[j].kind \in Kinds \cup {None} /\ job[j].server \in Servers \cup {None}
           /\ job[j].backup \in BackupIds \cup {None} /\ job[j].set \in Settings \cup {None}
           /\ job[j].at \in Times \cup {None} /\ job[j].due \subseteq Servers
  BY DEF TypeOK, Job

(* What JobHas asks of job j when its record is x.                         *)
Has(j, x) ==
    /\ x.pc \in {"load", "find", "upsert", "config", "insert", "send", "fail", "mark"}
          => x.server \in Servers /\ x.kind \in Kinds
    /\ x.pc \in {"select", "next", "sweep"} => x.kind = "scheduled"
    /\ x.pc # "idle" /\ j \notin Users => x.kind = "scheduled"
    /\ x.pc = "sweep" => x.due = {}
    /\ x.pc \in {"select", "sweep", "mark"} => x.at \in Times
    /\ x.pc = "find" => x.kind = "restore"
    /\ x.pc \in {"insert", "fail", "mark"} => x.kind # "restore"
    /\ x.pc = "upsert" => x.kind = "configure"
    /\ x.pc \in {"load", "upsert"} /\ x.kind = "configure" => x.set \in Settings
    /\ x.pc \in {"insert", "send", "fail", "mark"} => config'[x.server] # None
    /\ \/ x.pc \in {"send", "fail", "mark"}
       \/ x.pc \in {"load", "find", "config"} /\ x.kind = "restore"
       => x.backup \in BackupIds /\ backup'[x.backup] # None

(* A step that moves one job on and takes no row back.                     *)
LEMMA JobMoves ==
    ASSUME IInv, RowsKept, NEW j \in Jobs, NEW x \in Job, Has(j, x), job' = [job EXCEPT ![j] = x]
    PROVE  job' \in [Jobs -> Job] /\ JobHas'
<1>1. job' \in [Jobs -> Job]
  BY DEF IInv, TypeOK
<1>2. \A k \in Jobs : job'[k] = IF k = j THEN x ELSE job[k]
  BY DEF IInv, TypeOK
<1>3. ASSUME NEW k \in Jobs, k # j PROVE Has(k, job[k])
  BY <1>3 DEF IInv, JobHas, RowsKept, Has
<1>4. \A k \in Jobs : Has(k, job'[k])
  BY <1>2, <1>3
<1>5. JobHas'
  BY <1>4 DEF JobHas, Has
<1> QED
  BY <1>1, <1>5

(* A step that moves no job and takes no row back.                         *)
LEMMA JobsStay ==
    ASSUME IInv, RowsKept, UNCHANGED job
    PROVE  JobHas'
  BY DEF IInv, JobHas, RowsKept

(* The two ways for a job to be over.                                      *)
LEMMA Ends ==
    ASSUME IInv, RowsKept, NEW j \in Jobs, job[j].pc # "idle",
           Return(j) \/ job' = [job EXCEPT ![j] = Idle]
    PROVE  job' \in [Jobs -> Job] /\ JobHas'
<1>1. Idle \in Job /\ Has(j, Idle)
  BY DEF Idle, Job, Has
<1>2. CASE job' = [job EXCEPT ![j] = Idle]
  BY <1>1, <1>2, JobMoves
<1>3. CASE Return(j) /\ j \notin Users
  <2> DEFINE x == [job[j] EXCEPT !.pc = "next", !.server = None, !.backup = None]
  <2>1. x \in Job /\ x.pc = "next"
    BY JobFields DEF IInv, Job
  <2>2. Has(j, x)
    BY <1>3, <2>1, JobFields DEF Has, IInv, JobHas, Job
  <2>3. job' = [job EXCEPT ![j] = x]
    BY <1>3 DEF Return, IInv, TypeOK
  <2> HIDE DEF x
  <2> QED
    BY <2>1, <2>2, <2>3, JobMoves
<1>4. CASE Return(j) /\ j \in Users
  BY <1>1, <1>4, JobMoves DEF Return
<1> QED
  BY <1>2, <1>3, <1>4

(* A job goes on with what it has.                                         *)
LEMMA Steps ==
    ASSUME IInv, RowsKept, NEW j \in Jobs, NEW pc, Step(j, pc), Has(j, [job[j] EXCEPT !.pc = pc]),
           pc \in {"find", "upsert", "config", "insert", "send", "fail"}
    PROVE  job' \in [Jobs -> Job] /\ JobHas'
<1> DEFINE x == [job[j] EXCEPT !.pc = pc]
<1>1. x \in Job
  BY JobFields DEF IInv, Job
<1>2. job' = [job EXCEPT ![j] = x]
  BY DEF Step, IInv, TypeOK
<1>3. Has(j, x)
  OBVIOUS
<1> HIDE DEF x
<1> QED
  BY <1>1, <1>2, <1>3, JobMoves

(* Messages are about backups.                                             *)
LEMMA MessagesAbout ==
    ASSUME IInv
    PROVE  /\ \A i \in 1 .. Len(toAgent) : toAgent[i].backup \in BackupIds
           /\ \A i \in 1 .. Len(toPlatform) : toPlatform[i].backup \in BackupIds
           /\ working \subseteq BackupIds
           /\ \A r \in Reporters : rep[r].msg \in Progress => rep[r].msg.backup \in BackupIds
<1>1. toAgent \in Seq(Command) /\ toPlatform \in Seq(Progress) /\ working \subseteq BackupIds
  BY DEF IInv, TypeOK, Command
<1>2. \A i \in 1 .. Len(toAgent) : toAgent[i] \in Command
  BY <1>1
<1>3. \A i \in 1 .. Len(toPlatform) : toPlatform[i] \in Progress
  BY <1>1
<1> QED
  BY <1>1, <1>2, <1>3 DEF Command, Progress

(* Messages and what the agent makes are left alone.                       *)
LEMMA MessagesStay ==
    ASSUME IInv, RowsKept, UNCHANGED <<toAgent, working, toPlatform, rep>>
    PROVE  ReportsHave'
<1>1. \A i \in 1 .. Len(toAgent) : backup'[toAgent[i].backup] # None
  BY MessagesAbout DEF IInv, ReportsHave, RowsKept
<1>2. \A b \in working : backup'[b] # None
  BY MessagesAbout DEF IInv, ReportsHave, RowsKept
<1>3. \A i \in 1 .. Len(toPlatform) : backup'[toPlatform[i].backup] # None
  BY MessagesAbout DEF IInv, ReportsHave, RowsKept
<1>4. \A r \in Reporters :
          rep[r].pc # "idle" => rep[r].msg \in Progress /\ backup'[rep[r].msg.backup] # None
  BY MessagesAbout DEF IInv, ReportsHave, RowsKept
<1> QED
  BY <1>1, <1>2, <1>3, <1>4 DEF ReportsHave

LEMMA InitIInv == Init => IInv
<1> SUFFICES ASSUME Init PROVE IInv
  OBVIOUS
<1>1. Idle \in Job /\ Idle.pc = "idle"
  BY DEF Idle, Job
<1>2. now \in Times
  BY BoundsAssumption DEF Init, Times
<1>3. config \in [Servers -> Config \cup {None}]
  <2>1. \A g \in Settings : [set |-> g, lastRun |-> None] \in Config
    BY BoundsAssumption DEF Config
  <2> QED
    BY <2>1 DEF Init
<1>4. TypeOK
  <2>1. job \in [Jobs -> Job] /\ deleted \subseteq Servers /\ backup \in [BackupIds -> Row \cup {None}]
    BY <1>1 DEF Init
  <2>2. lastTick \in [Instances -> Times \cup {None}] /\ up \in BOOLEAN
    BY DEF Init
  <2>3. toAgent \in Seq(Command) /\ toPlatform \in Seq(Progress) /\ working \subseteq BackupIds
    BY DEF Init
  <2>4. rep \in [Reporters -> Report]
    BY DEF Init, NoReport, Report
  <2>5. drops \in 0 .. MaxDrops /\ dbFailures \in 0 .. MaxDbFailures
    BY BoundsAssumption DEF Init
  <2> QED
    BY <1>2, <1>3, <2>1, <2>2, <2>3, <2>4, <2>5 DEF TypeOK, Command, Report
<1>5. JobHas
  BY <1>1 DEF Init, JobHas
<1>6. ReportsHave
  BY DEF Init, ReportsHave, NoReport
<1> QED
  BY <1>4, <1>5, <1>6 DEF IInv

(* A statement of a job: what is left to show.                             *)
LEMMA Onward ==
    ASSUME IInv, RowsKept, UNCHANGED jobVars, UNCHANGED <<up, toAgent>>,
           config' \in [Servers -> Config \cup {None}], backup' \in [BackupIds -> Row \cup {None}],
           job' \in [Jobs -> Job] /\ JobHas', dbFailures' \in 0 .. MaxDbFailures
    PROVE  IInv'
<1>1. TypeOK'
  BY DEF IInv, TypeOK, jobVars
<1>2. ReportsHave'
  BY MessagesStay DEF jobVars
<1> QED
  BY <1>1, <1>2 DEF IInv

(* The same when the rows are only read.                                   *)
LEMMA ReadOnly ==
    ASSUME IInv, UNCHANGED <<config, backup, up, toAgent, dbFailures>>, UNCHANGED jobVars,
           job' \in [Jobs -> Job] /\ JobHas'
    PROVE  IInv'
<1>1. RowsKept
  BY DEF RowsKept
<1>2. /\ config' \in [Servers -> Config \cup {None}] /\ backup' \in [BackupIds -> Row \cup {None}]
      /\ dbFailures' \in 0 .. MaxDbFailures
  BY DEF IInv, TypeOK
<1> QED
  BY <1>1, <1>2, Onward

LEMMA TickKeeps ==
    ASSUME IInv, NEW i \in Instances, NEW k \in Runs, Tick(i, k)
    PROVE  IInv'
<1> DEFINE x == [Idle EXCEPT !.pc = "select", !.kind = "scheduled", !.at = now]
<1>1. RowsKept /\ k \in Jobs /\ now \in Times
  BY DEF Tick, RowsKept, Jobs, IInv, TypeOK
<1>2. x \in Job /\ x.pc = "select" /\ x.kind = "scheduled" /\ x.at = now
  BY <1>1 DEF Idle, Job, Kinds
<1>3. Has(k, x)
  BY <1>1, <1>2 DEF Has
<1>4. job' = [job EXCEPT ![k] = x]
  BY DEF Tick
<1> HIDE DEF x
<1>5. job' \in [Jobs -> Job] /\ JobHas'
  BY <1>1, <1>2, <1>3, <1>4, JobMoves
<1>6. ReportsHave'
  BY <1>1, MessagesStay DEF Tick
<1>7. lastTick' \in [Instances -> Times \cup {None}]
  BY <1>1 DEF Tick, IInv, TypeOK
<1>8. TypeOK'
  BY <1>5, <1>7 DEF Tick, IInv, TypeOK
<1> QED
  BY <1>5, <1>6, <1>8 DEF IInv

LEMMA SelectKeeps ==
    ASSUME IInv, NEW k \in Jobs, Select(k)
    PROVE  IInv'
<1> DEFINE due == {s \in Servers : Scheduled(s, job[k].at) /\ ~Throttled(s, job[k].at)}
           x == [job[k] EXCEPT !.pc = "next", !.due = due]
<1>1. x \in Job /\ x.pc = "next" /\ x.kind = job[k].kind
  BY JobFields DEF IInv, Job
<1>2. job' = [job EXCEPT ![k] = x]
  BY DEF Select, IInv, TypeOK
<1>3. job[k].kind = "scheduled"
  BY DEF Select, IInv, JobHas
<1> HIDE DEF x
<1>4. RowsKept /\ Has(k, x)
  BY <1>1, <1>3 DEF Select, RowsKept, Has
<1>5. job' \in [Jobs -> Job] /\ JobHas'
  BY <1>1, <1>2, <1>4, JobMoves
<1> QED
  BY <1>5, ReadOnly DEF Select

LEMMA NextDueKeeps ==
    ASSUME IInv, NEW k \in Jobs, NextDue(k)
    PROVE  IInv'
<1>1. RowsKept /\ job[k].kind = "scheduled" /\ job[k].pc = "next"
  BY DEF NextDue, RowsKept, IInv, JobHas
<1>2. ASSUME NEW s \in job[k].due,
             job' = [job EXCEPT ![k] =
                       [@ EXCEPT !.pc = "load", !.server = s, !.due = job[k].due \ {s}]]
      PROVE  job' \in [Jobs -> Job] /\ JobHas'
  <2> DEFINE x == [job[k] EXCEPT !.pc = "load", !.server = s, !.due = job[k].due \ {s}]
  <2>1. x \in Job /\ x.pc = "load" /\ x.kind = job[k].kind /\ x.server = s /\ s \in Servers
    BY JobFields DEF IInv, Job
  <2>2. job' = [job EXCEPT ![k] = x]
    BY <1>2 DEF IInv, TypeOK, Job
  <2> HIDE DEF x
  <2>3. Has(k, x)
    BY <1>1, <2>1 DEF Has, Kinds
  <2> QED
    BY <1>1, <2>1, <2>2, <2>3, JobMoves
<1>3. ASSUME job[k].due = {}, job' = [job EXCEPT ![k] = [@ EXCEPT !.pc = "sweep", !.at = now]]
      PROVE  job' \in [Jobs -> Job] /\ JobHas'
  <2> DEFINE x == [job[k] EXCEPT !.pc = "sweep", !.at = now]
  <2>9. job[k] \in Job /\ now \in Times
    BY JobFields DEF IInv, TypeOK
  <2>1. /\ x \in Job /\ x.pc = "sweep" /\ x.kind = job[k].kind /\ x.at = now /\ now \in Times
        /\ x.due = {}
    BY <1>3, <2>9 DEF Job
  <2>2. job' = [job EXCEPT ![k] = x]
    BY <1>3 DEF IInv, TypeOK
  <2> HIDE DEF x
  <2>3. Has(k, x)
    BY <1>1, <2>1 DEF Has
  <2> QED
    BY <1>1, <2>1, <2>2, <2>3, JobMoves
<1>4. job' \in [Jobs -> Job] /\ JobHas'
  BY <1>2, <1>3 DEF NextDue
<1> QED
  BY <1>4, ReadOnly DEF NextDue

(* Rows that are deleted are still spoken of.                              *)
LEMMA SweepRows ==
    ASSUME IInv, NEW k \in Jobs, Sweep(k), NEW b \in BackupIds
    PROVE  /\ backup'[b] \in Row \cup {None} /\ (backup[b] # None => backup'[b] # None)
           /\ backup'[b] = backup[b] \/ backup'[b] = [backup[b] EXCEPT !.status = "swept"]
           /\ backup[b] = None \/ backup[b].status = "running" => backup'[b] = backup[b]
<1>1. backup[b] \in Row \cup {None}
  BY DEF IInv, TypeOK
<1>2. CASE Expired(b, job[k].at)
  <2>1. backup'[b] = [backup[b] EXCEPT !.status = "swept"]
    BY <1>2 DEF Sweep
  <2>2. backup[b] \in Row /\ backup[b].status # "running" /\ backup[b] # None
    BY <1>1, <1>2 DEF Expired
  <2>3. backup'[b] \in Row
    BY <2>1, <2>2 DEF Row
  <2> QED
    BY <2>1, <2>2, <2>3, NoneAssumption
<1>3. CASE ~Expired(b, job[k].at)
  <2>1. backup'[b] = backup[b]
    BY <1>3 DEF Sweep
  <2> QED
    BY <1>1, <2>1
<1> QED
  BY <1>2, <1>3

LEMMA SweepKeeps ==
    ASSUME IInv, NEW k \in Jobs, Sweep(k)
    PROVE  IInv'
<1>1. RowsKept
  BY SweepRows DEF RowsKept, Sweep
<1>2. job' \in [Jobs -> Job] /\ JobHas'
  BY <1>1, Ends DEF Sweep
<1>3. backup' \in [BackupIds -> Row \cup {None}]
  <2>1. \A b \in BackupIds : backup'[b] \in Row \cup {None}
    BY SweepRows
  <2> DEFINE f(b) == IF Expired(b, job[k].at) THEN [backup[b] EXCEPT !.status = "swept"]
                     ELSE backup[b]
  <2>2. backup' = [b \in BackupIds |-> f(b)]
    BY DEF Sweep
  <2> HIDE DEF f
  <2> QED
    BY <2>1, <2>2
<1>4. config' \in [Servers -> Config \cup {None}] /\ dbFailures' \in 0 .. MaxDbFailures
  BY DEF Sweep, IInv, TypeOK
<1> QED
  BY <1>1, <1>2, <1>3, <1>4, Onward DEF Sweep

(* A server action begins with the record x.                               *)
LEMMA Begins ==
    ASSUME IInv, NEW u \in Users, NEW x \in Job, Has(u, x), Begin(u, x)
    PROVE  IInv'
<1>1. RowsKept /\ u \in Jobs
  BY DEF Begin, RowsKept, Jobs
<1>2. job' \in [Jobs -> Job] /\ JobHas'
  BY <1>1, JobMoves DEF Begin
<1> QED
  BY <1>2, ReadOnly DEF Begin

LEMMA TriggerBackupKeeps ==
    ASSUME IInv, NEW u \in Users, NEW s \in Servers, TriggerBackup(u, s)
    PROVE  IInv'
<1> DEFINE x == [Idle EXCEPT !.pc = "load", !.kind = "manual", !.server = s]
<1>1. x \in Job /\ x.pc = "load" /\ x.kind = "manual" /\ x.server = s
  BY DEF Idle, Job, Kinds
<1>2. Begin(u, x)
  BY DEF TriggerBackup
<1> HIDE DEF x
<1>3. Has(u, x)
  BY <1>1 DEF Has, Kinds
<1> QED
  BY <1>1, <1>2, <1>3, Begins

LEMMA RestoreBackupKeeps ==
    ASSUME IInv, NEW u \in Users, NEW b \in BackupIds, RestoreBackup(u, b)
    PROVE  IInv'
<1> DEFINE x == [Idle EXCEPT !.pc = "load", !.kind = "restore", !.server = backup[b].server,
                             !.backup = b]
<1>1. backup[b] \in Row /\ backup[b].server \in Servers
  BY DEF RestoreBackup, IInv, TypeOK, Row
<1>2. /\ x \in Job /\ x.pc = "load" /\ x.kind = "restore" /\ x.server \in Servers
      /\ x.backup = b
  BY <1>1 DEF Idle, Job, Kinds
<1>3. Begin(u, x)
  BY DEF RestoreBackup
<1> HIDE DEF x
<1>4. backup[b] # None /\ backup' = backup
  BY <1>3 DEF RestoreBackup, Begin
<1>5. Has(u, x)
  BY <1>2, <1>4 DEF Has, Kinds
<1> QED
  BY <1>2, <1>3, <1>5, Begins

LEMMA UpdateBackupConfigKeeps ==
    ASSUME IInv, NEW u \in Users, NEW s \in Servers, NEW g \in Settings,
           UpdateBackupConfig(u, s, g)
    PROVE  IInv'
<1> DEFINE x == [Idle EXCEPT !.pc = "load", !.kind = "configure", !.server = s, !.set = g]
<1>1. x \in Job /\ x.pc = "load" /\ x.kind = "configure" /\ x.server = s /\ x.set = g
  BY DEF Idle, Job, Kinds
<1>2. Begin(u, x)
  BY DEF UpdateBackupConfig
<1> HIDE DEF x
<1>3. Has(u, x)
  BY <1>1 DEF Has, Kinds
<1> QED
  BY <1>1, <1>2, <1>3, Begins

(* The record of job j when it goes on at pc.                              *)
At(j, pc) == [job[j] EXCEPT !.pc = pc]

LEMMA Fields ==
    ASSUME IInv, NEW j \in Jobs, NEW pc
    PROVE  /\ At(j, pc).pc = pc /\ At(j, pc).kind = job[j].kind
           /\ At(j, pc).server = job[j].server /\ At(j, pc).backup = job[j].backup
           /\ At(j, pc).set = job[j].set /\ At(j, pc).at = job[j].at /\ At(j, pc).due = job[j].due
  BY JobFields DEF IInv, At, Job

(* What a job that goes on at pc must have found out.                      *)
LEMMA GoesOn ==
    ASSUME IInv, UNCHANGED <<config, backup>>, NEW j \in Jobs, NEW pc, Step(j, pc),
           job[j].pc # "idle",
           pc \in {"find", "upsert", "config", "insert", "send"},
           job[j].server \in Servers, job[j].kind \in Kinds,
           pc = "find" => job[j].kind = "restore",
           pc = "insert" => job[j].kind # "restore",
           pc = "upsert" => job[j].kind = "configure" /\ job[j].set \in Settings,
           pc \in {"insert", "send"} => config[job[j].server] # None,
           (pc \notin {"upsert", "insert"} /\ job[j].kind = "restore") \/ pc = "send"
               => job[j].backup \in BackupIds /\ backup[job[j].backup] # None
    PROVE  job' \in [Jobs -> Job] /\ JobHas'
<1>1. RowsKept
  BY DEF RowsKept
<1>2. j \notin Users => job[j].kind = "scheduled"
  BY DEF IInv, JobHas
<1>3. Has(j, At(j, pc))
  BY <1>2, Fields DEF Has
<1> QED
  BY <1>1, <1>3, Steps DEF At

LEMMA LoadOwnedServerKeeps ==
    ASSUME IInv, NEW j \in Jobs, LoadOwnedServer(j)
    PROVE  IInv'
<1> DEFINE pc == CASE job[j].kind = "restore" -> "find"
                   [] job[j].kind = "configure" -> "upsert"
                   [] OTHER -> "config"
<1>1. RowsKept /\ UNCHANGED <<config, backup>> /\ job[j].pc = "load"
  BY DEF LoadOwnedServer, RowsKept
<1>2. /\ job[j].server \in Servers /\ job[j].kind \in Kinds
      /\ job[j].kind = "configure" => job[j].set \in Settings
      /\ job[j].kind = "restore" => job[j].backup \in BackupIds /\ backup[job[j].backup] # None
  BY <1>1 DEF IInv, JobHas
<1>3. \/ pc = "find" /\ job[j].kind = "restore"
      \/ pc = "upsert" /\ job[j].kind = "configure"
      \/ pc = "config" /\ job[j].kind \notin {"restore", "configure"}
  OBVIOUS
<1>4. Return(j) \/ Step(j, pc)
  BY DEF LoadOwnedServer
<1> HIDE DEF pc
<1>5. CASE Return(j)
  BY <1>1, <1>5, Ends, ReadOnly DEF LoadOwnedServer
<1>6. CASE Step(j, pc)
  <2>1. job' \in [Jobs -> Job] /\ JobHas'
    BY <1>1, <1>2, <1>3, <1>6, GoesOn
  <2> QED
    BY <2>1, ReadOnly DEF LoadOwnedServer
<1> QED
  BY <1>4, <1>5, <1>6

LEMMA UpsertKeeps ==
    ASSUME IInv, NEW u \in Jobs, Upsert(u)
    PROVE  IInv'
<1> DEFINE s == job[u].server
           c == [set |-> job[u].set, lastRun |-> IF config[s] = None THEN None ELSE config[s].lastRun]
<1>1. s \in Servers /\ job[u].set \in Settings /\ config[s] \in Config \cup {None}
  BY DEF Upsert, IInv, JobHas, TypeOK
<1>2. c \in Config
  BY <1>1, BoundsAssumption DEF Config
<1>3. config' = [config EXCEPT ![s] = c]
  BY DEF Upsert
<1> HIDE DEF c
<1>4. config' \in [Servers -> Config \cup {None}]
  BY <1>1, <1>2, <1>3 DEF IInv, TypeOK
<1>5. RowsKept
  BY <1>1, <1>2, <1>3, NoneAssumption DEF Upsert, RowsKept, IInv, TypeOK
<1>6. job' \in [Jobs -> Job] /\ JobHas'
  BY <1>5, Ends DEF Upsert
<1>7. backup' \in [BackupIds -> Row \cup {None}] /\ dbFailures' \in 0 .. MaxDbFailures
  BY DEF Upsert, IInv, TypeOK
<1> QED
  BY <1>4, <1>5, <1>6, <1>7, Onward DEF Upsert

LEMMA FindBackupKeeps ==
    ASSUME IInv, NEW u \in Jobs, FindBackup(u)
    PROVE  IInv'
<1>1. RowsKept /\ UNCHANGED <<config, backup>> /\ job[u].pc = "find"
  BY DEF FindBackup, RowsKept
<1>2. /\ job[u].server \in Servers /\ job[u].kind \in Kinds
      /\ job[u].backup \in BackupIds /\ backup[job[u].backup] # None
  BY <1>1 DEF IInv, JobHas
<1>3. CASE Return(u)
  BY <1>1, <1>3, Ends, ReadOnly DEF FindBackup
<1>4. CASE Step(u, "config")
  <2>1. job' \in [Jobs -> Job] /\ JobHas'
    BY <1>1, <1>2, <1>4, GoesOn
  <2> QED
    BY <2>1, ReadOnly DEF FindBackup
<1> QED
  BY <1>3, <1>4 DEF FindBackup

LEMMA LoadConfigKeeps ==
    ASSUME IInv, NEW j \in Jobs, LoadConfig(j)
    PROVE  IInv'
<1> DEFINE pc == IF job[j].kind = "restore" THEN "send" ELSE "insert"
<1>1. RowsKept /\ UNCHANGED <<config, backup>> /\ job[j].pc = "config"
  BY DEF LoadConfig, RowsKept
<1>2. /\ job[j].server \in Servers /\ job[j].kind \in Kinds
      /\ job[j].kind = "restore" => job[j].backup \in BackupIds /\ backup[job[j].backup] # None
  BY <1>1 DEF IInv, JobHas
<1>3. \/ pc = "send" /\ job[j].kind = "restore"
      \/ pc = "insert" /\ job[j].kind # "restore"
  OBVIOUS
<1>4. Return(j) \/ (Step(j, pc) /\ config[job[j].server] # None)
  BY DEF LoadConfig
<1> HIDE DEF pc
<1>5. CASE Return(j)
  BY <1>1, <1>5, Ends, ReadOnly DEF LoadConfig
<1>6. CASE Step(j, pc) /\ config[job[j].server] # None
  <2>1. job' \in [Jobs -> Job] /\ JobHas'
    BY <1>1, <1>2, <1>3, <1>6, GoesOn
  <2> QED
    BY <2>1, ReadOnly DEF LoadConfig
<1> QED
  BY <1>4, <1>5, <1>6

LEMMA InsertBackupKeeps ==
    ASSUME IInv, NEW j \in Jobs, NEW b \in BackupIds, InsertBackup(j, b)
    PROVE  IInv'
<1> DEFINE row == [server |-> job[j].server, status |-> "running", until |-> now + Retention,
                   size |-> 0]
           x == [job[j] EXCEPT !.pc = "send", !.backup = b]
<1>1. /\ job[j].pc = "insert" /\ job[j].server \in Servers /\ job[j].kind \in Kinds
      /\ job[j].kind # "restore" /\ config[job[j].server] # None
      /\ j \notin Users => job[j].kind = "scheduled"
  BY DEF InsertBackup, IInv, JobHas
<1>2. row \in Row
  <2>1. now \in Nat
    BY BoundsAssumption DEF IInv, TypeOK, Times
  <2>2. now + Retention \in Nat
    BY <2>1, BoundsAssumption
  <2> QED
    BY <1>1, <2>2 DEF Row
<1>3. backup' = [backup EXCEPT ![b] = row]
  BY DEF InsertBackup
<1> HIDE DEF row
<1>4. backup' \in [BackupIds -> Row \cup {None}] /\ backup'[b] # None
  BY <1>2, <1>3, NoneAssumption DEF IInv, TypeOK
<1>5. RowsKept
  BY <1>3, <1>4 DEF InsertBackup, RowsKept, IInv, TypeOK
<1>6. /\ x \in Job /\ x.pc = "send" /\ x.backup = b /\ x.kind = job[j].kind
      /\ x.server = job[j].server
  BY JobFields DEF IInv, Job
<1>7. job' = [job EXCEPT ![j] = x]
  BY DEF InsertBackup, IInv, TypeOK
<1> HIDE DEF x
<1>8. Has(j, x)
  BY <1>1, <1>4, <1>6 DEF Has, InsertBackup
<1>9. job' \in [Jobs -> Job] /\ JobHas'
  BY <1>5, <1>6, <1>7, <1>8, JobMoves
<1>10. config' \in [Servers -> Config \cup {None}] /\ dbFailures' \in 0 .. MaxDbFailures
  BY DEF InsertBackup, IInv, TypeOK
<1> QED
  BY <1>4, <1>5, <1>9, <1>10, Onward DEF InsertBackup

(* A command about a backup that was inserted is sent.                     *)
LEMMA Sends ==
    ASSUME IInv, NEW m \in Command, backup[m.backup] # None, toAgent' = Append(toAgent, m),
           UNCHANGED <<config, backup, up, dbFailures>>, UNCHANGED jobVars,
           job' \in [Jobs -> Job] /\ JobHas'
    PROVE  IInv'
<1>1. toAgent \in Seq(Command)
  BY DEF IInv, TypeOK, Command
<1>2. /\ toAgent' \in Seq(Command)
      /\ Len(toAgent) \in Nat /\ Len(toAgent') = Len(toAgent) + 1
      /\ \A i \in 1 .. Len(toAgent) : toAgent'[i] = toAgent[i]
      /\ toAgent'[Len(toAgent) + 1] = m
  BY <1>1, Sending
<1>3. \A i \in 1 .. Len(toAgent') : i \in 1 .. Len(toAgent) \/ i = Len(toAgent) + 1
  BY <1>2
<1>4. \A i \in 1 .. Len(toAgent') : backup[toAgent'[i].backup] # None
  BY <1>2, <1>3 DEF IInv, ReportsHave
<1>5. ReportsHave'
  BY <1>4 DEF IInv, ReportsHave, jobVars
<1>6. TypeOK'
  BY <1>2 DEF IInv, TypeOK, Command, jobVars
<1> QED
  BY <1>5, <1>6 DEF IInv

LEMMA SendBackupKeeps ==
    ASSUME IInv, NEW j \in Jobs, SendBackup(j)
    PROVE  IInv'
<1>1. /\ RowsKept /\ UNCHANGED <<config, backup>> /\ job[j].pc = "send"
      /\ job[j].kind # "restore"
  BY DEF SendBackup, RowsKept
<1>2. /\ job[j].server \in Servers /\ job[j].kind \in Kinds /\ config[job[j].server] # None
      /\ job[j].backup \in BackupIds /\ backup[job[j].backup] # None
      /\ j \notin Users => job[j].kind = "scheduled"
  BY <1>1 DEF IInv, JobHas
<1>3. CASE up
  <2> DEFINE x == [job[j] EXCEPT !.pc = "mark", !.at = now]
             m == [type |-> "backup_server", backup |-> job[j].backup]
  <2>9. job[j] \in Job /\ now \in Times
    BY JobFields DEF IInv, TypeOK
  <2>1. /\ x \in Job /\ x.pc = "mark" /\ x.kind = job[j].kind /\ x.server = job[j].server
        /\ x.backup = job[j].backup /\ x.at = now /\ now \in Times
    BY <2>9 DEF Job
  <2>2. job' = [job EXCEPT ![j] = x]
    BY <1>3 DEF SendBackup, IInv, TypeOK
  <2>3. m \in Command /\ m.backup = job[j].backup
    BY <1>2 DEF Command
  <2>4. toAgent' = Append(toAgent, m)
    BY <1>3 DEF SendBackup
  <2> HIDE DEF x, m
  <2>5. Has(j, x)
    BY <1>1, <1>2, <2>1 DEF Has
  <2>6. job' \in [Jobs -> Job] /\ JobHas'
    BY <1>1, <2>1, <2>2, <2>5, JobMoves
  <2>7. backup[m.backup] # None
    BY <1>2, <2>3
  <2> QED
    BY <2>3, <2>4, <2>6, <2>7, Sends DEF SendBackup
<1>4. CASE ~up
  <2>1. Step(j, "fail") /\ UNCHANGED toAgent
    BY <1>4 DEF SendBackup
  <2>2. Has(j, At(j, "fail"))
    BY <1>1, <1>2, Fields DEF Has
  <2>3. job' \in [Jobs -> Job] /\ JobHas'
    BY <1>1, <2>1, <2>2, Steps DEF At
  <2> QED
    BY <2>1, <2>3, ReadOnly DEF SendBackup
<1> QED
  BY <1>3, <1>4

LEMMA SendRestoreKeeps ==
    ASSUME IInv, NEW u \in Jobs, SendRestore(u)
    PROVE  IInv'
<1>1. RowsKept /\ job[u].pc = "send"
  BY DEF SendRestore, RowsKept
<1>2. job' \in [Jobs -> Job] /\ JobHas'
  BY <1>1, Ends DEF SendRestore
<1>3. CASE up
  <2> DEFINE m == [type |-> "restore_server", backup |-> job[u].backup]
  <2>1. m \in Command /\ backup[m.backup] # None
    BY <1>1 DEF Command, IInv, JobHas
  <2>2. toAgent' = Append(toAgent, m)
    BY <1>3 DEF SendRestore
  <2> HIDE DEF m
  <2> QED
    BY <1>2, <2>1, <2>2, Sends DEF SendRestore
<1>4. CASE ~up
  BY <1>2, <1>4, ReadOnly DEF SendRestore
<1> QED
  BY <1>3, <1>4

LEMMA MarkFailedKeeps ==
    ASSUME IInv, NEW j \in Jobs, MarkFailed(j)
    PROVE  IInv'
<1> DEFINE b == job[j].backup
           row == [backup[b] EXCEPT !.status = "failed"]
<1>1. job[j].pc = "fail" /\ b \in BackupIds /\ backup[b] \in Row
  BY DEF MarkFailed, IInv, JobHas, TypeOK
<1>2. row \in Row
  BY <1>1 DEF Row
<1>3. backup' = [backup EXCEPT ![b] = row]
  BY <1>1 DEF MarkFailed, IInv, TypeOK
<1> HIDE DEF row
<1>4. backup' \in [BackupIds -> Row \cup {None}]
  BY <1>1, <1>2, <1>3 DEF IInv, TypeOK
<1>5. RowsKept
  BY <1>1, <1>2, <1>3, NoneAssumption DEF MarkFailed, RowsKept, IInv, TypeOK
<1>6. job' \in [Jobs -> Job] /\ JobHas'
  BY <1>1, <1>5, Ends DEF MarkFailed
<1>7. config' \in [Servers -> Config \cup {None}] /\ dbFailures' \in 0 .. MaxDbFailures
  BY DEF MarkFailed, IInv, TypeOK
<1> QED
  BY <1>4, <1>5, <1>6, <1>7, Onward DEF MarkFailed

LEMMA MarkConfigKeeps ==
    ASSUME IInv, NEW j \in Jobs, MarkConfig(j)
    PROVE  IInv'
<1> DEFINE s == job[j].server
           c == [config[s] EXCEPT !.lastRun = job[j].at]
<1>1. job[j].pc = "mark" /\ s \in Servers /\ config[s] \in Config /\ job[j].at \in Times
  BY DEF MarkConfig, IInv, JobHas, TypeOK
<1>2. c \in Config
  BY <1>1 DEF Config
<1>3. config' = [config EXCEPT ![s] = c]
  BY <1>1 DEF MarkConfig, IInv, TypeOK
<1> HIDE DEF c
<1>4. config' \in [Servers -> Config \cup {None}]
  BY <1>1, <1>2, <1>3 DEF IInv, TypeOK
<1>5. RowsKept
  BY <1>1, <1>2, <1>3, NoneAssumption DEF MarkConfig, RowsKept, IInv, TypeOK
<1>6. job' \in [Jobs -> Job] /\ JobHas'
  BY <1>1, <1>5, Ends DEF MarkConfig
<1>7. backup' \in [BackupIds -> Row \cup {None}] /\ dbFailures' \in 0 .. MaxDbFailures
  BY DEF MarkConfig, IInv, TypeOK
<1> QED
  BY <1>4, <1>5, <1>6, <1>7, Onward DEF MarkConfig

LEMMA JobFailsKeeps ==
    ASSUME IInv, NEW j \in Jobs, JobFails(j)
    PROVE  IInv'
<1>1. RowsKept /\ job[j].pc # "idle"
  BY DEF JobFails, RowsKept
<1>2. job' \in [Jobs -> Job] /\ JobHas'
  BY <1>1, Ends DEF JobFails
<1>3. dbFailures' \in 0 .. MaxDbFailures
  BY BoundsAssumption DEF JobFails, IInv, TypeOK
<1>4. config' \in [Servers -> Config \cup {None}] /\ backup' \in [BackupIds -> Row \cup {None}]
  BY DEF JobFails, IInv, TypeOK
<1> QED
  BY <1>1, <1>2, <1>3, <1>4, Onward DEF JobFails

(* A step of the agent, the network or a handler that changes no row.      *)
LEMMA Elsewhere ==
    ASSUME IInv, UNCHANGED <<config, backup, job>>, TypeOK', ReportsHave'
    PROVE  IInv'
<1>1. RowsKept
  BY DEF RowsKept
<1> QED
  BY <1>1, JobsStay DEF IInv

LEMMA ArriveKeeps ==
    ASSUME IInv, NEW r \in Reporters, Arrive(r)
    PROVE  IInv'
<1> DEFINE m == Head(toPlatform)
           x == [pc |-> "read", msg |-> m]
<1>1. /\ m = toPlatform[1] /\ m \in Progress /\ 1 \in 1 .. Len(toPlatform)
      /\ toPlatform' \in Seq(Progress)
      /\ \A i \in 1 .. Len(toPlatform') : /\ toPlatform'[i] = toPlatform[i + 1]
                                          /\ i + 1 \in 1 .. Len(toPlatform)
  <2>1. toPlatform \in Seq(Progress) /\ toPlatform # <<>> /\ toPlatform' = Tail(toPlatform)
    BY DEF Arrive, IInv, TypeOK
  <2> QED
    BY <2>1, Taking
<1>2. backup[m.backup] # None
  BY <1>1 DEF IInv, ReportsHave
<1>3. rep' = [rep EXCEPT ![r] = x] /\ rep \in [Reporters -> Report]
  BY DEF Arrive, IInv, TypeOK, Report
<1> HIDE DEF m
<1>4. x \in Report /\ x.msg = m
  BY <1>1 DEF Report
<1> HIDE DEF x
<1>5. \A q \in Reporters : rep'[q] = IF q = r THEN x ELSE rep[q]
  BY <1>3
<1>6. \A q \in Reporters : rep'[q].pc # "idle" =>
          rep'[q].msg \in Progress /\ backup[rep'[q].msg.backup] # None
  BY <1>1, <1>2, <1>4, <1>5 DEF IInv, ReportsHave
<1>7. \A i \in 1 .. Len(toPlatform') : backup[toPlatform'[i].backup] # None
  BY <1>1 DEF IInv, ReportsHave
<1>8. ReportsHave'
  BY <1>6, <1>7 DEF Arrive, IInv, ReportsHave
<1>9. rep' \in [Reporters -> Report]
  BY <1>3, <1>4
<1>10. TypeOK'
  BY <1>1, <1>9 DEF Arrive, IInv, TypeOK, Report
<1> QED
  BY <1>8, <1>10, Elsewhere DEF Arrive

LEMMA ReadKeeps ==
    ASSUME IInv, NEW r \in Reporters, Read(r)
    PROVE  IInv'
<1> DEFINE x == IF backup[rep[r].msg.backup].status = "swept" THEN NoReport
                ELSE [rep[r] EXCEPT !.pc = "write"]
<1>1. /\ rep \in [Reporters -> Report] /\ rep[r].pc = "read" /\ rep[r].msg \in Progress
      /\ backup[rep[r].msg.backup] # None
  BY DEF Read, IInv, TypeOK, ReportsHave, Report
<1>2. rep' = [rep EXCEPT ![r] = x]
  BY <1>1 DEF Read
<1>3. x \in Report /\ (x.pc # "idle" => x.msg = rep[r].msg)
  BY <1>1 DEF Report, NoReport
<1> HIDE DEF x
<1>4. \A q \in Reporters : rep'[q] = IF q = r THEN x ELSE rep[q]
  BY <1>1, <1>2
<1>5. rep' \in [Reporters -> Report]
  BY <1>1, <1>2, <1>3
<1>6. \A q \in Reporters : rep'[q].pc # "idle" =>
          rep'[q].msg \in Progress /\ backup[rep'[q].msg.backup] # None
  BY <1>1, <1>3, <1>4 DEF IInv, ReportsHave
<1>7. ReportsHave'
  BY <1>6 DEF Read, IInv, ReportsHave
<1>8. TypeOK'
  BY <1>5 DEF Read, IInv, TypeOK, Report
<1> QED
  BY <1>7, <1>8, Elsewhere DEF Read

(* What a report makes of a row.                                           *)
LEMMA Applied ==
    ASSUME NEW row \in Row, NEW phase \in Phases
    PROVE  /\ Apply(row, phase) \in Row
           /\ row.status = "swept" => Apply(row, phase) = row
           /\ phase = "uploading" => Apply(row, phase).status = row.status
<1>1. CASE row.status = "swept"
  BY <1>1 DEF Apply
<1>2. CASE row.status # "swept" /\ phase = "completed"
  <2>1. Apply(row, phase) = [row EXCEPT !.status = "completed", !.size = 2]
    BY <1>2 DEF Apply
  <2>2. [row EXCEPT !.status = "completed", !.size = 2] \in Row
    <3>1. 2 \in 0 .. 2
      OBVIOUS
    <3> QED
      BY <3>1 DEF Row
  <2> QED
    BY <1>2, <2>1, <2>2
<1>3. CASE row.status # "swept" /\ phase = "failed"
  <2>1. Apply(row, phase) = [row EXCEPT !.status = "failed"]
    BY <1>3 DEF Apply
  <2> QED
    BY <1>3, <2>1 DEF Row
<1>4. CASE row.status # "swept" /\ phase = "uploading"
  <2>1. Apply(row, phase) = [row EXCEPT !.size = 1]
    BY <1>4 DEF Apply
  <2> QED
    BY <1>4, <2>1 DEF Row
<1> QED
  BY <1>1, <1>2, <1>3, <1>4 DEF Phases

LEMMA WriteRow ==
    ASSUME IInv, NEW r \in Reporters, Write(r)
    PROVE  LET b == rep[r].msg.backup IN
           /\ rep[r].msg \in Progress /\ b \in BackupIds /\ backup[b] \in Row
           /\ backup' = [backup EXCEPT ![b] = Apply(backup[b], rep[r].msg.phase)]
           /\ Apply(backup[b], rep[r].msg.phase) \in Row
<1>1. rep[r].msg \in Progress /\ backup[rep[r].msg.backup] # None
  BY DEF Write, IInv, ReportsHave
<1>2. rep[r].msg.backup \in BackupIds /\ rep[r].msg.phase \in Phases
  BY <1>1 DEF Progress
<1>3. backup[rep[r].msg.backup] \in Row
  BY <1>1, <1>2 DEF IInv, TypeOK
<1>4. backup' = [backup EXCEPT ![rep[r].msg.backup] =
                     Apply(backup[rep[r].msg.backup], rep[r].msg.phase)]
  BY <1>2 DEF Write, IInv, TypeOK
<1> QED
  BY <1>1, <1>2, <1>3, <1>4, Applied

LEMMA WriteKeeps ==
    ASSUME IInv, NEW r \in Reporters, Write(r)
    PROVE  IInv'
<1>1. PICK b \in BackupIds, row \in Row : backup' = [backup EXCEPT ![b] = row]
  BY WriteRow
<1>2. backup' \in [BackupIds -> Row \cup {None}]
  BY <1>1 DEF IInv, TypeOK
<1>3. RowsKept
  BY <1>1, NoneAssumption DEF Write, RowsKept, IInv, TypeOK
<1>4. JobHas'
  BY <1>3, JobsStay DEF Write
<1>5. /\ rep \in [Reporters -> Report] /\ rep' = [rep EXCEPT ![r] = NoReport]
      /\ NoReport \in Report /\ NoReport.pc = "idle"
  BY DEF Write, IInv, TypeOK, Report, NoReport
<1>6. \A q \in Reporters : rep'[q] = IF q = r THEN NoReport ELSE rep[q]
  BY <1>5
<1>7. /\ \A i \in 1 .. Len(toAgent) : toAgent[i].backup \in BackupIds
      /\ \A i \in 1 .. Len(toPlatform) : toPlatform[i].backup \in BackupIds
      /\ working \subseteq BackupIds
      /\ \A q \in Reporters : rep[q].msg \in Progress => rep[q].msg.backup \in BackupIds
  BY MessagesAbout
<1>8. \A q \in Reporters : rep'[q].pc # "idle" =>
          rep'[q].msg \in Progress /\ backup'[rep'[q].msg.backup] # None
  <2> SUFFICES ASSUME NEW q \in Reporters, rep'[q].pc # "idle"
               PROVE  rep'[q].msg \in Progress /\ backup'[rep'[q].msg.backup] # None
    OBVIOUS
  <2>1. rep'[q] = rep[q] /\ rep[q].pc # "idle"
    BY <1>5, <1>6
  <2>2. rep[q].msg \in Progress /\ backup[rep[q].msg.backup] # None
    BY <2>1 DEF IInv, ReportsHave
  <2> QED
    BY <1>3, <1>7, <2>1, <2>2 DEF RowsKept
<1>9. \A i \in 1 .. Len(toAgent) : backup'[toAgent[i].backup] # None
  BY <1>3, <1>7 DEF IInv, ReportsHave, RowsKept
<1>10. \A i \in 1 .. Len(toPlatform) : backup'[toPlatform[i].backup] # None
  BY <1>3, <1>7 DEF IInv, ReportsHave, RowsKept
<1>11. \A c \in working : backup'[c] # None
  BY <1>3, <1>7 DEF IInv, ReportsHave, RowsKept
<1>12. ReportsHave'
  BY <1>8, <1>9, <1>10, <1>11 DEF Write, ReportsHave
<1>13. rep' \in [Reporters -> Report]
  BY <1>5
<1>14. TypeOK'
  BY <1>2, <1>13 DEF Write, IInv, TypeOK, Report
<1> QED
  BY <1>4, <1>12, <1>14 DEF IInv

LEMMA AgentStartsKeeps ==
    ASSUME IInv, AgentStarts
    PROVE  IInv'
<1>1. /\ Head(toAgent) = toAgent[1] /\ toAgent[1] \in Command /\ 1 \in 1 .. Len(toAgent)
      /\ toAgent' \in Seq(Command)
      /\ \A i \in 1 .. Len(toAgent') : /\ toAgent'[i] = toAgent[i + 1]
                                       /\ i + 1 \in 1 .. Len(toAgent)
  <2>1. toAgent \in Seq(Command) /\ toAgent # <<>> /\ toAgent' = Tail(toAgent)
    BY DEF AgentStarts, IInv, TypeOK, Command
  <2> QED
    BY <2>1, Taking
<1>2. toAgent[1].backup \in BackupIds /\ backup[toAgent[1].backup] # None
  BY <1>1 DEF Command, IInv, ReportsHave
<1>3. working' \subseteq working \cup {toAgent[1].backup}
  BY <1>1 DEF AgentStarts
<1>4. working' \subseteq BackupIds /\ \A b \in working' : backup[b] # None
  BY <1>2, <1>3 DEF IInv, TypeOK, ReportsHave
<1>5. \A i \in 1 .. Len(toAgent') : backup[toAgent'[i].backup] # None
  BY <1>1 DEF IInv, ReportsHave
<1>6. ReportsHave'
  BY <1>4, <1>5 DEF AgentStarts, IInv, ReportsHave
<1>7. TypeOK'
  BY <1>1, <1>4 DEF AgentStarts, IInv, TypeOK, Command
<1> QED
  BY <1>6, <1>7, Elsewhere DEF AgentStarts

(* What the agent reports about backup b: an ending, perhaps after the     *)
(* start of the upload.                                                    *)
LEMMA Reported ==
    ASSUME IInv, NEW b \in BackupIds, AgentReports(b), up
    PROVE  \E new \in Seq(Progress) :
              /\ toPlatform' = toPlatform \o new
              /\ \/ Len(new) = 1 /\ new[1].phase # "uploading" /\ new[1].backup = b
                 \/ /\ Len(new) = 2 /\ new[1].backup = b /\ new[2].backup = b
                    /\ new[1].phase = "uploading" /\ new[2].phase # "uploading"
<1> DEFINE said(phase) == [backup |-> b, phase |-> phase]
<1>1. PICK phase \in {"completed", "failed"} :
          \E new \in {<<said(phase)>>, <<said("uploading"), said(phase)>>} :
              toPlatform' = toPlatform \o new
  BY DEF AgentReports
<1>2. said(phase) \in Progress /\ said("uploading") \in Progress
  BY DEF Progress, Phases
<1>3. /\ said(phase).phase # "uploading" /\ said("uploading").phase = "uploading"
      /\ said(phase).backup = b /\ said("uploading").backup = b
  OBVIOUS
<1> HIDE DEF said
<1>4. CASE toPlatform' = toPlatform \o <<said(phase)>>
  <2>1. PICK new : new = <<said(phase)>>
    OBVIOUS
  <2>2. new \in Seq(Progress) /\ Len(new) = 1 /\ new[1] = said(phase)
    BY <1>2, <2>1
  <2>3. toPlatform' = toPlatform \o new
    BY <1>4, <2>1
  <2> QED
    BY <1>3, <2>2, <2>3
<1>5. CASE toPlatform' = toPlatform \o <<said("uploading"), said(phase)>>
  <2>1. PICK new : new = <<said("uploading"), said(phase)>>
    OBVIOUS
  <2>2. /\ new \in Seq(Progress) /\ Len(new) = 2
        /\ new[1] = said("uploading") /\ new[2] = said(phase)
    BY <1>2, <2>1
  <2>3. toPlatform' = toPlatform \o new
    BY <1>5, <2>1
  <2> QED
    BY <1>3, <2>2, <2>3
<1> QED
  BY <1>1, <1>4, <1>5

(* Two queues one after the other.                                         *)
LEMMA Joined ==
    ASSUME NEW S, NEW q \in Seq(S), NEW new \in Seq(S)
    PROVE  /\ q \o new \in Seq(S) /\ Len(q) \in Nat /\ Len(new) \in Nat
           /\ Len(q \o new) = Len(q) + Len(new)
           /\ \A i \in 1 .. Len(q) : (q \o new)[i] = q[i]
           /\ \A i \in 1 .. Len(new) : (q \o new)[Len(q) + i] = new[i]
  OBVIOUS

LEMMA AgentReportsKeeps ==
    ASSUME IInv, NEW b \in BackupIds, AgentReports(b)
    PROVE  IInv'
<1>1. /\ toPlatform' \in Seq(Progress)
      /\ \A i \in 1 .. Len(toPlatform') : backup[toPlatform'[i].backup] # None
  <2>1. CASE ~up
    <3>1. toPlatform' = toPlatform
      BY <2>1 DEF AgentReports
    <3> QED
      BY <3>1 DEF IInv, TypeOK, ReportsHave
  <2>2. CASE up
    <3>1. PICK new \in Seq(Progress) :
              /\ toPlatform' = toPlatform \o new
              /\ \/ Len(new) = 1 /\ new[1].phase # "uploading" /\ new[1].backup = b
                 \/ /\ Len(new) = 2 /\ new[1].backup = b /\ new[2].backup = b
                    /\ new[1].phase = "uploading" /\ new[2].phase # "uploading"
      BY <2>2, Reported
    <3>2. toPlatform \in Seq(Progress) /\ backup[b] # None
      BY DEF IInv, TypeOK, AgentReports, ReportsHave
    <3>3. /\ toPlatform' \in Seq(Progress)
          /\ Len(toPlatform) \in Nat /\ Len(new) \in Nat
          /\ Len(toPlatform') = Len(toPlatform) + Len(new)
          /\ \A i \in 1 .. Len(toPlatform) : toPlatform'[i] = toPlatform[i]
          /\ \A i \in 1 .. Len(new) : toPlatform'[Len(toPlatform) + i] = new[i]
      BY <3>1, <3>2, Joined
    <3>4. \A i \in 1 .. Len(toPlatform') :
              \/ i \in 1 .. Len(toPlatform)
              \/ /\ i - Len(toPlatform) \in 1 .. Len(new)
                 /\ i = Len(toPlatform) + (i - Len(toPlatform))
      BY <3>3
    <3>5. \A i \in 1 .. Len(new) : new[i].backup = b
      BY <3>1, <3>3
    <3>6. \A i \in 1 .. Len(toPlatform) : backup[toPlatform[i].backup] # None
      BY DEF IInv, ReportsHave
    <3>7. ASSUME NEW i \in 1 .. Len(toPlatform') PROVE backup[toPlatform'[i].backup] # None
      <4>1. CASE i \in 1 .. Len(toPlatform)
        BY <3>3, <3>6, <4>1
      <4>2. CASE i \notin 1 .. Len(toPlatform)
        <5>1. toPlatform'[i] = new[i - Len(toPlatform)] /\ i - Len(toPlatform) \in 1 .. Len(new)
          BY <3>3, <3>4, <4>2
        <5> QED
          BY <3>2, <3>5, <5>1
      <4> QED
        BY <4>1, <4>2
    <3> QED
      BY <3>3, <3>7
  <2> QED
    BY <2>1, <2>2
<1>2. ReportsHave'
  BY <1>1 DEF AgentReports, IInv, ReportsHave
<1>3. TypeOK'
  BY <1>1 DEF AgentReports, IInv, TypeOK
<1> QED
  BY <1>2, <1>3, Elsewhere DEF AgentReports

LEMMA DropKeeps ==
    ASSUME IInv, Drop
    PROVE  IInv'
<1>1. toAgent' \in Seq(Command) /\ toPlatform' \in Seq(Progress)
  BY DEF Drop
<1>2. drops' \in 0 .. MaxDrops
  BY BoundsAssumption DEF Drop, IInv, TypeOK
<1>3. TypeOK'
  BY <1>1, <1>2 DEF Drop, IInv, TypeOK, Command
<1>4. ReportsHave'
  BY DEF Drop, IInv, ReportsHave
<1> QED
  BY <1>3, <1>4, Elsewhere DEF Drop

(* The steps that touch neither rows nor jobs nor messages.                *)
LEMMA OthersKeep ==
    ASSUME IInv, Connect \/ TimePasses \/ \E s \in Servers : DeleteServer(s)
    PROVE  IInv'
<1>1. UNCHANGED <<config, backup, job, toAgent, working, toPlatform, rep>>
  BY DEF Connect, TimePasses, DeleteServer
<1>2. ReportsHave'
  BY <1>1 DEF IInv, ReportsHave
<1>3. now' \in Times /\ up' \in BOOLEAN /\ deleted' \subseteq Servers
  <2>1. now \in Times /\ up \in BOOLEAN /\ deleted \subseteq Servers
    BY DEF IInv, TypeOK
  <2>2. CASE Connect
    BY <2>1, <2>2 DEF Connect
  <2>3. CASE TimePasses
    BY <2>1, <2>3, BoundsAssumption DEF TimePasses, Times
  <2>4. CASE \E s \in Servers : DeleteServer(s)
    BY <2>1, <2>4 DEF DeleteServer
  <2> QED
    BY <2>2, <2>3, <2>4
<1>4. UNCHANGED <<lastTick, drops, dbFailures>>
  BY DEF Connect, TimePasses, DeleteServer
<1>5. TypeOK'
  <2>1. TypeOK
    BY DEF IInv
  <2> QED
    BY <1>1, <1>3, <1>4, <2>1 DEF TypeOK
<1> QED
  BY <1>1, <1>2, <1>5, Elsewhere

LEMMA StutterKeeps ==
    ASSUME IInv, UNCHANGED vars
    PROVE  IInv'
  BY DEF IInv, TypeOK, JobHas, ReportsHave, vars

LEMMA KeepsIInv == IInv /\ [Next]_vars => IInv'
<1> SUFFICES ASSUME IInv, [Next]_vars PROVE IInv'
  OBVIOUS
<1>1. CASE \E i \in Instances, k \in Runs : Tick(i, k)
  BY <1>1, TickKeeps
<1>2. CASE \E u \in Users, s \in Servers : TriggerBackup(u, s)
  BY <1>2, TriggerBackupKeeps
<1>3. CASE \E u \in Users, b \in BackupIds : RestoreBackup(u, b)
  BY <1>3, RestoreBackupKeeps
<1>4. CASE \E u \in Users, s \in Servers, g \in Settings : UpdateBackupConfig(u, s, g)
  BY <1>4, UpdateBackupConfigKeeps
<1>5. ASSUME NEW j \in Jobs, Continue(j) PROVE IInv'
  BY <1>5, SelectKeeps, NextDueKeeps, SweepKeeps, LoadOwnedServerKeeps, UpsertKeeps,
     FindBackupKeeps, LoadConfigKeeps, InsertBackupKeeps, SendBackupKeeps, SendRestoreKeeps,
     MarkFailedKeeps, MarkConfigKeeps DEF Continue
<1>6. ASSUME NEW j \in Jobs, JobFails(j) PROVE IInv'
  BY <1>6, JobFailsKeeps
<1>7. ASSUME NEW r \in Reporters, Handle(r) PROVE IInv'
  BY <1>7, ArriveKeeps, ReadKeeps, WriteKeeps DEF Handle
<1>8. CASE AgentStarts
  BY <1>8, AgentStartsKeeps
<1>9. CASE \E b \in BackupIds : AgentReports(b)
  BY <1>9, AgentReportsKeeps
<1>10. CASE Drop
  BY <1>10, DropKeeps
<1>11. CASE Connect \/ TimePasses \/ \E s \in Servers : DeleteServer(s)
  BY <1>11, OthersKeep
<1>12. CASE UNCHANGED vars
  BY <1>12, StutterKeeps
<1> QED
  BY <1>1, <1>2, <1>3, <1>4, <1>5, <1>6, <1>7, <1>8, <1>9, <1>10, <1>11, <1>12 DEF Next

(* The types hold, and what is known of jobs and messages.                 *)
LEMMA Invariance == Spec => []IInv
<1>1. Init => IInv
  BY InitIInv
<1>2. IInv /\ [Next]_vars => IInv'
  BY KeepsIInv
<1> QED
  BY <1>1, <1>2, PTL DEF Spec

(* Every row, job, command and report has the type it should have: no      *)
(* statement of the server actions, the scheduler or handleBackupProgress  *)
(* uses a row or a field that is not there.                                *)
THEOREM TypeCorrect == Spec => []TypeOK
<1>1. IInv => TypeOK
  BY DEF IInv
<1> QED
  BY <1>1, Invariance, PTL

-----------------------------------------------------------------------------
(* A tick comes to every schedule that is due.                             *)

(* A job that is over, and one that goes on.                               *)
LEMMA Ended ==
    ASSUME IInv, NEW j \in Jobs, Return(j) \/ job' = [job EXCEPT ![j] = Idle]
    PROVE  job'[j].pc \in {"idle", "next"} /\ \A k \in Jobs : k # j => job'[k] = job[k]
<1>1. CASE job' = [job EXCEPT ![j] = Idle]
  BY <1>1 DEF IInv, TypeOK, Idle
<1>2. CASE Return(j) /\ j \notin Users
  <2> DEFINE x == [job[j] EXCEPT !.pc = "next", !.server = None, !.backup = None]
  <2>1. x.pc = "next"
    BY JobFields DEF IInv, Job
  <2>2. job' = [job EXCEPT ![j] = x]
    BY <1>2 DEF Return, IInv, TypeOK
  <2> HIDE DEF x
  <2> QED
    BY <2>1, <2>2 DEF IInv, TypeOK
<1>3. CASE Return(j) /\ j \in Users
  BY <1>3 DEF Return, IInv, TypeOK, Idle
<1> QED
  BY <1>1, <1>2, <1>3

LEMMA Stepped ==
    ASSUME IInv, NEW j \in Jobs, NEW pc, Step(j, pc)
    PROVE  /\ job'[j] = At(j, pc) /\ \A k \in Jobs : k # j => job'[k] = job[k]
           /\ job'[j].pc = pc /\ job'[j].kind = job[j].kind /\ job'[j].backup = job[j].backup
<1>1. job' = [job EXCEPT ![j] = At(j, pc)]
  BY DEF Step, At, IInv, TypeOK
<1>2. job'[j] = At(j, pc) /\ \A k \in Jobs : k # j => job'[k] = job[k]
  BY <1>1 DEF IInv, TypeOK
<1> QED
  BY <1>2, Fields

(* A statement moves its own job.                                          *)
LEMMA OwnJob ==
    ASSUME IInv, NEW j \in Jobs, Continue(j), NEW k \in Jobs, k # j
    PROVE  job'[k] = job[k]
<1>1. CASE \/ LoadOwnedServer(j) \/ Upsert(j) \/ FindBackup(j) \/ LoadConfig(j)
           \/ SendBackup(j) \/ SendRestore(j) \/ MarkFailed(j) \/ MarkConfig(j) \/ Sweep(j)
  <2>1. CASE Return(j) \/ job' = [job EXCEPT ![j] = Idle]
    BY <2>1, Ended
  <2>2. CASE \E pc : Step(j, pc)
    BY <2>2, Stepped
  <2>3. CASE SendBackup(j) /\ up
    BY <2>3 DEF SendBackup, IInv, TypeOK
  <2> QED
    BY <1>1, <2>1, <2>2, <2>3 DEF LoadOwnedServer, Upsert, FindBackup, LoadConfig, SendBackup,
       SendRestore, MarkFailed, MarkConfig, Sweep
<1>2. CASE Select(j)
  BY <1>2 DEF Select, IInv, TypeOK
<1>3. CASE NextDue(j)
  BY <1>3 DEF NextDue, IInv, TypeOK
<1>4. CASE \E b \in BackupIds : InsertBackup(j, b)
  BY <1>4 DEF InsertBackup, IInv, TypeOK
<1> QED
  BY <1>1, <1>2, <1>3, <1>4 DEF Continue

(* A tick is over after the sweep only.                                    *)
LEMMA TickEnds ==
    ASSUME IInv, NEW k \in Jobs, k \notin Users, Continue(k), job'[k].pc = "idle"
    PROVE  job[k].due = {}
<1>1. CASE Sweep(k)
  BY <1>1 DEF Sweep, IInv, JobHas
<1>2. CASE Return(k)
  <2> DEFINE x == [job[k] EXCEPT !.pc = "next", !.server = None, !.backup = None]
  <2>1. x.pc = "next"
    BY JobFields DEF IInv, Job
  <2>2. job' = [job EXCEPT ![k] = x]
    BY <1>2 DEF Return, IInv, TypeOK
  <2> HIDE DEF x
  <2> QED
    BY <2>1, <2>2 DEF IInv, TypeOK
<1>3. CASE \E pc : pc # "idle" /\ Step(k, pc)
  BY <1>3, Stepped
<1>4. CASE Select(k)
  <2> DEFINE due == {s \in Servers : Scheduled(s, job[k].at) /\ ~Throttled(s, job[k].at)}
             x == [job[k] EXCEPT !.pc = "next", !.due = due]
  <2>1. x.pc = "next"
    BY JobFields DEF IInv, Job
  <2>2. job' = [job EXCEPT ![k] = x]
    BY <1>4 DEF Select, IInv, TypeOK
  <2> HIDE DEF x
  <2> QED
    BY <2>1, <2>2 DEF IInv, TypeOK
<1>5. CASE NextDue(k)
  <2>1. CASE \E s \in job[k].due :
                 job' = [job EXCEPT ![k] =
                           [@ EXCEPT !.pc = "load", !.server = s, !.due = job[k].due \ {s}]]
    <3>1. PICK s \in job[k].due :
              job' = [job EXCEPT ![k] =
                        [@ EXCEPT !.pc = "load", !.server = s, !.due = job[k].due \ {s}]]
      BY <2>1
    <3> DEFINE x == [job[k] EXCEPT !.pc = "load", !.server = s, !.due = job[k].due \ {s}]
    <3>2. x.pc = "load"
      BY JobFields DEF IInv, Job
    <3>3. job' = [job EXCEPT ![k] = x]
      BY <3>1 DEF IInv, TypeOK, Job
    <3> HIDE DEF x
    <3> QED
      BY <3>2, <3>3 DEF IInv, TypeOK
  <2>2. CASE job[k].due = {}
    BY <2>2
  <2> QED
    BY <1>5, <2>1, <2>2 DEF NextDue
<1>6. CASE \E b \in BackupIds : InsertBackup(k, b)
  BY <1>6, JobFields DEF InsertBackup, IInv, TypeOK, Job
<1>7. CASE SendBackup(k) /\ up
  <2> DEFINE x == [job[k] EXCEPT !.pc = "mark", !.at = now]
  <2>1. x.pc = "mark"
    BY JobFields DEF IInv, Job
  <2>2. job' = [job EXCEPT ![k] = x]
    BY <1>7 DEF SendBackup, IInv, TypeOK
  <2> HIDE DEF x
  <2> QED
    BY <2>1, <2>2 DEF IInv, TypeOK
<1> QED
  BY <1>1, <1>2, <1>3, <1>4, <1>5, <1>6, <1>7 DEF Continue, LoadOwnedServer, Upsert, FindBackup,
     LoadConfig, SendBackup, SendRestore, MarkFailed, MarkConfig

LEMMA StepsTryEveryDue ==
    ASSUME MaxDbFailures = 0, Users \cap Runs = {}, IInv, [Next]_vars,
           NEW k \in Runs, job[k].pc # "idle", job'[k].pc = "idle"
    PROVE  job[k].due = {}
<1>1. k \in Jobs /\ k \notin Users
  BY DEF Jobs
<1>2. ASSUME NEW j \in Jobs, Continue(j) PROVE job[k].due = {}
  BY <1>1, <1>2, OwnJob, TickEnds
<1>3. ASSUME NEW j \in Jobs, JobFails(j) PROVE FALSE
  <2>1. dbFailures \in 0 .. 0 /\ dbFailures < 0
    BY <1>3 DEF JobFails, IInv, TypeOK
  <2> QED
    BY <2>1
<1>4. ASSUME NEW i \in Instances, NEW m \in Runs, Tick(i, m) PROVE FALSE
  <2>1. m # k
    BY <1>4 DEF Tick
  <2> QED
    BY <1>1, <1>4, <2>1 DEF Tick, IInv, TypeOK
<1>5. ASSUME NEW u \in Users, NEW x, Begin(u, x) PROVE FALSE
  <2>1. u # k
    BY <1>1
  <2> QED
    BY <1>1, <1>5, <2>1 DEF Begin, IInv, TypeOK
<1>6. CASE \/ \E u \in Users, s \in Servers : TriggerBackup(u, s)
           \/ \E u \in Users, b \in BackupIds : RestoreBackup(u, b)
           \/ \E u \in Users, s \in Servers, g \in Settings : UpdateBackupConfig(u, s, g)
  BY <1>5, <1>6 DEF TriggerBackup, RestoreBackup, UpdateBackupConfig
<1>7. CASE UNCHANGED job
  BY <1>7
<1>8. \/ \E j \in Jobs : Continue(j) \/ JobFails(j)
      \/ \E i \in Instances, m \in Runs : Tick(i, m)
      \/ \E u \in Users, s \in Servers : TriggerBackup(u, s)
      \/ \E u \in Users, b \in BackupIds : RestoreBackup(u, b)
      \/ \E u \in Users, s \in Servers, g \in Settings : UpdateBackupConfig(u, s, g)
      \/ UNCHANGED job
  BY DEF Next, Handle, Arrive, Read, Write, AgentStarts, AgentReports, Drop, Connect, TimePasses,
     DeleteServer, vars
<1> QED
  BY <1>2, <1>3, <1>4, <1>6, <1>7, <1>8

(* Unless the database fails, a tick is over only when it has come to all  *)
(* the schedules it found due: offline hosts, servers deleted meanwhile    *)
(* and configurations that are no good do not end it.                      *)
THEOREM DueAreTried ==
    ASSUME MaxDbFailures = 0, Users \cap Runs = {} PROVE Spec => EveryDueIsTried
<1>1. IInv /\ [Next]_vars =>
          [\A k \in Runs : job[k].pc # "idle" /\ job'[k].pc = "idle" => job[k].due = {}]_vars
  BY StepsTryEveryDue
<1>2. Spec => []IInv
  BY Invariance
<1> QED
  BY <1>1, <1>2, PTL DEF Spec, EveryDueIsTried

-----------------------------------------------------------------------------
(* The throttle.                                                           *)

(* One process runs the scheduler, and a tick is over before the next one. *)
OneScheduler == (\A i, j \in Instances : i = j) /\ ~Overlap /\ Users \cap Runs = {}

(* No user asks for a backup.                                              *)
NobodyAsks == [][\A u \in Users, s \in Servers : ~TriggerBackup(u, s)]_vars

(* The last run of s that is recorded is at least TICK_MS ago.             *)
Passed(s) == config[s] # None /\ (config[s].lastRun # None => now >= config[s].lastRun + Minute)

(* A tick that is under way is the only one, and the timer's next is yet   *)
(* to come.                                                                *)
OneTick ==
    \A k \in Runs : job[k].pc # "idle" =>
        /\ \A i \in Instances : lastTick[i] # None /\ now < lastTick[i] + Minute
        /\ \A m \in Runs : job[m].pc # "idle" => m = k

(* What users do.                                                          *)
NotAsked ==
    \A u \in Users :
        /\ job[u].pc # "idle" => job[u].kind \in {"restore", "configure"}
        /\ job[u].pc \in {"config", "insert", "send", "fail", "mark"} => job[u].kind = "restore"

(* What a tick waits for has passed: of the server it has come to, until   *)
(* it marks it, and of those that are still due.                           *)
Waits(x) ==
    /\ x.pc = "select" => x.at <= now
    /\ x.pc = "idle" => x.due = {}
    /\ \A s \in x.due : Passed(s)
    /\ x.pc \in {"load", "config", "insert", "send"} => Passed(x.server)
    /\ x.pc \in {"load", "config", "insert", "send", "fail", "mark"} => x.server \notin x.due

ThrottleInv == OneTick /\ NotAsked /\ \A k \in Runs : Waits(job[k])

(* The time, and when servers were backed up last.                         *)
LEMMA Clocks ==
    ASSUME IInv
    PROVE  /\ now \in Nat
           /\ \A s \in Servers : config[s] # None => config[s].lastRun \in Nat \cup {None}
           /\ \A i \in Instances : lastTick[i] \in Nat \cup {None}
  BY NoneAssumption, BoundsAssumption DEF IInv, TypeOK, Config, Times

(* How a tick moves on.                                                    *)
LEMMA TickMoves ==
    ASSUME IInv, NEW k \in Runs, k \notin Users, Continue(k)
    PROVE  \/ /\ job'[k].pc \in {"idle", "next", "sweep"} /\ job'[k].due = job[k].due
              /\ job'[k].pc = "idle" => job[k].due = {}
           \/ /\ job[k].pc = "select" /\ job'[k].pc = "next"
              /\ job'[k].due = {s \in Servers : Scheduled(s, job[k].at) /\ ~Throttled(s, job[k].at)}
           \/ /\ job'[k].pc = "load" /\ job'[k].server \in job[k].due
              /\ job'[k].due = job[k].due \ {job'[k].server}
           \/ /\ job[k].pc \in {"load", "config", "insert"} /\ job'[k].pc \in {"config", "insert", "send"}
              /\ job'[k].server = job[k].server /\ job'[k].due = job[k].due
           \/ /\ job[k].pc = "send" /\ job'[k].pc \in {"fail", "mark"}
              /\ job'[k].server = job[k].server /\ job'[k].due = job[k].due
<1>1. k \in Jobs
  BY DEF Jobs
<1>2. job[k].kind = "scheduled" \/ job[k].pc = "idle"
  BY <1>1 DEF IInv, JobHas
<1>3. CASE Return(k)
  <2> DEFINE x == [job[k] EXCEPT !.pc = "next", !.server = None, !.backup = None]
  <2>1. x.pc = "next" /\ x.due = job[k].due
    BY <1>1, JobFields DEF IInv, Job
  <2>2. job' = [job EXCEPT ![k] = x]
    BY <1>1, <1>3 DEF Return, IInv, TypeOK
  <2> HIDE DEF x
  <2> QED
    BY <1>1, <2>1, <2>2 DEF IInv, TypeOK
<1>4. ASSUME NEW pc, Step(k, pc)
      PROVE  job'[k].pc = pc /\ job'[k].server = job[k].server /\ job'[k].due = job[k].due
  BY <1>1, <1>4, Stepped, Fields
<1>5. CASE Select(k)
  <2> DEFINE due == {s \in Servers : Scheduled(s, job[k].at) /\ ~Throttled(s, job[k].at)}
             x == [job[k] EXCEPT !.pc = "next", !.due = due]
  <2>1. x.pc = "next" /\ x.due = due
    BY <1>1, JobFields DEF IInv, Job
  <2>2. job' = [job EXCEPT ![k] = x]
    BY <1>1, <1>5 DEF Select, IInv, TypeOK
  <2> HIDE DEF x
  <2>3. job'[k] = x
    BY <1>1, <2>2 DEF IInv, TypeOK
  <2> QED
    BY <1>5, <2>1, <2>3 DEF Select
<1>6. CASE NextDue(k)
  <2>1. CASE \E s \in job[k].due :
                 job' = [job EXCEPT ![k] =
                           [@ EXCEPT !.pc = "load", !.server = s, !.due = job[k].due \ {s}]]
    <3>1. PICK s \in job[k].due :
              job' = [job EXCEPT ![k] =
                        [@ EXCEPT !.pc = "load", !.server = s, !.due = job[k].due \ {s}]]
      BY <2>1, Zenon
    <3> DEFINE x == [job[k] EXCEPT !.pc = "load", !.server = s, !.due = job[k].due \ {s}]
    <3>2. x.pc = "load" /\ x.server = s /\ x.due = job[k].due \ {s}
      BY <1>1, JobFields DEF IInv, Job
    <3>3. job' = [job EXCEPT ![k] = x]
      BY <1>1, <3>1 DEF IInv, TypeOK, Job
    <3> HIDE DEF x
    <3>4. job'[k] = x
      BY <1>1, <3>3 DEF IInv, TypeOK
    <3> QED
      BY <3>2, <3>4
  <2>2. CASE job' = [job EXCEPT ![k] = [@ EXCEPT !.pc = "sweep", !.at = now]]
    <3> DEFINE x == [job[k] EXCEPT !.pc = "sweep", !.at = now]
    <3>1. x.pc = "sweep" /\ x.due = job[k].due
      BY <1>1, JobFields DEF IInv, Job
    <3>2. job' = [job EXCEPT ![k] = x]
      BY <1>1, <2>2 DEF IInv, TypeOK
    <3> HIDE DEF x
    <3>3. job'[k] = x
      BY <1>1, <3>2 DEF IInv, TypeOK
    <3> QED
      BY <3>1, <3>3
  <2> QED
    BY <1>6, <2>1, <2>2, Zenon DEF NextDue
<1>7. CASE Sweep(k)
  <2>1. job'[k] = Idle /\ job[k].due = {}
    BY <1>1, <1>7 DEF Sweep, IInv, TypeOK, JobHas
  <2> QED
    BY <2>1 DEF Idle
<1>8. CASE LoadOwnedServer(k)
  BY <1>1, <1>2, <1>3, <1>4, <1>8 DEF LoadOwnedServer
<1>9. CASE LoadConfig(k)
  BY <1>2, <1>3, <1>4, <1>9 DEF LoadConfig
<1>10. CASE \E b \in BackupIds : InsertBackup(k, b)
  <2>1. PICK b \in BackupIds : InsertBackup(k, b)
    BY <1>10
  <2> DEFINE x == [job[k] EXCEPT !.pc = "send", !.backup = b]
  <2>2. x.pc = "send" /\ x.server = job[k].server /\ x.due = job[k].due
    BY <1>1, JobFields DEF IInv, Job
  <2>3. job' = [job EXCEPT ![k] = x]
    BY <1>1, <2>1 DEF InsertBackup, IInv, TypeOK
  <2> HIDE DEF x
  <2>4. job'[k] = x
    BY <1>1, <2>3 DEF IInv, TypeOK
  <2> QED
    BY <2>1, <2>2, <2>4 DEF InsertBackup
<1>11. CASE SendBackup(k) /\ up
  <2> DEFINE x == [job[k] EXCEPT !.pc = "mark", !.at = now]
  <2>1. x.pc = "mark" /\ x.server = job[k].server /\ x.due = job[k].due
    BY <1>1, JobFields DEF IInv, Job
  <2>2. job' = [job EXCEPT ![k] = x]
    BY <1>1, <1>11 DEF SendBackup, IInv, TypeOK
  <2> HIDE DEF x
  <2>3. job'[k] = x
    BY <1>1, <2>2 DEF IInv, TypeOK
  <2> QED
    BY <1>11, <2>1, <2>3 DEF SendBackup
<1>12. CASE SendBackup(k) /\ ~up
  BY <1>4, <1>12 DEF SendBackup
<1>13. CASE Upsert(k) \/ FindBackup(k) \/ SendRestore(k)
  BY <1>1, <1>2, <1>13 DEF Upsert, FindBackup, SendRestore, IInv, JobHas
<1>14. CASE MarkFailed(k) \/ MarkConfig(k)
  BY <1>3, <1>14 DEF MarkFailed, MarkConfig
<1> QED
  BY <1>3, <1>5, <1>6, <1>7, <1>8, <1>9, <1>10, <1>11, <1>12, <1>13, <1>14 DEF Continue

(* Runs that were recorded are not forgotten.                              *)
RunsRecorded ==
    \A s \in Servers : config[s] # None => config'[s] # None /\ config'[s].lastRun = config[s].lastRun

LEMMA PassedStays ==
    ASSUME IInv, NEW s \in Servers, Passed(s), RunsRecorded, now' \in Nat, now' >= now
    PROVE  Passed(s)'
<1>1. /\ config[s] # None /\ config'[s] # None /\ config'[s].lastRun = config[s].lastRun
      /\ config[s].lastRun = None \/ now >= config[s].lastRun + Minute
  BY DEF Passed, RunsRecorded
<1>2. now \in Nat /\ Minute \in Nat /\ config[s].lastRun \in Nat \cup {None}
  BY <1>1, Clocks, BoundsAssumption
<1>3. CASE config[s].lastRun = None
  BY <1>1, <1>3 DEF Passed
<1>4. CASE config[s].lastRun \in Nat /\ now >= config[s].lastRun + Minute
  <2>1. now' >= config[s].lastRun + Minute
    BY <1>2, <1>4
  <2> QED
    BY <1>1, <2>1 DEF Passed
<1> QED
  BY <1>1, <1>2, <1>3, <1>4

(* A tick that is left alone waits as before.                              *)
LEMMA WaitsStill ==
    ASSUME IInv, NEW k \in Runs, Waits(job[k]), job'[k] = job[k], RunsRecorded,
           now' \in Nat, now' >= now
    PROVE  Waits(job[k])'
<1>1. k \in Jobs
  BY DEF Jobs
<1>2. now \in Nat /\ job[k].due \subseteq Servers
  BY <1>1, Clocks, JobFields DEF IInv
<1>3. job[k].pc = "select" => job[k].at \in Nat
  BY <1>1 DEF IInv, JobHas, Times
<1>4. job[k].pc \in {"load", "config", "insert", "send"} => job[k].server \in Servers
  BY <1>1 DEF IInv, JobHas
<1>5. job[k].pc = "select" => job[k].at <= now'
  BY <1>2, <1>3 DEF Waits
<1>6. \A s \in job[k].due : Passed(s)'
  BY <1>2, PassedStays DEF Waits
<1>7. job[k].pc \in {"load", "config", "insert", "send"} => Passed(job[k].server)'
  <2> SUFFICES ASSUME job[k].pc \in {"load", "config", "insert", "send"}
               PROVE  Passed(job[k].server)'
    OBVIOUS
  <2>1. PICK s \in Servers : s = job[k].server /\ Passed(s)
    BY <1>4 DEF Waits
  <2>2. Passed(s)'
    BY <2>1, PassedStays
  <2> QED
    BY <2>1, <2>2 DEF Passed
<1> QED
  BY <1>5, <1>6, <1>7 DEF Waits

(* The ticks are left alone.                                               *)
LEMMA RunsStay ==
    ASSUME IInv, ThrottleInv, \A k \in Runs : job'[k] = job[k], UNCHANGED <<now, lastTick>>,
           RunsRecorded
    PROVE  OneTick' /\ \A k \in Runs : Waits(job[k])'
<1>1. now' \in Nat /\ now' >= now
  BY Clocks
<1>2. OneTick'
  BY DEF ThrottleInv, OneTick
<1> QED
  BY <1>1, <1>2, WaitsStill DEF ThrottleInv

(* What a statement of a job leaves alone.                                 *)
LEMMA RowsStay ==
    ASSUME NEW j, Continue(j)
    PROVE  UNCHANGED jobVars /\ (config' = config \/ Upsert(j) \/ MarkConfig(j))
<1>1. CASE Select(j)
  BY <1>1, Zenon DEF Select
<1>2. CASE NextDue(j)
  BY <1>2, Zenon DEF NextDue
<1>3. CASE Sweep(j)
  BY <1>3, Zenon DEF Sweep
<1>4. CASE LoadOwnedServer(j) \/ FindBackup(j) \/ LoadConfig(j)
  BY <1>4, Zenon DEF LoadOwnedServer, FindBackup, LoadConfig
<1>5. CASE Upsert(j) \/ MarkConfig(j)
  BY <1>5, Zenon DEF Upsert, MarkConfig
<1>6. CASE \E b \in BackupIds : InsertBackup(j, b)
  BY <1>6, Zenon DEF InsertBackup
<1>7. CASE SendBackup(j) \/ SendRestore(j) \/ MarkFailed(j)
  BY <1>7, Zenon DEF SendBackup, SendRestore, MarkFailed
<1> QED
  BY <1>1, <1>2, <1>3, <1>4, <1>5, <1>6, <1>7 DEF Continue

(* What is recorded of runs changes in MarkConfig only.                    *)
LEMMA Recorded ==
    ASSUME IInv, [Next]_vars, \A j \in Jobs : ~MarkConfig(j)
    PROVE  RunsRecorded
<1>1. ASSUME NEW u \in Jobs, Upsert(u) PROVE RunsRecorded
  <2> DEFINE s == job[u].server
             c == [set |-> job[u].set, lastRun |-> IF config[s] = None THEN None ELSE config[s].lastRun]
  <2>1. s \in Servers /\ job[u].set \in Settings /\ config[s] \in Config \cup {None}
    BY <1>1 DEF Upsert, IInv, JobHas, TypeOK
  <2>2. c \in Config /\ (config[s] # None => c.lastRun = config[s].lastRun)
    BY <2>1, BoundsAssumption DEF Config
  <2>3. config' = [config EXCEPT ![s] = c]
    BY <1>1 DEF Upsert
  <2> HIDE DEF c
  <2> QED
    BY <2>1, <2>2, <2>3, NoneAssumption DEF RunsRecorded, IInv, TypeOK
<1>2. CASE UNCHANGED config
  BY <1>2 DEF RunsRecorded
<1>3. ASSUME NEW j \in Jobs, Continue(j), ~MarkConfig(j) PROVE UNCHANGED config \/ Upsert(j)
  BY <1>3, RowsStay
<1>4. ASSUME NEW j \in Jobs, JobFails(j) PROVE UNCHANGED config
  BY <1>4 DEF JobFails
<1>5. CASE \/ \E i \in Instances, k \in Runs : Tick(i, k)
           \/ \E u \in Users, s \in Servers : TriggerBackup(u, s)
           \/ \E u \in Users, b \in BackupIds : RestoreBackup(u, b)
           \/ \E u \in Users, s \in Servers, g \in Settings : UpdateBackupConfig(u, s, g)
  <2>1. config' = config
    BY <1>5, Zenon DEF Tick, TriggerBackup, RestoreBackup, UpdateBackupConfig, Begin
  <2> QED
    BY <1>2, <2>1
<1>6. CASE \/ \E r \in Reporters : Handle(r)
           \/ AgentStarts \/ \E b \in BackupIds : AgentReports(b)
           \/ Drop \/ Connect \/ TimePasses
           \/ \E s \in Servers : DeleteServer(s)
           \/ UNCHANGED vars
  BY <1>2, <1>6 DEF Handle, Arrive, Read, Write, AgentStarts, AgentReports, Drop, Connect,
     TimePasses, DeleteServer, vars
<1> QED
  BY <1>1, <1>2, <1>3, <1>4, <1>5, <1>6 DEF Next

LEMMA TickWaits ==
    ASSUME OneScheduler, IInv, ThrottleInv, [Next]_vars,
           NEW i \in Instances, NEW k \in Runs, Tick(i, k)
    PROVE  ThrottleInv'
<1> DEFINE x == [Idle EXCEPT !.pc = "select", !.kind = "scheduled", !.at = now]
<1>1. x.pc = "select" /\ x.at = now /\ x.due = {}
  BY DEF Idle
<1>2. /\ job' = [job EXCEPT ![k] = x] /\ UNCHANGED <<now, config>> /\ k \in Jobs
      /\ lastTick' = [lastTick EXCEPT ![i] = now] /\ TickDue(i)
  BY DEF Tick, Jobs
<1> HIDE DEF x
<1>3. job'[k] = x /\ \A m \in Jobs : m # k => job'[m] = job[m]
  BY <1>2 DEF IInv, TypeOK
<1>4. now \in Nat /\ now' = now /\ lastTick[i] \in Nat \cup {None} /\ Minute \in Nat \ {0}
  BY <1>2, Clocks, BoundsAssumption
<1>5. lastTick'[i] = now /\ \A j \in Instances : j = i
  BY <1>2 DEF OneScheduler, IInv, TypeOK
<1>6. \A m \in Runs : job[m].pc = "idle"
  <2> SUFFICES ASSUME NEW m \in Runs, job[m].pc # "idle" PROVE FALSE
    OBVIOUS
  <2>1. lastTick[i] # None /\ now < lastTick[i] + Minute
    BY DEF ThrottleInv, OneTick
  <2>2. now >= lastTick[i] + Minute
    BY <1>2, <2>1 DEF TickDue
  <2> QED
    BY <1>4, <2>1, <2>2
<1>7. OneTick'
  <2>1. now # None /\ now < now + Minute
    BY <1>4, NoneAssumption
  <2>2. \A j \in Instances : lastTick'[j] # None /\ now' < lastTick'[j] + Minute
    BY <1>4, <1>5, <2>1
  <2>3. \A m \in Runs : job'[m].pc # "idle" => m = k
    BY <1>3, <1>6 DEF Jobs
  <2> QED
    BY <2>2, <2>3 DEF OneTick
<1>8. ASSUME NEW m \in Runs PROVE Waits(job[m])'
  <2>1. CASE m = k
    <3>1. now <= now'
      BY <1>4
    <3> QED
      BY <1>1, <1>3, <2>1, <3>1 DEF Waits
  <2>2. CASE m # k
    <3>1. job'[m] = job[m] /\ m \in Jobs
      BY <1>3, <2>2 DEF Jobs
    <3>2. RunsRecorded
      BY <1>2 DEF RunsRecorded
    <3>3. now' >= now /\ now' \in Nat
      BY <1>4
    <3> QED
      BY <3>1, <3>2, <3>3, WaitsStill DEF ThrottleInv
  <2> QED
    BY <2>1, <2>2
<1>9. NotAsked'
  <2>1. \A u \in Users : job'[u] = job[u]
    BY <1>3 DEF OneScheduler, Jobs
  <2> QED
    BY <2>1 DEF ThrottleInv, NotAsked
<1> QED
  BY <1>7, <1>8, <1>9 DEF ThrottleInv

(* A server action.                                                        *)
LEMMA UserWaits ==
    ASSUME OneScheduler, IInv, ThrottleInv, [Next]_vars, NEW u \in Users, RunsRecorded,
           \A j \in Jobs : j # u => job'[j] = job[j],
           UNCHANGED <<now, lastTick>>,
           \/ job'[u].pc = "idle"
           \/ /\ job'[u].kind \in {"restore", "configure"}
              /\ job'[u].pc \in {"config", "insert", "send", "fail", "mark"} => job'[u].kind = "restore"
    PROVE  ThrottleInv'
<1>1. \A k \in Runs : job'[k] = job[k]
  BY DEF OneScheduler, Jobs
<1>2. OneTick' /\ \A k \in Runs : Waits(job[k])'
  BY <1>1, RunsStay
<1>3. \A v \in Users : v # u => job'[v] = job[v]
  BY DEF Jobs
<1>4. NotAsked'
  BY <1>3 DEF ThrottleInv, NotAsked
<1> QED
  BY <1>2, <1>4 DEF ThrottleInv

LEMMA UserStepWaits ==
    ASSUME OneScheduler, IInv, ThrottleInv, [Next]_vars, NEW u \in Users, Continue(u)
    PROVE  ThrottleInv'
<1>1. u \in Jobs /\ ~MarkConfig(u)
  BY DEF Jobs, MarkConfig, ThrottleInv, NotAsked, IInv, JobHas
<1>2. \A j \in Jobs : j # u => job'[j] = job[j]
  BY <1>1, OwnJob
<1>3. now' = now /\ lastTick' = lastTick
  BY <1>1, RowsStay DEF jobVars
<1>4. RunsRecorded
  <2>1. UNCHANGED config \/ Upsert(u)
    BY <1>1, RowsStay
  <2>2. ASSUME NEW j \in Jobs, MarkConfig(j) PROVE FALSE
    <3>1. job'[j] # job[j]
      <4>1. Return(j) /\ job[j].pc = "mark"
        BY <2>2 DEF MarkConfig
      <4> QED
        BY <4>1, Ended
    <3>2. j = u
      BY <1>2, <3>1
    <3> QED
      BY <1>1, <2>2, <3>2
  <2> QED
    BY <2>2, Recorded
<1>5. job[u].pc # "idle" => job[u].kind \in {"restore", "configure"}
  BY DEF ThrottleInv, NotAsked
<1>6. CASE Return(u) \/ job' = [job EXCEPT ![u] = Idle]
  <2>1. job'[u] = Idle
    BY <1>1, <1>6 DEF Return, IInv, TypeOK
  <2>2. job'[u].pc = "idle"
    BY <2>1 DEF Idle
  <2> QED
    BY <1>2, <1>3, <1>4, <2>2, UserWaits
<1>7. ASSUME NEW pc, Step(u, pc), job[u].pc \in {"load", "find", "config"},
             pc = "config" => job[u].kind # "configure",
             pc \in {"find", "upsert", "config", "insert", "send"},
             job[u].pc = "config" => job[u].kind = "restore",
             pc \in {"insert", "send"} => job[u].pc = "config"
      PROVE  ThrottleInv'
  <2>1. job'[u].pc = pc /\ job'[u].kind = job[u].kind
    BY <1>1, <1>7, Stepped
  <2>2. job'[u].kind \in {"restore", "configure"}
    BY <1>5, <1>7, <2>1
  <2>3. job'[u].pc \in {"config", "insert", "send", "fail", "mark"} => job'[u].kind = "restore"
    BY <1>7, <2>1, <2>2
  <2> QED
    BY <1>2, <1>3, <1>4, <2>2, <2>3, UserWaits
<1>8. job[u].pc \in {"config", "insert", "send", "fail", "mark"} => job[u].kind = "restore"
  BY DEF ThrottleInv, NotAsked
<1>9. CASE LoadOwnedServer(u)
  BY <1>5, <1>6, <1>7, <1>9 DEF LoadOwnedServer
<1>10. CASE FindBackup(u)
  <2>1. job[u].kind = "restore"
    BY <1>1, <1>10 DEF FindBackup, IInv, JobHas
  <2> QED
    BY <1>6, <1>7, <1>10, <2>1 DEF FindBackup
<1>11. CASE LoadConfig(u)
  BY <1>6, <1>7, <1>8, <1>11 DEF LoadConfig
<1>12. CASE Upsert(u) \/ SendRestore(u) \/ Sweep(u) \/ MarkFailed(u)
  <2>1. Return(u) \/ job' = [job EXCEPT ![u] = Idle]
    BY <1>12, Zenon DEF Upsert, SendRestore, Sweep, MarkFailed
  <2> QED
    BY <1>6, <2>1
<1>13. CASE Select(u) \/ NextDue(u)
  <2>1. job[u].pc = "select" \/ job[u].pc = "next"
    BY <1>13, Zenon DEF Select, NextDue
  <2> QED
    BY <1>1, <1>5, <2>1 DEF IInv, JobHas
<1>14. CASE SendBackup(u) \/ \E b \in BackupIds : InsertBackup(u, b)
  <2>1. job[u].pc = "insert" \/ (job[u].pc = "send" /\ job[u].kind # "restore")
    BY <1>14, Zenon DEF SendBackup, InsertBackup
  <2> QED
    BY <1>1, <1>8, <2>1 DEF IInv, JobHas
<1> QED
  BY <1>1, <1>6, <1>9, <1>10, <1>11, <1>12, <1>13, <1>14 DEF Continue

(* A statement of a tick that records no run.                              *)
LEMMA TickStepWaits ==
    ASSUME OneScheduler, IInv, ThrottleInv, [Next]_vars,
           NEW k \in Runs, Continue(k), RunsRecorded
    PROVE  ThrottleInv'
<1>1. /\ k \in Jobs /\ k \notin Users
      /\ \A m \in Jobs : m # k => job'[m] = job[m]
  BY OwnJob DEF OneScheduler, Jobs
<1>2. now' = now /\ lastTick' = lastTick
  BY RowsStay DEF jobVars
<1>3. now \in Nat /\ now' \in Nat /\ now' >= now
  BY <1>2, Clocks
<1>4. NotAsked'
  <2>1. \A u \in Users : job'[u] = job[u]
    BY <1>1 DEF OneScheduler, Jobs
  <2> QED
    BY <2>1 DEF ThrottleInv, NotAsked
<1>5. Waits(job[k]) /\ job[k].due \subseteq Servers
  BY <1>1, JobFields DEF ThrottleInv, IInv
<1>6. \A s \in Servers : Passed(s) => Passed(s)'
  BY <1>3, PassedStays
<1>7. job[k].pc # "idle"
  BY <1>1, RowsStay, Zenon DEF Continue, Select, NextDue, Sweep, LoadOwnedServer, Upsert,
     FindBackup, LoadConfig, InsertBackup, SendBackup, SendRestore, MarkFailed, MarkConfig
<1>8. OneTick'
  <2>1. \A m \in Runs : m # k => job[m].pc = "idle" /\ job'[m].pc = "idle"
    BY <1>1, <1>7 DEF ThrottleInv, OneTick, Jobs
  <2>2. \A i \in Instances : lastTick'[i] # None /\ now' < lastTick'[i] + Minute
    BY <1>2, <1>7 DEF ThrottleInv, OneTick
  <2> QED
    BY <2>1, <2>2 DEF OneTick
<1>9. Waits(job[k])'
  <2>1. CASE /\ job'[k].pc \in {"idle", "next", "sweep"} /\ job'[k].due = job[k].due
             /\ job'[k].pc = "idle" => job[k].due = {}
    BY <1>5, <1>6, <2>1 DEF Waits
  <2>2. CASE /\ job[k].pc = "select" /\ job'[k].pc = "next"
             /\ job'[k].due = {s \in Servers : Scheduled(s, job[k].at) /\ ~Throttled(s, job[k].at)}
    <3>1. job[k].at \in Nat /\ job[k].at <= now /\ Minute \in Nat
      BY <1>1, <1>5, <2>2, BoundsAssumption DEF IInv, JobHas, Times, Waits
    <3>2. ASSUME NEW s \in Servers, Scheduled(s, job[k].at), ~Throttled(s, job[k].at)
          PROVE  Passed(s)
      <4>1. config[s] # None
        BY <3>2 DEF Scheduled
      <4>2. config[s].lastRun \in Nat \cup {None}
        BY <4>1, Clocks
      <4>3. CASE config[s].lastRun = None
        BY <4>1, <4>3 DEF Passed
      <4>4. CASE config[s].lastRun # None
        <5>1. config[s].lastRun \in Nat /\ ~(job[k].at < config[s].lastRun + Minute)
          BY <3>2, <4>2, <4>4 DEF Throttled
        <5>2. now >= config[s].lastRun + Minute
          BY <1>3, <3>1, <5>1
        <5> QED
          BY <4>1, <5>2 DEF Passed
      <4> QED
        BY <4>3, <4>4
    <3> QED
      BY <1>6, <2>2, <3>2 DEF Waits
  <2>3. CASE /\ job'[k].pc = "load" /\ job'[k].server \in job[k].due
             /\ job'[k].due = job[k].due \ {job'[k].server}
    BY <1>5, <1>6, <2>3 DEF Waits
  <2>4. CASE /\ job[k].pc \in {"load", "config", "insert"} /\ job'[k].pc \in {"config", "insert", "send"}
             /\ job'[k].server = job[k].server /\ job'[k].due = job[k].due
    <3>1. job[k].server \in Servers
      BY <1>1, <2>4 DEF IInv, JobHas
    <3>2. Passed(job[k].server)'
      <4>1. PICK s \in Servers : s = job[k].server /\ Passed(s)
        BY <1>5, <2>4, <3>1 DEF Waits
      <4>2. Passed(s)'
        BY <1>6, <4>1
      <4> QED
        BY <2>4, <4>1, <4>2 DEF Passed
    <3>3. \A s \in job'[k].due : Passed(s)'
      BY <1>5, <1>6, <2>4 DEF Waits
    <3> QED
      BY <1>5, <2>4, <3>2, <3>3 DEF Waits
  <2>5. CASE /\ job[k].pc = "send" /\ job'[k].pc \in {"fail", "mark"}
             /\ job'[k].server = job[k].server /\ job'[k].due = job[k].due
    BY <1>5, <1>6, <2>5 DEF Waits
  <2> QED
    BY <1>1, <2>1, <2>2, <2>3, <2>4, <2>5, TickMoves
<1>10. ASSUME NEW m \in Runs, m # k PROVE Waits(job[m])'
  <2>1. job'[m] = job[m]
    BY <1>1, <1>10 DEF Jobs
  <2> QED
    BY <1>3, <2>1, WaitsStill DEF ThrottleInv
<1>11. \A m \in Runs : Waits(job[m])'
  BY <1>9, <1>10
<1> QED
  BY <1>4, <1>8, <1>11 DEF ThrottleInv

(* The tick records the run of the server it has come to, which is not due *)
(* any more.                                                               *)
LEMMA MarkWaits ==
    ASSUME OneScheduler, IInv, ThrottleInv, [Next]_vars, NEW k \in Runs, MarkConfig(k)
    PROVE  ThrottleInv'
<1> DEFINE s == job[k].server
<1>1. /\ k \in Jobs /\ k \notin Users
      /\ \A m \in Jobs : m # k => job'[m] = job[m]
  BY OwnJob DEF OneScheduler, Jobs, Continue
<1>2. now' = now /\ lastTick' = lastTick /\ job[k].pc = "mark" /\ Return(k)
  BY DEF MarkConfig, jobVars
<1>3. now \in Nat /\ s \in Servers /\ config[s] # None
  BY <1>1, <1>2, Clocks DEF IInv, JobHas
<1>4. \A v \in Servers : v # s => config'[v] = config[v]
  BY DEF MarkConfig, IInv, TypeOK
<1>5. job'[k].pc = "next" /\ job'[k].due = job[k].due /\ s \notin job[k].due
  <2> DEFINE x == [job[k] EXCEPT !.pc = "next", !.server = None, !.backup = None]
  <2>1. x.pc = "next" /\ x.due = job[k].due
    BY <1>1, JobFields DEF IInv, Job
  <2>2. job' = [job EXCEPT ![k] = x]
    BY <1>1, <1>2 DEF Return, IInv, TypeOK
  <2>3. s \notin job[k].due
    BY <1>2 DEF ThrottleInv, Waits
  <2> HIDE DEF x
  <2> QED
    BY <1>1, <2>1, <2>2, <2>3 DEF IInv, TypeOK
<1>6. \A m \in Runs : m # k => job[m].pc = "idle" /\ job'[m] = job[m]
  BY <1>1, <1>2 DEF ThrottleInv, OneTick, Jobs
<1>7. OneTick'
  BY <1>2, <1>6 DEF ThrottleInv, OneTick
<1>8. NotAsked'
  <2>1. \A u \in Users : job'[u] = job[u]
    BY <1>1 DEF OneScheduler, Jobs
  <2> QED
    BY <2>1 DEF ThrottleInv, NotAsked
<1>9. ASSUME NEW v \in job[k].due PROVE Passed(v)'
  <2>1. Passed(v) /\ v \in Servers /\ v # s
    BY <1>1, <1>5, JobFields DEF ThrottleInv, Waits, IInv
  <2> QED
    BY <1>2, <1>4, <2>1 DEF Passed
<1>10. Waits(job[k])'
  BY <1>5, <1>9 DEF Waits
<1>11. ASSUME NEW m \in Runs, m # k PROVE Waits(job[m])'
  BY <1>6, <1>11 DEF ThrottleInv, Waits
<1>12. \A m \in Runs : Waits(job[m])'
  BY <1>10, <1>11
<1> QED
  BY <1>7, <1>8, <1>12 DEF ThrottleInv

(* A statement fails, in a server action or in a tick.                     *)
LEMMA FailureWaits ==
    ASSUME OneScheduler, IInv, ThrottleInv, NEW j \in Jobs, JobFails(j)
    PROVE  ThrottleInv'
<1>1. now' = now /\ lastTick' = lastTick /\ config' = config /\ job' = [job EXCEPT ![j] = Idle]
  BY DEF JobFails, jobVars
<1>2. job'[j] = Idle /\ \A m \in Jobs : m # j => job'[m] = job[m]
  BY <1>1 DEF IInv, TypeOK
<1>3. Idle.pc = "idle" /\ Idle.due = {}
  BY DEF Idle
<1>4. now' \in Nat /\ now' >= now /\ RunsRecorded
  BY <1>1, Clocks DEF RunsRecorded
<1>5. OneTick'
  BY <1>1, <1>2, <1>3 DEF ThrottleInv, OneTick, Jobs
<1>6. NotAsked'
  BY <1>2, <1>3 DEF ThrottleInv, NotAsked, Jobs
<1>7. ASSUME NEW k \in Runs PROVE Waits(job[k])'
  <2>1. CASE k = j
    BY <1>2, <1>3, <2>1 DEF Waits
  <2>2. CASE k # j
    <3>1. job'[k] = job[k]
      BY <1>2, <2>2 DEF Jobs
    <3> QED
      BY <1>4, <3>1, WaitsStill DEF ThrottleInv
  <2> QED
    BY <2>1, <2>2
<1> QED
  BY <1>5, <1>6, <1>7 DEF ThrottleInv

(* Time does not pass a timer while a tick is under way.                   *)
LEMMA TimeWaits ==
    ASSUME OneScheduler, IInv, ThrottleInv, TimePasses
    PROVE  ThrottleInv'
<1>1. now' = now + 1 /\ lastTick' = lastTick /\ config' = config /\ job' = job
  BY DEF TimePasses
<1>2. now' \in Nat /\ now' >= now /\ RunsRecorded
  BY <1>1, Clocks DEF RunsRecorded
<1>3. ASSUME NEW k \in Runs, job[k].pc # "idle", NEW i \in Instances
      PROVE  lastTick[i] # None /\ now + 1 < lastTick[i] + Minute
  <2>1. lastTick[i] # None /\ lastTick[i] \in Nat /\ now \in Nat /\ Minute \in Nat
    BY <1>3, Clocks, BoundsAssumption DEF ThrottleInv, OneTick
  <2>2. ~(now + 1 >= lastTick[i] + Minute)
    BY <1>3 DEF TimePasses, OneScheduler
  <2> QED
    BY <2>1, <2>2
<1>4. OneTick'
  BY <1>1, <1>3 DEF ThrottleInv, OneTick
<1>5. NotAsked'
  BY <1>1 DEF ThrottleInv, NotAsked
<1>6. ASSUME NEW k \in Runs PROVE Waits(job[k])'
  BY <1>1, <1>2, WaitsStill DEF ThrottleInv
<1> QED
  BY <1>4, <1>5, <1>6 DEF ThrottleInv

LEMMA StepsWait ==
    ASSUME OneScheduler, IInv, ThrottleInv, [Next]_vars,
           [\A u \in Users, s \in Servers : ~TriggerBackup(u, s)]_vars
    PROVE  ThrottleInv'
<1>1. ASSUME UNCHANGED <<now, lastTick, config, job>> PROVE ThrottleInv'
  <2>1. OneTick' /\ \A k \in Runs : Waits(job[k])'
    <3>1. RunsRecorded
      BY <1>1 DEF RunsRecorded
    <3> QED
      BY <1>1, <3>1, RunsStay
  <2>2. NotAsked'
    BY <1>1 DEF ThrottleInv, NotAsked
  <2> QED
    BY <2>1, <2>2 DEF ThrottleInv
<1>2. CASE \E i \in Instances, k \in Runs : Tick(i, k)
  BY <1>2, TickWaits
<1>3. ASSUME NEW u \in Users, NEW s \in Servers, TriggerBackup(u, s) PROVE ThrottleInv'
  <2>1. UNCHANGED vars
    BY <1>3
  <2> QED
    BY <1>1, <2>1 DEF vars
<1>4. ASSUME NEW u \in Users, NEW x, Begin(u, x), x.pc = "load", x.kind \in {"restore", "configure"}
      PROVE  ThrottleInv'
  <2>1. u \in Jobs /\ job' = [job EXCEPT ![u] = x]
    BY <1>4 DEF Begin, Jobs
  <2>2. job'[u] = x /\ \A j \in Jobs : j # u => job'[j] = job[j]
    BY <2>1 DEF IInv, TypeOK
  <2>3. UNCHANGED <<now, lastTick>> /\ RunsRecorded
    BY <1>4 DEF Begin, jobVars, RunsRecorded
  <2> QED
    BY <1>4, <2>2, <2>3, UserWaits
<1>5. CASE \E u \in Users, b \in BackupIds : RestoreBackup(u, b)
  <2>1. PICK u \in Users, b \in BackupIds : RestoreBackup(u, b)
    BY <1>5
  <2> DEFINE x == [Idle EXCEPT !.pc = "load", !.kind = "restore", !.server = backup[b].server,
                               !.backup = b]
  <2>2. Begin(u, x)
    BY <2>1 DEF RestoreBackup
  <2>3. x.pc = "load" /\ x.kind \in {"restore", "configure"}
    BY DEF Idle
  <2> HIDE DEF x
  <2> QED
    BY <1>4, <2>2, <2>3
<1>6. CASE \E u \in Users, s \in Servers, g \in Settings : UpdateBackupConfig(u, s, g)
  <2>1. PICK u \in Users, s \in Servers, g \in Settings : UpdateBackupConfig(u, s, g)
    BY <1>6
  <2> DEFINE x == [Idle EXCEPT !.pc = "load", !.kind = "configure", !.server = s, !.set = g]
  <2>2. Begin(u, x)
    BY <2>1 DEF UpdateBackupConfig
  <2>3. x.pc = "load" /\ x.kind \in {"restore", "configure"}
    BY DEF Idle
  <2> HIDE DEF x
  <2> QED
    BY <1>4, <2>2, <2>3
<1>7. ASSUME NEW j \in Jobs, Continue(j) PROVE ThrottleInv'
  <2>1. CASE j \in Users
    BY <1>7, <2>1, UserStepWaits
  <2>2. CASE j \in Runs /\ MarkConfig(j)
    BY <2>2, MarkWaits
  <2>3. CASE j \in Runs /\ ~MarkConfig(j)
    <3>1. RunsRecorded
      <4>1. ASSUME NEW m \in Jobs, MarkConfig(m) PROVE FALSE
        <5>1. Return(m) /\ job[m].pc = "mark"
          BY <4>1 DEF MarkConfig
        <5>2. job'[m] # job[m]
          BY <5>1, Ended
        <5> QED
          BY <1>7, <2>3, <4>1, <5>2, OwnJob
      <4> QED
        BY <4>1, Recorded
    <3> QED
      BY <1>7, <2>3, <3>1, TickStepWaits
  <2> QED
    BY <2>1, <2>2, <2>3 DEF Jobs
<1>8. ASSUME NEW j \in Jobs, JobFails(j) PROVE ThrottleInv'
  BY <1>8, FailureWaits
<1>9. CASE TimePasses
  BY <1>9, TimeWaits
<1>10. CASE \/ \E r \in Reporters : Handle(r)
            \/ AgentStarts \/ \E b \in BackupIds : AgentReports(b)
            \/ Drop \/ Connect \/ \E s \in Servers : DeleteServer(s)
            \/ UNCHANGED vars
  <2>1. now' = now /\ lastTick' = lastTick /\ config' = config /\ job' = job
    BY <1>10, Zenon DEF Handle, Arrive, Read, Write, AgentStarts, AgentReports, Drop, Connect,
       DeleteServer, vars
  <2> QED
    BY <1>1, <2>1
<1> QED
  BY <1>2, <1>3, <1>5, <1>6, <1>7, <1>8, <1>9, <1>10 DEF Next

(* A scheduled backup is only sent to an agent TICK_MS after the last one  *)
(* that is recorded, however long ago the tick looked at lastRunAt: one    *)
(* process runs the scheduler, its ticks do not overlap, and no user asks  *)
(* for a backup meanwhile, though users configure and restore.             *)
THEOREM Throttles ==
    ASSUME OneScheduler PROVE Spec /\ NobodyAsks => ThrottleHolds
<1>1. Init => ThrottleInv
  BY DEF Init, ThrottleInv, OneTick, NotAsked, Waits, Idle, Jobs
<1>2. IInv /\ ThrottleInv /\ [Next]_vars /\ [\A u \in Users, s \in Servers : ~TriggerBackup(u, s)]_vars
          => ThrottleInv'
  BY StepsWait
<1>3. ThrottleInv => [\A k \in Runs : LET last == config[job[k].server].lastRun IN
          SendBackup(k) /\ up /\ last # None => now >= last + Minute]_vars
  <2>1. ASSUME ThrottleInv, NEW k \in Runs, SendBackup(k), config[job[k].server].lastRun # None
        PROVE  now >= config[job[k].server].lastRun + Minute
    <3>1. job[k].pc = "send"
      BY <2>1, Zenon DEF SendBackup
    <3> QED
      BY <2>1, <3>1 DEF ThrottleInv, Waits, Passed
  <2> QED
    BY <2>1
<1>4. Spec => []IInv
  BY Invariance
<1> QED
  BY <1>1, <1>2, <1>3, <1>4, PTL DEF Spec, NobodyAsks, ThrottleHolds

=============================================================================
