------------------------- MODULE BackupEnds_proofs --------------------------
(***************************************************************************)
(* Proofs about how a backup goes from its INSERT to its end, for any      *)
(* constants of Backups: that a backup runs as long as somebody may end    *)
(* it, and no longer unless something was lost; that only completed        *)
(* backups are restored; and, while reports are handled one at a time,     *)
(* that how a backup ended is final.                                       *)
(*                                                                         *)
(* All three rest on one invariant: a backup is in one hand.               *)
(***************************************************************************)
EXTENDS Backups_proofs

(* Whose hand a backup is in, see InHand.                                  *)
Claim(c, x, b) ==
    \/ c = "job" /\ x \in Jobs /\ OnJob(x, b)
    \/ c = "command" /\ x \in 1 .. Len(toAgent) /\ OnCommand(x, b)
    \/ c = "agent" /\ x = "agent" /\ b \in working
    \/ c = "report" /\ x \in 1 .. Len(toPlatform) /\ OnReport(x, b)
    \/ c = "handler" /\ x \in Reporters /\ OnHandler(x, b)

OneClaim ==
    \A b \in BackupIds : \A c, x, d, y : Claim(c, x, b) /\ Claim(d, y, b) => c = d /\ x = y

ClaimedRuns == \A b \in BackupIds : \A c, x : Claim(c, x, b) => backup[b].status = "running"

(* restoreBackup has found the backup completed.                           *)
RestoresHave ==
    \A j \in Jobs : job[j].kind = "restore" /\ job[j].pc \in {"config", "send"} =>
        backup[job[j].backup].status \in {"completed", "swept"}

CInv == OneClaim /\ ClaimedRuns /\ RestoresHave /\ RestoresAreCompleted

(* A backup that is in somebody's hand was inserted.                       *)
LEMMA ClaimHas ==
    ASSUME IInv, NEW b \in BackupIds, NEW c, NEW x, Claim(c, x, b)
    PROVE  backup[b] # None
<1>1. CASE c = "job" /\ x \in Jobs /\ OnJob(x, b)
  BY <1>1 DEF IInv, JobHas, OnJob
<1>2. CASE c # "job"
  BY <1>2 DEF IInv, ReportsHave, Claim, OnCommand, OnReport, OnHandler
<1> QED
  BY <1>1, <1>2 DEF Claim

(* How the status of b may change when no hand takes it.                   *)
Calm(b) ==
    \/ backup[b] = None
    \/ backup'[b].status = backup[b].status
    \/ backup[b].status # "running" /\ backup'[b].status = "swept"

(* A backup that is completed stays so until it is swept.                  *)
CompletedStays ==
    \A b \in BackupIds : backup[b] # None /\ backup[b].status \in {"completed", "swept"} =>
        backup'[b].status \in {"completed", "swept"}

(* A step that lets go of backups, and takes none.                         *)
LEMMA Fewer ==
    ASSUME IInv, CInv,
           \A b \in BackupIds : \A c, x : Claim(c, x, b)' => Claim(c, x, b),
           \A b \in BackupIds : Calm(b) \/ \E c, x : Claim(c, x, b) /\ ~Claim(c, x, b)'
    PROVE  OneClaim' /\ ClaimedRuns' /\ CompletedStays
<1>1. OneClaim'
  BY DEF CInv, OneClaim
<1>2. ASSUME NEW b \in BackupIds, NEW c, NEW x, Claim(c, x, b)'
      PROVE  backup'[b].status = "running"
  <2>1. Claim(c, x, b) /\ backup[b].status = "running" /\ backup[b] # None
    BY <1>2, ClaimHas DEF CInv, ClaimedRuns
  <2>2. Calm(b)
    BY <1>2, <2>1 DEF CInv, OneClaim
  <2> QED
    BY <2>1, <2>2 DEF Calm
<1>3. ASSUME NEW b \in BackupIds, backup[b] # None, backup[b].status \in {"completed", "swept"}
      PROVE  backup'[b].status \in {"completed", "swept"}
  <2>1. Calm(b)
    BY <1>3 DEF CInv, ClaimedRuns
  <2> QED
    BY <1>3, <2>1 DEF Calm
<1> QED
  BY <1>1, <1>2, <1>3 DEF ClaimedRuns, CompletedStays

(* Someone may still change the row of b, apart from the agent's reports   *)
(* that have not arrived.                                                  *)
Held(b) == \E c, x : c # "report" /\ Claim(c, x, b)

(* A backup that runs and that nobody holds is left alone.                 *)
Quiet ==
    \A b \in BackupIds : backup[b] # None /\ backup[b].status = "running" /\ ~Held(b) =>
        ~Held(b)' /\ backup'[b].status = "running"

(* A step of job j that takes no backup and sends nothing.                 *)
LEMMA JobLeaves ==
    ASSUME IInv, CInv, NEW j \in Jobs,
           \A k \in Jobs : k # j => job'[k] = job[k],
           job'[j].pc \notin {"send", "fail"} \/ job'[j].kind = "restore" \/ UNCHANGED job[j],
           job'[j].kind = "restore" /\ job'[j].pc \in {"config", "send"} =>
               /\ job'[j].backup \in BackupIds /\ backup[job'[j].backup] # None
               /\ backup[job'[j].backup].status \in {"completed", "swept"},
           UNCHANGED <<toAgent, working, toPlatform, rep>>,
           \A b \in BackupIds : Calm(b) \/ (OnJob(j, b) /\ job'[j].pc \notin {"send", "fail"})
    PROVE  CInv' /\ Quiet
<1>1. \A b : \A k \in Jobs : OnJob(k, b)' => OnJob(k, b)
  <2> SUFFICES ASSUME NEW b, NEW k \in Jobs, OnJob(k, b)' PROVE OnJob(k, b)
    OBVIOUS
  <2>1. CASE k = j
    BY <2>1 DEF OnJob
  <2>2. CASE k # j
    BY <2>2 DEF OnJob
  <2> QED
    BY <2>1, <2>2
<1>2. \A b \in BackupIds : \A c, x : Claim(c, x, b)' => Claim(c, x, b)
  BY <1>1 DEF Claim, OnCommand, OnReport, OnHandler
<1>3. ASSUME NEW b \in BackupIds, OnJob(j, b), job'[j].pc \notin {"send", "fail"}
      PROVE  Claim("job", j, b) /\ ~Claim("job", j, b)'
  <2>1. ~OnJob(j, b)'
    BY <1>3 DEF OnJob
  <2> QED
    BY <1>3, <2>1 DEF Claim
<1>4. OneClaim' /\ ClaimedRuns' /\ CompletedStays
  <2>1. \A b \in BackupIds : Calm(b) \/ \E c, x : Claim(c, x, b) /\ ~Claim(c, x, b)'
    BY <1>3
  <2> QED
    BY <1>2, <2>1, Fewer
<1>5. RestoresHave'
  <2> SUFFICES ASSUME NEW k \in Jobs, job'[k].kind = "restore", job'[k].pc \in {"config", "send"}
               PROVE  backup'[job'[k].backup].status \in {"completed", "swept"}
    BY DEF RestoresHave
  <2>1. CASE k = j
    BY <1>4, <2>1 DEF CompletedStays
  <2>2. CASE k # j
    <3>1. job'[k] = job[k]
      BY <2>2
    <3>2. /\ job[k].backup \in BackupIds /\ backup[job[k].backup] # None
          /\ backup[job[k].backup].status \in {"completed", "swept"}
      BY <3>1 DEF IInv, JobHas, CInv, RestoresHave
    <3> QED
      BY <1>4, <3>1, <3>2 DEF CompletedStays
  <2> QED
    BY <2>1, <2>2
<1>6. RestoresAreCompleted'
  <2> SUFFICES ASSUME NEW i \in 1 .. Len(toAgent), toAgent[i].type = "restore_server"
               PROVE  backup'[toAgent[i].backup].status \in {"completed", "swept"}
    BY DEF RestoresAreCompleted
  <2>1. /\ toAgent[i].backup \in BackupIds /\ backup[toAgent[i].backup] # None
        /\ backup[toAgent[i].backup].status \in {"completed", "swept"}
    BY MessagesAbout DEF IInv, ReportsHave, CInv, RestoresAreCompleted
  <2> QED
    BY <1>4, <2>1 DEF CompletedStays
<1>7. Quiet
  <2> SUFFICES ASSUME NEW b \in BackupIds, backup[b] # None, backup[b].status = "running", ~Held(b)
               PROVE  ~Held(b)' /\ backup'[b].status = "running"
    BY DEF Quiet
  <2>1. ~OnJob(j, b)
    BY DEF Held, Claim
  <2>2. backup'[b].status = "running"
    BY <2>1 DEF Calm
  <2> QED
    BY <1>2, <2>2 DEF Held
<1> QED
  BY <1>4, <1>5, <1>6, <1>7 DEF CInv

(* A statement of job j, not a restore's, that only reads.                 *)
LEMMA Unclaimed ==
    ASSUME IInv, CInv, NEW j \in Jobs,
           \A k \in Jobs : k # j => job'[k] = job[k],
           job'[j].pc \notin {"config", "send", "fail"} \/
               (job'[j].pc = "config" /\ job'[j].kind # "restore"),
           UNCHANGED <<backup, toAgent, working, toPlatform, rep>>
    PROVE  CInv' /\ Quiet
<1>1. \A b \in BackupIds : Calm(b)
  BY DEF Calm
<1> QED
  BY <1>1, JobLeaves

LEMMA BeginsClaims ==
    ASSUME IInv, CInv, NEW u \in Users, NEW x, x.pc = "load", Begin(u, x)
    PROVE  CInv' /\ Quiet
<1>1. u \in Jobs
  BY DEF Jobs
<1>2. job'[u] = x /\ \A k \in Jobs : k # u => job'[k] = job[k]
  BY <1>1 DEF Begin, IInv, TypeOK
<1> QED
  BY <1>1, <1>2, Unclaimed DEF Begin, jobVars

LEMMA ServerActionsClaims ==
    ASSUME IInv, CInv, NEW u \in Users,
           \/ \E s \in Servers : TriggerBackup(u, s)
           \/ \E b \in BackupIds : RestoreBackup(u, b)
           \/ \E s \in Servers, g \in Settings : UpdateBackupConfig(u, s, g)
    PROVE  CInv' /\ Quiet
<1>1. CASE \E s \in Servers : TriggerBackup(u, s)
  <2>1. PICK s \in Servers : Begin(u, [Idle EXCEPT !.pc = "load", !.kind = "manual", !.server = s])
    BY <1>1 DEF TriggerBackup
  <2>2. [Idle EXCEPT !.pc = "load", !.kind = "manual", !.server = s].pc = "load"
    BY DEF Idle
  <2> QED
    BY <2>1, <2>2, BeginsClaims
<1>2. CASE \E b \in BackupIds : RestoreBackup(u, b)
  <2>1. PICK b \in BackupIds :
            Begin(u, [Idle EXCEPT !.pc = "load", !.kind = "restore",
                                  !.server = backup[b].server, !.backup = b])
    BY <1>2 DEF RestoreBackup
  <2>2. [Idle EXCEPT !.pc = "load", !.kind = "restore",
                     !.server = backup[b].server, !.backup = b].pc = "load"
    BY DEF Idle
  <2> QED
    BY <2>1, <2>2, BeginsClaims
<1>3. CASE \E s \in Servers, g \in Settings : UpdateBackupConfig(u, s, g)
  <2>1. PICK s \in Servers, g \in Settings :
            Begin(u, [Idle EXCEPT !.pc = "load", !.kind = "configure", !.server = s, !.set = g])
    BY <1>3 DEF UpdateBackupConfig
  <2>2. [Idle EXCEPT !.pc = "load", !.kind = "configure", !.server = s, !.set = g].pc = "load"
    BY DEF Idle
  <2> QED
    BY <2>1, <2>2, BeginsClaims
<1> QED
  BY <1>1, <1>2, <1>3

LEMMA TickClaims ==
    ASSUME IInv, CInv, NEW i \in Instances, NEW k \in Runs, Tick(i, k)
    PROVE  CInv' /\ Quiet
<1>1. k \in Jobs
  BY DEF Jobs
<1>2. job'[k].pc = "select" /\ \A j \in Jobs : j # k => job'[j] = job[j]
  BY <1>1 DEF Tick, Idle, IInv, TypeOK
<1> QED
  BY <1>1, <1>2, Unclaimed DEF Tick

(* The statements that only read, and the two that write a configuration.  *)
LEMMA SelectClaims ==
    ASSUME IInv, CInv, NEW k \in Jobs, Select(k)
    PROVE  CInv' /\ Quiet
<1>1. \A j \in Jobs : j # k => job'[j] = job[j]
  BY DEF Select, IInv, TypeOK
<1>2. job'[k].pc = "next"
  <2> DEFINE due == {s \in Servers : Scheduled(s, job[k].at) /\ ~Throttled(s, job[k].at)}
             x == [job[k] EXCEPT !.pc = "next", !.due = due]
  <2>1. x.pc = "next"
    BY JobFields DEF IInv, Job
  <2>2. job' = [job EXCEPT ![k] = x]
    BY DEF Select, IInv, TypeOK
  <2> HIDE DEF x
  <2> QED
    BY <2>1, <2>2 DEF IInv, TypeOK
<1> QED
  BY <1>1, <1>2, Unclaimed DEF Select, jobVars

LEMMA NextDueClaims ==
    ASSUME IInv, CInv, NEW k \in Jobs, NextDue(k)
    PROVE  CInv' /\ Quiet
<1>1. ASSUME NEW x \in Job, x.pc \in {"load", "sweep"}, job' = [job EXCEPT ![k] = x]
      PROVE  CInv' /\ Quiet
  <2>1. job'[k] = x /\ \A j \in Jobs : j # k => job'[j] = job[j]
    BY <1>1 DEF IInv, TypeOK
  <2> QED
    BY <1>1, <2>1, Unclaimed DEF NextDue, jobVars
<1>2. ASSUME NEW s \in job[k].due,
             job' = [job EXCEPT ![k] =
                       [@ EXCEPT !.pc = "load", !.server = s, !.due = job[k].due \ {s}]]
      PROVE  CInv' /\ Quiet
  <2> DEFINE x == [job[k] EXCEPT !.pc = "load", !.server = s, !.due = job[k].due \ {s}]
  <2>1. x \in Job /\ x.pc = "load"
    BY JobFields DEF IInv, Job
  <2>2. job' = [job EXCEPT ![k] = x]
    BY <1>2 DEF IInv, TypeOK, Job
  <2> HIDE DEF x
  <2> QED
    BY <1>1, <2>1, <2>2
<1>3. ASSUME job' = [job EXCEPT ![k] = [@ EXCEPT !.pc = "sweep", !.at = now]]
      PROVE  CInv' /\ Quiet
  <2> DEFINE x == [job[k] EXCEPT !.pc = "sweep", !.at = now]
  <2>1. x \in Job /\ x.pc = "sweep"
    <3>1. now \in Times
      BY DEF IInv, TypeOK
    <3> QED
      BY <3>1, JobFields DEF IInv, Job
  <2>2. job' = [job EXCEPT ![k] = x]
    BY <1>3 DEF IInv, TypeOK
  <2> HIDE DEF x
  <2> QED
    BY <1>1, <2>1, <2>2
<1> QED
  BY <1>2, <1>3 DEF NextDue

LEMMA LoadOwnedServerClaims ==
    ASSUME IInv, CInv, NEW j \in Jobs, LoadOwnedServer(j)
    PROVE  CInv' /\ Quiet
<1>1. UNCHANGED <<backup, toAgent, working, toPlatform, rep>>
  BY DEF LoadOwnedServer, jobVars
<1>2. CASE Return(j)
  BY <1>1, <1>2, Ended, Unclaimed
<1>3. ASSUME NEW pc \in {"find", "upsert", "config"}, Step(j, pc),
             pc = "config" => job[j].kind # "restore"
      PROVE  CInv' /\ Quiet
  BY <1>1, <1>3, Stepped, Unclaimed
<1>4. \/ Return(j)
      \/ \E pc \in {"find", "upsert", "config"} :
            Step(j, pc) /\ (pc = "config" => job[j].kind # "restore")
  <2> DEFINE pc == CASE job[j].kind = "restore" -> "find"
                     [] job[j].kind = "configure" -> "upsert"
                     [] OTHER -> "config"
  <2>1. Return(j) \/ Step(j, pc)
    BY DEF LoadOwnedServer
  <2>2. pc \in {"find", "upsert", "config"} /\ (pc = "config" => job[j].kind # "restore")
    OBVIOUS
  <2> QED
    BY <2>1, <2>2
<1> QED
  BY <1>2, <1>3, <1>4

(* Only a completed backup is found.                                       *)
LEMMA FindBackupClaims ==
    ASSUME IInv, CInv, NEW u \in Jobs, FindBackup(u)
    PROVE  CInv' /\ Quiet
<1>1. UNCHANGED <<backup, toAgent, working, toPlatform, rep>> /\ job[u].pc = "find"
  BY DEF FindBackup, jobVars
<1>2. CASE Return(u)
  BY <1>1, <1>2, Ended, Unclaimed
<1>3. CASE Restorable(job[u].backup) /\ Step(u, "config")
  <2>1. /\ job[u].backup \in BackupIds /\ backup[job[u].backup] # None
        /\ backup[job[u].backup].status = "completed"
    BY <1>1, <1>3 DEF IInv, JobHas, Restorable
  <2>2. \A b \in BackupIds : Calm(b)
    BY <1>1 DEF Calm
  <2> QED
    BY <1>1, <1>3, <2>1, <2>2, Stepped, JobLeaves
<1> QED
  BY <1>2, <1>3 DEF FindBackup

LEMMA LoadConfigClaims ==
    ASSUME IInv, CInv, NEW j \in Jobs, LoadConfig(j)
    PROVE  CInv' /\ Quiet
<1>1. UNCHANGED <<backup, toAgent, working, toPlatform, rep>> /\ job[j].pc = "config"
  BY DEF LoadConfig, jobVars
<1>2. CASE Return(j)
  BY <1>1, <1>2, Ended, Unclaimed
<1>3. CASE job[j].kind = "restore" /\ Step(j, "send")
  <2>1. /\ job[j].backup \in BackupIds /\ backup[job[j].backup] # None
        /\ backup[job[j].backup].status \in {"completed", "swept"}
    BY <1>1, <1>3 DEF IInv, JobHas, CInv, RestoresHave
  <2>2. \A b \in BackupIds : Calm(b)
    BY <1>1 DEF Calm
  <2> QED
    BY <1>1, <1>3, <2>1, <2>2, Stepped, JobLeaves
<1>4. CASE job[j].kind # "restore" /\ Step(j, "insert")
  BY <1>1, <1>4, Stepped, Unclaimed
<1> QED
  BY <1>2, <1>3, <1>4 DEF LoadConfig

LEMMA EndsClaims ==
    ASSUME IInv, CInv, NEW j \in Jobs, Upsert(j) \/ MarkConfig(j) \/ JobFails(j)
    PROVE  CInv' /\ Quiet
<1>1. Return(j) \/ job' = [job EXCEPT ![j] = Idle]
  BY DEF Upsert, MarkConfig, JobFails
<1>2. UNCHANGED <<backup, toAgent, working, toPlatform, rep>>
  BY DEF Upsert, MarkConfig, JobFails, jobVars
<1> QED
  BY <1>1, <1>2, Ended, Unclaimed

(* The sweep leaves alone what is running.                                 *)
LEMMA SweepClaims ==
    ASSUME IInv, CInv, NEW k \in Jobs, Sweep(k)
    PROVE  CInv' /\ Quiet
<1>1. job'[k].pc \in {"idle", "next"} /\ \A j \in Jobs : j # k => job'[j] = job[j]
  BY Ended DEF Sweep
<1>2. ASSUME NEW b \in BackupIds PROVE Calm(b)
  <2>1. /\ backup'[b] = backup[b] \/ backup'[b] = [backup[b] EXCEPT !.status = "swept"]
        /\ backup[b] = None \/ backup[b].status = "running" => backup'[b] = backup[b]
    BY SweepRows
  <2>2. backup[b] \in Row => [backup[b] EXCEPT !.status = "swept"].status = "swept"
    BY DEF Row
  <2> QED
    BY <2>1, <2>2 DEF Calm, IInv, TypeOK
<1> QED
  BY <1>1, <1>2, JobLeaves DEF Sweep, jobVars

(* The job that fails had the backup.                                      *)
LEMMA MarkFailedClaims ==
    ASSUME IInv, CInv, NEW j \in Jobs, MarkFailed(j)
    PROVE  CInv' /\ Quiet
<1>1. job'[j].pc \in {"idle", "next"} /\ \A k \in Jobs : k # j => job'[k] = job[k]
  BY Ended DEF MarkFailed
<1>2. /\ job[j].pc = "fail" /\ job[j].kind # "restore"
      /\ backup' = [backup EXCEPT ![job[j].backup].status = "failed"]
  BY DEF MarkFailed, IInv, JobHas
<1>3. ASSUME NEW b \in BackupIds, b # job[j].backup PROVE Calm(b)
  BY <1>2, <1>3 DEF Calm, IInv, TypeOK
<1>4. OnJob(j, job[j].backup)
  BY <1>2 DEF OnJob
<1> QED
  BY <1>1, <1>3, <1>4, JobLeaves DEF MarkFailed, jobVars

(* A backup that was just inserted is in nobody's hand.                    *)
LEMMA InsertBackupClaims ==
    ASSUME IInv, CInv, NEW j \in Jobs, NEW b \in BackupIds, InsertBackup(j, b)
    PROVE  CInv' /\ Quiet
<1> DEFINE x == [job[j] EXCEPT !.pc = "send", !.backup = b]
<1>1. x.pc = "send" /\ x.backup = b /\ x.kind = job[j].kind /\ x.kind # "restore"
  BY JobFields DEF IInv, Job, JobHas, InsertBackup
<1>2. job' = [job EXCEPT ![j] = x]
  BY DEF InsertBackup, IInv, TypeOK
<1> HIDE DEF x
<1>3. job'[j] = x /\ \A k \in Jobs : k # j => job'[k] = job[k]
  BY <1>2 DEF IInv, TypeOK
<1>4. /\ backup[b] = None /\ backup'[b].status = "running"
      /\ \A a \in BackupIds : a # b => backup'[a] = backup[a]
  BY DEF InsertBackup, IInv, TypeOK
<1>5. UNCHANGED <<toAgent, working, toPlatform, rep>>
  BY DEF InsertBackup, jobVars
<1>6. \A a \in BackupIds : \A k \in Jobs : OnJob(k, a)' => (k = j /\ a = b) \/ OnJob(k, a)
  <2> SUFFICES ASSUME NEW a \in BackupIds, NEW k \in Jobs, OnJob(k, a)'
               PROVE  (k = j /\ a = b) \/ OnJob(k, a)
    OBVIOUS
  <2>1. CASE k = j
    BY <1>1, <1>3, <2>1 DEF OnJob
  <2>2. CASE k # j
    BY <1>3, <2>2 DEF OnJob
  <2> QED
    BY <2>1, <2>2
<1>7. ASSUME NEW a \in BackupIds, NEW c, NEW y, Claim(c, y, a)'
      PROVE  (c = "job" /\ y = j /\ a = b) \/ Claim(c, y, a)
  BY <1>5, <1>6, <1>7 DEF Claim, OnCommand, OnReport, OnHandler
<1>8. \A c, y : ~Claim(c, y, b)
  BY <1>4, ClaimHas
<1>9. OneClaim'
  BY <1>7, <1>8 DEF OneClaim, CInv
<1>10. ClaimedRuns'
  <2> SUFFICES ASSUME NEW a \in BackupIds, NEW c, NEW y, Claim(c, y, a)'
               PROVE  backup'[a].status = "running"
    BY DEF ClaimedRuns
  <2>1. CASE a = b
    BY <1>4, <2>1
  <2>2. CASE a # b
    BY <1>4, <1>7, <2>2 DEF CInv, ClaimedRuns
  <2> QED
    BY <2>1, <2>2
<1>11. RestoresHave'
  <2> SUFFICES ASSUME NEW k \in Jobs, job'[k].kind = "restore", job'[k].pc \in {"config", "send"}
               PROVE  backup'[job'[k].backup].status \in {"completed", "swept"}
    BY DEF RestoresHave
  <2>1. k # j /\ job'[k] = job[k]
    BY <1>1, <1>3
  <2>2. /\ job[k].backup \in BackupIds /\ backup[job[k].backup] # None
        /\ backup[job[k].backup].status \in {"completed", "swept"}
    BY <2>1 DEF IInv, JobHas, CInv, RestoresHave
  <2> QED
    BY <1>4, <2>1, <2>2
<1>12. RestoresAreCompleted'
  <2> SUFFICES ASSUME NEW i \in 1 .. Len(toAgent), toAgent[i].type = "restore_server"
               PROVE  backup'[toAgent[i].backup].status \in {"completed", "swept"}
    BY <1>5 DEF RestoresAreCompleted
  <2>1. /\ toAgent[i].backup \in BackupIds /\ backup[toAgent[i].backup] # None
        /\ backup[toAgent[i].backup].status \in {"completed", "swept"}
    BY MessagesAbout DEF IInv, ReportsHave, CInv, RestoresAreCompleted
  <2> QED
    BY <1>4, <2>1
<1>13. Quiet
  BY <1>4, <1>7 DEF Quiet, Held
<1> QED
  BY <1>9, <1>10, <1>11, <1>12, <1>13 DEF CInv

(* A command is appended.                                                  *)
LEMMA Commanded ==
    ASSUME IInv, NEW m \in Command, toAgent' = Append(toAgent, m)
    PROVE  /\ Len(toAgent) \in Nat /\ Len(toAgent') = Len(toAgent) + 1
           /\ toAgent'[Len(toAgent) + 1] = m
           /\ \A i \in 1 .. Len(toAgent) : toAgent'[i] = toAgent[i]
           /\ \A i \in 1 .. Len(toAgent') : i \in 1 .. Len(toAgent) \/ i = Len(toAgent) + 1
           /\ Len(toAgent) + 1 \notin 1 .. Len(toAgent)
<1>1. toAgent \in Seq(Command)
  BY DEF IInv, TypeOK, Command
<1>2. /\ Len(toAgent) \in Nat /\ Len(toAgent') = Len(toAgent) + 1
      /\ \A i \in 1 .. Len(toAgent) : toAgent'[i] = toAgent[i]
      /\ toAgent'[Len(toAgent) + 1] = m
  BY <1>1, Sending
<1> QED
  BY <1>2

(* A restore is sent, or nothing is: no hand is changed.                   *)
LEMMA SendRestoreClaims ==
    ASSUME IInv, CInv, NEW u \in Jobs, SendRestore(u)
    PROVE  CInv' /\ Quiet
<1>1. job'[u].pc \in {"idle", "next"} /\ \A k \in Jobs : k # u => job'[k] = job[k]
  BY Ended DEF SendRestore
<1>2. UNCHANGED <<backup, working, toPlatform, rep>>
  BY DEF SendRestore, jobVars
<1>3. CASE ~up
  BY <1>1, <1>2, <1>3, Unclaimed DEF SendRestore
<1>4. CASE up
  <2> DEFINE m == [type |-> "restore_server", backup |-> job[u].backup]
  <2>1. /\ job[u].backup \in BackupIds
        /\ backup[job[u].backup].status \in {"completed", "swept"}
    BY DEF SendRestore, IInv, JobHas, CInv, RestoresHave
  <2>2. /\ m \in Command /\ m.type = "restore_server" /\ m.backup = job[u].backup
    BY <2>1 DEF Command
  <2>3. toAgent' = Append(toAgent, m)
    BY <1>4 DEF SendRestore
  <2> HIDE DEF m
  <2>4. /\ Len(toAgent) \in Nat /\ Len(toAgent') = Len(toAgent) + 1
        /\ toAgent'[Len(toAgent) + 1] = m
        /\ \A i \in 1 .. Len(toAgent) : toAgent'[i] = toAgent[i]
        /\ \A i \in 1 .. Len(toAgent') : i \in 1 .. Len(toAgent) \/ i = Len(toAgent) + 1
    BY <2>2, <2>3, Commanded
  <2>5. \A b : \A i \in 1 .. Len(toAgent') :
            OnCommand(i, b)' => i \in 1 .. Len(toAgent) /\ OnCommand(i, b)
    BY <2>2, <2>4 DEF OnCommand
  <2>6. \A b : \A k \in Jobs : OnJob(k, b)' => OnJob(k, b)
    BY <1>1 DEF OnJob
  <2>7. \A b \in BackupIds : \A c, x : Claim(c, x, b)' => Claim(c, x, b)
    BY <1>2, <2>5, <2>6 DEF Claim, OnReport, OnHandler
  <2>8. \A b \in BackupIds : Calm(b)
    BY <1>2 DEF Calm
  <2>9. OneClaim' /\ ClaimedRuns'
    BY <2>7, <2>8, Fewer
  <2>10. RestoresHave'
    <3> SUFFICES ASSUME NEW k \in Jobs, job'[k].kind = "restore", job'[k].pc \in {"config", "send"}
                 PROVE  backup[job'[k].backup].status \in {"completed", "swept"}
      BY <1>2 DEF RestoresHave
    <3>1. job'[k] = job[k]
      BY <1>1
    <3> QED
      BY <3>1 DEF CInv, RestoresHave
  <2>11. RestoresAreCompleted'
    <3> SUFFICES ASSUME NEW i \in 1 .. Len(toAgent'), toAgent'[i].type = "restore_server"
                 PROVE  backup[toAgent'[i].backup].status \in {"completed", "swept"}
      BY <1>2 DEF RestoresAreCompleted
    <3>1. CASE i = Len(toAgent) + 1
      BY <2>1, <2>2, <2>4, <3>1
    <3>2. CASE i \in 1 .. Len(toAgent)
      BY <2>4, <3>2 DEF CInv, RestoresAreCompleted
    <3> QED
      BY <2>4, <3>1, <3>2
  <2>12. Quiet
    BY <1>2, <2>7 DEF Quiet, Held
  <2> QED
    BY <2>9, <2>10, <2>11, <2>12 DEF CInv
<1> QED
  BY <1>3, <1>4

(* A step that hands a backup on.                                          *)
LEMMA Handed ==
    ASSUME IInv, CInv, UNCHANGED backup,
           \A b \in BackupIds : \A c, x : Claim(c, x, b)' => \E d, y : Claim(d, y, b),
           \A i \in 1 .. Len(toAgent') : toAgent'[i].type = "restore_server" =>
               \E k \in 1 .. Len(toAgent) : toAgent'[i] = toAgent[k],
           \A k \in Jobs : job'[k].kind = "restore" => job'[k] = job[k]
    PROVE  ClaimedRuns' /\ RestoresHave' /\ RestoresAreCompleted'
<1>1. ClaimedRuns'
  BY DEF CInv, ClaimedRuns
<1>2. RestoresHave'
  <2> SUFFICES ASSUME NEW k \in Jobs, job'[k].kind = "restore", job'[k].pc \in {"config", "send"}
               PROVE  backup[job'[k].backup].status \in {"completed", "swept"}
    BY DEF RestoresHave
  <2> QED
    BY DEF CInv, RestoresHave
<1>3. RestoresAreCompleted'
  <2> SUFFICES ASSUME NEW i \in 1 .. Len(toAgent'), toAgent'[i].type = "restore_server"
               PROVE  backup[toAgent'[i].backup].status \in {"completed", "swept"}
    BY DEF RestoresAreCompleted
  <2> QED
    BY DEF CInv, RestoresAreCompleted
<1> QED
  BY <1>1, <1>2, <1>3

(* From the job to the command.                                            *)
LEMMA SendBackupClaims ==
    ASSUME IInv, CInv, NEW j \in Jobs, SendBackup(j)
    PROVE  CInv' /\ Quiet
<1>1. /\ UNCHANGED <<backup, working, toPlatform, rep>> /\ job[j].pc = "send"
      /\ job[j].kind # "restore" /\ job[j].backup \in BackupIds
  BY DEF SendBackup, jobVars, IInv, JobHas
<1>2. CASE ~up
  <2>1. Step(j, "fail") /\ UNCHANGED toAgent
    BY <1>2 DEF SendBackup
  <2>2. /\ job'[j].pc = "fail" /\ job'[j].kind = job[j].kind /\ job'[j].backup = job[j].backup
        /\ \A k \in Jobs : k # j => job'[k] = job[k]
    BY <2>1, Stepped
  <2>3. ASSUME NEW b, NEW k \in Jobs PROVE OnJob(k, b)' => OnJob(k, b)
    <3>1. CASE k = j
      BY <1>1, <2>2, <3>1 DEF OnJob
    <3>2. CASE k # j
      BY <2>2, <3>2 DEF OnJob
    <3> QED
      BY <3>1, <3>2
  <2>4. \A b \in BackupIds : \A c, x : Claim(c, x, b)' => Claim(c, x, b)
    BY <1>1, <2>1, <2>3 DEF Claim, OnCommand, OnReport, OnHandler
  <2>5. \A k \in Jobs : job'[k].kind = "restore" => job'[k] = job[k]
    BY <1>1, <2>2
  <2>6. ClaimedRuns' /\ RestoresHave' /\ RestoresAreCompleted'
    BY <1>1, <2>1, <2>4, <2>5, Handed
  <2>7. OneClaim'
    BY <2>4 DEF CInv, OneClaim
  <2>8. Quiet
    BY <1>1, <2>4 DEF Quiet, Held
  <2> QED
    BY <2>6, <2>7, <2>8 DEF CInv
<1>3. CASE up
  <2> DEFINE m == [type |-> "backup_server", backup |-> job[j].backup]
             x == [job[j] EXCEPT !.pc = "mark", !.at = now]
             n == Len(toAgent) + 1
  <2>1. m \in Command /\ m.type = "backup_server" /\ m.backup = job[j].backup
    BY <1>1 DEF Command
  <2>2. toAgent' = Append(toAgent, m)
    BY <1>3 DEF SendBackup
  <2>3. x.pc = "mark" /\ x.kind = job[j].kind
    BY JobFields DEF IInv, Job
  <2>4. job' = [job EXCEPT ![j] = x]
    BY <1>3 DEF SendBackup, IInv, TypeOK
  <2> HIDE DEF m, x
  <2>5. job'[j] = x /\ \A k \in Jobs : k # j => job'[k] = job[k]
    BY <2>4 DEF IInv, TypeOK
  <2>6. /\ toAgent'[n] = m
        /\ \A i \in 1 .. Len(toAgent) : toAgent'[i] = toAgent[i]
        /\ \A i \in 1 .. Len(toAgent') : i \in 1 .. Len(toAgent) \/ i = n
    BY <2>1, <2>2, Commanded
  <2> HIDE DEF n
  <2>7. \A b \in BackupIds : \A i \in 1 .. Len(toAgent') : OnCommand(i, b)' =>
            (i = n /\ b = job[j].backup) \/ (i \in 1 .. Len(toAgent) /\ OnCommand(i, b))
    BY <2>1, <2>6 DEF OnCommand
  <2>8. \A b \in BackupIds : \A k \in Jobs : OnJob(k, b)' => OnJob(k, b) /\ k # j
    BY <2>3, <2>5 DEF OnJob
  <2>9. Claim("job", j, job[j].backup)
    BY <1>1 DEF Claim, OnJob
  <2>10. ASSUME NEW b \in BackupIds, NEW c, NEW y, Claim(c, y, b)'
         PROVE  \/ c = "command" /\ y = n /\ b = job[j].backup
                \/ Claim(c, y, b) /\ ~(c = "job" /\ y = j)
    BY <1>1, <2>7, <2>8, <2>10 DEF Claim, OnReport, OnHandler
  <2>11. OneClaim'
    <3> SUFFICES ASSUME NEW b \in BackupIds, NEW c, NEW y, NEW d, NEW z,
                        Claim(c, y, b)', Claim(d, z, b)'
                 PROVE  c = d /\ y = z
      BY DEF OneClaim
    <3>1. \/ c = "command" /\ y = n /\ b = job[j].backup
          \/ Claim(c, y, b) /\ ~(c = "job" /\ y = j)
      BY <2>10
    <3>2. \/ d = "command" /\ z = n /\ b = job[j].backup
          \/ Claim(d, z, b) /\ ~(d = "job" /\ z = j)
      BY <2>10
    <3> QED
      BY <3>1, <3>2, <2>9 DEF CInv, OneClaim
  <2>12. \A b \in BackupIds : \A c, y : Claim(c, y, b)' => \E d, z : Claim(d, z, b)
    BY <2>9, <2>10
  <2>13. \A i \in 1 .. Len(toAgent') : toAgent'[i].type = "restore_server" =>
             \E k \in 1 .. Len(toAgent) : toAgent'[i] = toAgent[k]
    BY <2>1, <2>6
  <2>14. \A k \in Jobs : job'[k].kind = "restore" => job'[k] = job[k]
    BY <1>1, <2>3, <2>5
  <2>15. ClaimedRuns' /\ RestoresHave' /\ RestoresAreCompleted'
    BY <1>1, <2>12, <2>13, <2>14, Handed
  <2>16. Quiet
    BY <1>1, <2>9, <2>10 DEF Quiet, Held
  <2> QED
    BY <2>11, <2>15, <2>16 DEF CInv
<1> QED
  BY <1>2, <1>3

(* From the command to the agent.                                          *)
LEMMA AgentStartsClaims ==
    ASSUME IInv, CInv, AgentStarts
    PROVE  CInv' /\ Quiet
<1>1. UNCHANGED <<backup, job, toPlatform, rep>>
  BY DEF AgentStarts
<1>2. /\ Head(toAgent) = toAgent[1] /\ toAgent[1] \in Command /\ 1 \in 1 .. Len(toAgent)
      /\ \A i \in 1 .. Len(toAgent') : /\ toAgent'[i] = toAgent[i + 1]
                                       /\ i + 1 \in 1 .. Len(toAgent)
      /\ Len(toAgent') \in Nat
  <2>1. toAgent \in Seq(Command) /\ toAgent # <<>> /\ toAgent' = Tail(toAgent)
    BY DEF AgentStarts, IInv, TypeOK, Command
  <2> QED
    BY <2>1, Taking
<1>3. \A b : \A i \in 1 .. Len(toAgent') :
          OnCommand(i, b)' => i + 1 \in 1 .. Len(toAgent) /\ OnCommand(i + 1, b)
  BY <1>2 DEF OnCommand
<1>4. \A b \in working' : b \in working \/ OnCommand(1, b)
  BY <1>2 DEF AgentStarts, OnCommand
<1>5. ASSUME NEW b \in BackupIds, NEW c, NEW y, Claim(c, y, b)'
      PROVE  \/ c = "command" /\ y \in 1 .. Len(toAgent') /\ Claim("command", y + 1, b)
             \/ c = "agent" /\ y = "agent" /\ Claim("command", 1, b)
             \/ c # "command" /\ Claim(c, y, b)
  BY <1>1, <1>2, <1>3, <1>4, <1>5 DEF Claim, OnJob, OnReport, OnHandler
<1>6. OneClaim'
  <2> SUFFICES ASSUME NEW b \in BackupIds, NEW c, NEW y, NEW d, NEW z,
                      Claim(c, y, b)', Claim(d, z, b)'
               PROVE  c = d /\ y = z
    BY DEF OneClaim
  <2>1. \/ c = "command" /\ y \in 1 .. Len(toAgent') /\ Claim("command", y + 1, b)
        \/ c = "agent" /\ y = "agent" /\ Claim("command", 1, b)
        \/ c # "command" /\ Claim(c, y, b)
    BY <1>5
  <2>2. \/ d = "command" /\ z \in 1 .. Len(toAgent') /\ Claim("command", z + 1, b)
        \/ d = "agent" /\ z = "agent" /\ Claim("command", 1, b)
        \/ d # "command" /\ Claim(d, z, b)
    BY <1>5
  <2>3. \A e, v, f, w : Claim(e, v, b) /\ Claim(f, w, b) => e = f /\ v = w
    BY DEF CInv, OneClaim
  <2>4. CASE c = "command" /\ y \in 1 .. Len(toAgent') /\ Claim("command", y + 1, b)
    <3>1. d = "command" /\ z \in 1 .. Len(toAgent') /\ y + 1 = z + 1
      <4>1. y + 1 # 1
        BY <1>2, <2>4
      <4> QED
        BY <2>2, <2>3, <2>4, <4>1
    <3> QED
      BY <1>2, <2>4, <3>1
  <2>5. CASE c = "agent" /\ y = "agent" /\ Claim("command", 1, b)
    <3>1. ASSUME z \in 1 .. Len(toAgent') PROVE z + 1 # 1
      BY <1>2, <3>1
    <3> QED
      BY <2>2, <2>3, <2>5, <3>1
  <2>6. CASE c # "command" /\ Claim(c, y, b)
    BY <2>2, <2>3, <2>6
  <2> QED
    BY <2>1, <2>4, <2>5, <2>6
<1>7. \A b \in BackupIds : \A c, y : Claim(c, y, b)' => \E d, z : Claim(d, z, b)
  BY <1>5
<1>8. ClaimedRuns' /\ RestoresHave' /\ RestoresAreCompleted'
  BY <1>1, <1>2, <1>7, Handed
<1>9. Quiet
  <2>1. \A b \in BackupIds : Held(b)' => Held(b)
    BY <1>5 DEF Held
  <2> QED
    BY <1>1, <2>1 DEF Quiet
<1> QED
  BY <1>6, <1>8, <1>9 DEF CInv

(* From the agent to the report of how the backup ended.                   *)
LEMMA AgentReportsClaims ==
    ASSUME IInv, CInv, NEW b \in BackupIds, AgentReports(b)
    PROVE  CInv' /\ Quiet
<1>1. /\ UNCHANGED <<backup, job, toAgent, rep>> /\ b \in working /\ working' = working \ {b}
  BY DEF AgentReports
<1>2. PICK n : \A i \in 1 .. Len(toPlatform') : \A a :
          OnReport(i, a)' => (i = n /\ a = b) \/ (i \in 1 .. Len(toPlatform) /\ OnReport(i, a))
  <2>1. CASE ~up
    BY <2>1 DEF AgentReports, OnReport
  <2>2. CASE up
    <3>1. PICK new \in Seq(Progress) :
              /\ toPlatform' = toPlatform \o new
              /\ \/ Len(new) = 1 /\ new[1].phase # "uploading" /\ new[1].backup = b
                 \/ /\ Len(new) = 2 /\ new[1].backup = b /\ new[2].backup = b
                    /\ new[1].phase = "uploading" /\ new[2].phase # "uploading"
      BY <2>2, Reported
    <3>2. toPlatform \in Seq(Progress)
      BY DEF IInv, TypeOK
    <3> DEFINE n == Len(toPlatform) + Len(new)
    <3>3. /\ Len(toPlatform) \in Nat /\ Len(new) \in Nat /\ Len(toPlatform') = n
          /\ \A i \in 1 .. Len(toPlatform) : toPlatform'[i] = toPlatform[i]
          /\ \A i \in 1 .. Len(new) : toPlatform'[Len(toPlatform) + i] = new[i]
      BY <3>1, <3>2, Joined
    <3>4. ASSUME NEW i \in 1 .. Len(toPlatform'), NEW a, OnReport(i, a)'
          PROVE  (i = n /\ a = b) \/ (i \in 1 .. Len(toPlatform) /\ OnReport(i, a))
      <4>1. CASE i \in 1 .. Len(toPlatform)
        BY <3>3, <3>4, <4>1 DEF OnReport
      <4>2. CASE i = n
        <5>1. toPlatform'[i].backup = b
          BY <3>1, <3>3, <4>2
        <5> QED
          BY <3>4, <4>2, <5>1 DEF OnReport
      <4>3. CASE i \notin 1 .. Len(toPlatform) /\ i # n
        <5>1. Len(new) = 2 /\ i = Len(toPlatform) + 1
          BY <3>1, <3>3, <4>3
        <5>2. toPlatform'[i] = new[1]
          BY <3>3, <5>1
        <5> QED
          BY <3>1, <3>4, <5>1, <5>2 DEF OnReport
      <4> QED
        BY <4>1, <4>2, <4>3
    <3> QED
      BY <3>4
  <2> QED
    BY <2>1, <2>2
<1>3. Claim("agent", "agent", b)
  BY <1>1 DEF Claim
<1>4. ASSUME NEW a \in BackupIds, NEW c, NEW y, Claim(c, y, a)'
      PROVE  (c = "report" /\ y = n /\ a = b) \/ (Claim(c, y, a) /\ ~(c = "agent" /\ a = b))
  BY <1>1, <1>2, <1>4 DEF Claim, OnJob, OnCommand, OnHandler
<1>5. OneClaim'
  <2> SUFFICES ASSUME NEW a \in BackupIds, NEW c, NEW y, NEW d, NEW z,
                      Claim(c, y, a)', Claim(d, z, a)'
               PROVE  c = d /\ y = z
    BY DEF OneClaim
  <2>1. (c = "report" /\ y = n /\ a = b) \/ (Claim(c, y, a) /\ ~(c = "agent" /\ a = b))
    BY <1>4
  <2>2. (d = "report" /\ z = n /\ a = b) \/ (Claim(d, z, a) /\ ~(d = "agent" /\ a = b))
    BY <1>4
  <2> QED
    BY <1>3, <2>1, <2>2 DEF CInv, OneClaim
<1>6. \A a \in BackupIds : \A c, y : Claim(c, y, a)' => \E d, z : Claim(d, z, a)
  BY <1>3, <1>4
<1>7. ClaimedRuns' /\ RestoresHave' /\ RestoresAreCompleted'
  BY <1>1, <1>6, Handed
<1>8. Quiet
  <2>1. \A a \in BackupIds : Held(a)' => Held(a)
    BY <1>4 DEF Held
  <2> QED
    BY <1>1, <2>1 DEF Quiet
<1> QED
  BY <1>5, <1>7, <1>8 DEF CInv

(* What is left of the reports when one has arrived.                       *)
LEMMA Arrived ==
    ASSUME IInv, NEW r \in Reporters, Arrive(r)
    PROVE  /\ 1 \in 1 .. Len(toPlatform) /\ toPlatform[1] \in Progress
           /\ Len(toPlatform') \in Nat /\ Len(toPlatform) = Len(toPlatform') + 1
           /\ \A i \in 1 .. Len(toPlatform') : /\ toPlatform'[i] = toPlatform[i + 1]
                                               /\ i + 1 \in 1 .. Len(toPlatform)
           /\ rep[r].pc = "idle" /\ rep'[r] = [pc |-> "read", msg |-> toPlatform[1]]
           /\ \A q \in Reporters : q # r => rep'[q] = rep[q]
<1>1. toPlatform \in Seq(Progress) /\ toPlatform # <<>> /\ toPlatform' = Tail(toPlatform)
  BY DEF Arrive, IInv, TypeOK
<1>2. /\ Head(toPlatform) = toPlatform[1] /\ toPlatform[1] \in Progress
      /\ 1 \in 1 .. Len(toPlatform)
      /\ Len(toPlatform') \in Nat /\ Len(toPlatform) = Len(toPlatform') + 1
      /\ \A i \in 1 .. Len(toPlatform') : /\ toPlatform'[i] = toPlatform[i + 1]
                                          /\ i + 1 \in 1 .. Len(toPlatform)
  BY <1>1, Taking
<1>3. rep[r].pc = "idle" /\ rep'[r] = [pc |-> "read", msg |-> toPlatform[1]]
  BY <1>2 DEF Arrive, IInv, TypeOK
<1>4. \A q \in Reporters : q # r => rep'[q] = rep[q]
  BY DEF Arrive, IInv, TypeOK
<1> QED
  BY <1>2, <1>3, <1>4

(* From the report to its handler.                                         *)
LEMMA ArriveClaims ==
    ASSUME IInv, CInv, NEW r \in Reporters, Arrive(r)
    PROVE  CInv'
<1>1. UNCHANGED <<backup, job, toAgent, working>>
  BY DEF Arrive
<1>2. /\ 1 \in 1 .. Len(toPlatform)
      /\ Len(toPlatform') \in Nat
      /\ \A i \in 1 .. Len(toPlatform') : /\ toPlatform'[i] = toPlatform[i + 1]
                                          /\ i + 1 \in 1 .. Len(toPlatform)
      /\ rep[r].pc = "idle" /\ rep'[r] = [pc |-> "read", msg |-> toPlatform[1]]
      /\ \A q \in Reporters : q # r => rep'[q] = rep[q]
  BY Arrived
<1>3. \A a : \A i \in 1 .. Len(toPlatform') :
          OnReport(i, a)' => i + 1 \in 1 .. Len(toPlatform) /\ OnReport(i + 1, a)
  BY <1>2 DEF OnReport
<1>4. ASSUME NEW a, NEW q \in Reporters, OnHandler(q, a)'
      PROVE  (q = r /\ OnReport(1, a)) \/ OnHandler(q, a)
  <2>1. CASE q = r
    BY <1>2, <1>4, <2>1 DEF OnHandler, OnReport
  <2>2. CASE q # r
    BY <1>2, <1>4, <2>2 DEF OnHandler
  <2> QED
    BY <2>1, <2>2
<1>5. ASSUME NEW b \in BackupIds, NEW c, NEW y, Claim(c, y, b)'
      PROVE  \/ c = "report" /\ y \in 1 .. Len(toPlatform') /\ Claim("report", y + 1, b)
             \/ c = "handler" /\ y = r /\ Claim("report", 1, b)
             \/ c # "report" /\ Claim(c, y, b)
  BY <1>1, <1>2, <1>3, <1>4, <1>5 DEF Claim, OnJob, OnCommand
<1>6. OneClaim'
  <2> SUFFICES ASSUME NEW b \in BackupIds, NEW c, NEW y, NEW d, NEW z,
                      Claim(c, y, b)', Claim(d, z, b)'
               PROVE  c = d /\ y = z
    BY DEF OneClaim
  <2>1. \/ c = "report" /\ y \in 1 .. Len(toPlatform') /\ Claim("report", y + 1, b)
        \/ c = "handler" /\ y = r /\ Claim("report", 1, b)
        \/ c # "report" /\ Claim(c, y, b)
    BY <1>5
  <2>2. \/ d = "report" /\ z \in 1 .. Len(toPlatform') /\ Claim("report", z + 1, b)
        \/ d = "handler" /\ z = r /\ Claim("report", 1, b)
        \/ d # "report" /\ Claim(d, z, b)
    BY <1>5
  <2>3. \A e, v, f, w : Claim(e, v, b) /\ Claim(f, w, b) => e = f /\ v = w
    BY DEF CInv, OneClaim
  <2>4. CASE c = "report" /\ y \in 1 .. Len(toPlatform') /\ Claim("report", y + 1, b)
    <3>1. d = "report" /\ z \in 1 .. Len(toPlatform') /\ y + 1 = z + 1
      <4>1. y + 1 # 1
        BY <1>2, <2>4
      <4> QED
        BY <2>2, <2>3, <2>4, <4>1
    <3> QED
      BY <1>2, <2>4, <3>1
  <2>5. CASE c = "handler" /\ y = r /\ Claim("report", 1, b)
    <3>1. ASSUME z \in 1 .. Len(toPlatform') PROVE z + 1 # 1
      BY <1>2, <3>1
    <3> QED
      BY <2>2, <2>3, <2>5, <3>1
  <2>6. CASE c # "report" /\ Claim(c, y, b)
    BY <2>2, <2>3, <2>6
  <2> QED
    BY <2>1, <2>4, <2>5, <2>6
<1>7. \A b \in BackupIds : \A c, y : Claim(c, y, b)' => \E d, z : Claim(d, z, b)
  BY <1>5
<1>8. ClaimedRuns' /\ RestoresHave' /\ RestoresAreCompleted'
  BY <1>1, <1>7, Handed
<1> QED
  BY <1>6, <1>8 DEF CInv

(* A step that changes no row and only lets go.                            *)
LEMMA LetsGo ==
    ASSUME IInv, CInv, UNCHANGED <<backup, job>>,
           \A b \in BackupIds : \A c, x : Claim(c, x, b)' => Claim(c, x, b),
           UNCHANGED toAgent \/ toAgent' = <<>>
    PROVE  CInv' /\ Quiet
<1>1. OneClaim'
  BY DEF CInv, OneClaim
<1>2. \A i \in 1 .. Len(toAgent') : toAgent'[i].type = "restore_server" =>
               \E k \in 1 .. Len(toAgent) : toAgent'[i] = toAgent[k]
  BY DEF IInv
<1>3. ClaimedRuns' /\ RestoresHave' /\ RestoresAreCompleted'
  BY <1>2, Handed
<1>4. Quiet
  BY DEF Quiet, Held
<1> QED
  BY <1>1, <1>3, <1>4 DEF CInv

LEMMA ReadClaims ==
    ASSUME IInv, CInv, NEW r \in Reporters, Read(r)
    PROVE  CInv' /\ Quiet
<1>1. UNCHANGED <<backup, job, toAgent, working, toPlatform>>
  BY DEF Read
<1>2. \A q \in Reporters : q # r => rep'[q] = rep[q]
  BY DEF Read, IInv, TypeOK
<1>3. rep[r].pc # "idle" /\ (rep'[r].pc # "idle" => rep'[r].msg = rep[r].msg)
  BY DEF Read, IInv, TypeOK, NoReport
<1>4. \A b : \A q \in Reporters : OnHandler(q, b)' => OnHandler(q, b)
  BY <1>2, <1>3 DEF OnHandler
<1>5. \A b \in BackupIds : \A c, x : Claim(c, x, b)' => Claim(c, x, b)
  BY <1>1, <1>4 DEF Claim, OnJob, OnCommand, OnReport
<1> QED
  BY <1>1, <1>5, LetsGo

(* The handler that ends a backup had it.                                  *)
LEMMA WriteClaims ==
    ASSUME IInv, CInv, NEW r \in Reporters, Write(r)
    PROVE  CInv'
<1> DEFINE b == rep[r].msg.backup
<1>1. /\ rep[r].msg \in Progress /\ b \in BackupIds /\ backup[b] \in Row
      /\ backup' = [backup EXCEPT ![b] = Apply(backup[b], rep[r].msg.phase)]
  BY WriteRow
<1>2. UNCHANGED <<job, toAgent, working, toPlatform>> /\ rep[r].pc = "write"
  BY DEF Write
<1>3. rep'[r].pc = "idle" /\ \A q \in Reporters : q # r => rep'[q] = rep[q]
  BY DEF Write, IInv, TypeOK, NoReport
<1>4. \A a : \A q \in Reporters : OnHandler(q, a)' => OnHandler(q, a) /\ q # r
  BY <1>3 DEF OnHandler
<1>5. \A a \in BackupIds : \A c, x : Claim(c, x, a)' => Claim(c, x, a)
  BY <1>2, <1>4 DEF Claim, OnJob, OnCommand, OnReport
<1>6. ASSUME NEW a \in BackupIds
      PROVE  Calm(a) \/ \E c, x : Claim(c, x, a) /\ ~Claim(c, x, a)'
  <2>1. CASE a # b
    <3>1. backup'[a] = backup[a]
      BY <1>1, <2>1 DEF IInv, TypeOK
    <3> QED
      BY <3>1 DEF Calm
  <2>2. CASE a = b /\ rep[r].msg.phase = "uploading"
    <3>1. backup'[a] = Apply(backup[a], rep[r].msg.phase)
      BY <1>1, <2>2 DEF IInv, TypeOK
    <3>2. Apply(backup[a], rep[r].msg.phase).status = backup[a].status
      BY <1>1, <2>2, Applied DEF Progress
    <3> QED
      BY <3>1, <3>2 DEF Calm
  <2>3. CASE a = b /\ rep[r].msg.phase # "uploading"
    <3>1. Claim("handler", r, a)
      BY <1>2, <2>3 DEF Claim, OnHandler
    <3>2. ~Claim("handler", r, a)'
      BY <1>4 DEF Claim
    <3> QED
      BY <3>1, <3>2
  <2> QED
    BY <2>1, <2>2, <2>3
<1>7. OneClaim' /\ ClaimedRuns' /\ CompletedStays
  BY <1>5, <1>6, Fewer
<1>8. RestoresHave'
  <2> SUFFICES ASSUME NEW k \in Jobs, job[k].kind = "restore", job[k].pc \in {"config", "send"}
               PROVE  backup'[job[k].backup].status \in {"completed", "swept"}
    BY <1>2 DEF RestoresHave
  <2>1. /\ job[k].backup \in BackupIds /\ backup[job[k].backup] # None
        /\ backup[job[k].backup].status \in {"completed", "swept"}
    BY DEF IInv, JobHas, CInv, RestoresHave
  <2> QED
    BY <1>7, <2>1 DEF CompletedStays
<1>9. RestoresAreCompleted'
  <2> SUFFICES ASSUME NEW i \in 1 .. Len(toAgent), toAgent[i].type = "restore_server"
               PROVE  backup'[toAgent[i].backup].status \in {"completed", "swept"}
    BY <1>2 DEF RestoresAreCompleted
  <2>1. /\ toAgent[i].backup \in BackupIds /\ backup[toAgent[i].backup] # None
        /\ backup[toAgent[i].backup].status \in {"completed", "swept"}
    BY MessagesAbout DEF IInv, ReportsHave, CInv, RestoresAreCompleted
  <2> QED
    BY <1>7, <2>1 DEF CompletedStays
<1> QED
  BY <1>7, <1>8, <1>9 DEF CInv

LEMMA DropClaims ==
    ASSUME IInv, CInv, Drop
    PROVE  CInv' /\ Quiet
<1>1. UNCHANGED <<backup, job, working, rep>> /\ toAgent' = <<>> /\ toPlatform' = <<>>
  BY DEF Drop
<1>2. \A i : i \notin 1 .. Len(toAgent') /\ i \notin 1 .. Len(toPlatform')
  BY <1>1
<1>3. \A b \in BackupIds : \A c, x : Claim(c, x, b)' => Claim(c, x, b)
  BY <1>1, <1>2 DEF Claim, OnJob, OnHandler
<1> QED
  BY <1>1, <1>3, LetsGo

LEMMA OthersClaims ==
    ASSUME IInv, CInv, UNCHANGED <<backup, job, toAgent, working, toPlatform, rep>>
    PROVE  CInv' /\ Quiet
<1>1. \A b \in BackupIds : \A c, x : Claim(c, x, b)' => Claim(c, x, b)
  BY DEF Claim, OnJob, OnCommand, OnReport, OnHandler
<1> QED
  BY <1>1, LetsGo

LEMMA KeepsClaims == IInv /\ CInv /\ [Next]_vars => CInv'
<1> SUFFICES ASSUME IInv, CInv, [Next]_vars PROVE CInv'
  OBVIOUS
<1>1. CASE \E i \in Instances, k \in Runs : Tick(i, k)
  BY <1>1, TickClaims
<1>2. CASE \/ \E u \in Users, s \in Servers : TriggerBackup(u, s)
           \/ \E u \in Users, b \in BackupIds : RestoreBackup(u, b)
           \/ \E u \in Users, s \in Servers, g \in Settings : UpdateBackupConfig(u, s, g)
  BY <1>2, ServerActionsClaims
<1>3. ASSUME NEW j \in Jobs, Continue(j) PROVE CInv'
  BY <1>3, SelectClaims, NextDueClaims, SweepClaims, LoadOwnedServerClaims, EndsClaims,
     FindBackupClaims, LoadConfigClaims, InsertBackupClaims, SendBackupClaims,
     SendRestoreClaims, MarkFailedClaims DEF Continue
<1>4. ASSUME NEW j \in Jobs, JobFails(j) PROVE CInv'
  BY <1>4, EndsClaims
<1>5. ASSUME NEW r \in Reporters, Handle(r) PROVE CInv'
  BY <1>5, ArriveClaims, ReadClaims, WriteClaims DEF Handle
<1>6. CASE AgentStarts
  BY <1>6, AgentStartsClaims
<1>7. CASE \E b \in BackupIds : AgentReports(b)
  BY <1>7, AgentReportsClaims
<1>8. CASE Drop
  BY <1>8, DropClaims
<1>9. CASE \/ Connect \/ TimePasses \/ \E s \in Servers : DeleteServer(s)
           \/ UNCHANGED vars
  <2>1. UNCHANGED <<backup, job, toAgent, working, toPlatform, rep>>
    BY <1>9 DEF Connect, TimePasses, DeleteServer, vars
  <2> QED
    BY <2>1, OthersClaims
<1> QED
  BY <1>1, <1>2, <1>3, <1>4, <1>5, <1>6, <1>7, <1>8, <1>9 DEF Next

LEMMA InitClaims == Init => CInv
<1> SUFFICES ASSUME Init PROVE CInv
  OBVIOUS
<1>1. /\ \A j \in Jobs : job[j].pc = "idle"
      /\ \A i : i \notin 1 .. Len(toAgent) /\ i \notin 1 .. Len(toPlatform)
      /\ working = {} /\ \A r \in Reporters : rep[r].pc = "idle"
  BY DEF Init, Idle, NoReport
<1>2. \A b, c, x : ~Claim(c, x, b)
  BY <1>1 DEF Claim, OnJob, OnHandler
<1>3. OneClaim /\ ClaimedRuns
  BY <1>2 DEF OneClaim, ClaimedRuns
<1>4. RestoresHave /\ RestoresAreCompleted
  BY <1>1 DEF RestoresHave, RestoresAreCompleted
<1> QED
  BY <1>3, <1>4 DEF CInv

LEMMA InOneHand == Spec => [](IInv /\ CInv)
<1>1. Init => IInv /\ CInv
  BY InitIInv, InitClaims
<1>2. IInv /\ CInv /\ [Next]_vars => IInv' /\ CInv'
  BY KeepsIInv, KeepsClaims
<1> QED
  BY <1>1, <1>2, PTL DEF Spec

(* The agent is told to restore completed backups only, whatever happens   *)
(* between restoreBackup's look at the row and the command.                *)
THEOREM RestoresOnlyCompleted == Spec => []RestoresAreCompleted
<1>1. IInv /\ CInv => RestoresAreCompleted
  BY DEF CInv
<1> QED
  BY <1>1, InOneHand, PTL

-----------------------------------------------------------------------------
(* One report at a time: how a backup ended is final.                      *)

OneReporter == \A r, q \in Reporters : r = q

(* The start of an upload is reported just before how it ended.            *)
Uploads ==
    \A i \in 1 .. Len(toPlatform) : toPlatform[i].phase = "uploading" =>
        /\ i + 1 \in 1 .. Len(toPlatform)
        /\ toPlatform[i + 1].phase # "uploading"
        /\ toPlatform[i + 1].backup = toPlatform[i].backup

(* The start of the upload of b is being handled.                          *)
Late(b) ==
    \E r \in Reporters :
        rep[r].pc # "idle" /\ rep[r].msg.phase = "uploading" /\ rep[r].msg.backup = b

(* By then nobody ends the backup.                                         *)
UploadsRun ==
    \A b \in BackupIds : Late(b) => backup[b].status = "running" /\ ~Held(b)

UInv == Uploads /\ UploadsRun

(* Steps that are neither an arrival nor the end of a handler.             *)
LEMMA QuietUploads ==
    ASSUME IInv, UInv, Quiet, \A b \in BackupIds : Late(b)' => Late(b)
    PROVE  UploadsRun'
<1> SUFFICES ASSUME NEW b \in BackupIds, Late(b)'
             PROVE  backup'[b].status = "running" /\ ~Held(b)'
  BY DEF UploadsRun
<1>1. Late(b) /\ backup[b] # None
  BY DEF Late, IInv, ReportsHave
<1>2. backup[b].status = "running" /\ ~Held(b)
  BY <1>1 DEF UInv, UploadsRun
<1> QED
  BY <1>1, <1>2 DEF Quiet

LEMMA JobUploads ==
    ASSUME IInv, UInv, Quiet, UNCHANGED <<toPlatform, rep>>
    PROVE  UInv'
<1>1. Uploads'
  BY DEF UInv, Uploads
<1>2. \A b \in BackupIds : Late(b)' => Late(b)
  BY DEF Late
<1> QED
  BY <1>1, <1>2, QuietUploads DEF UInv

LEMMA ReadUploads ==
    ASSUME IInv, CInv, UInv, NEW r \in Reporters, Read(r)
    PROVE  UInv'
<1>1. UNCHANGED toPlatform /\ \A q \in Reporters : q # r => rep'[q] = rep[q]
  BY DEF Read, IInv, TypeOK
<1>2. rep[r].pc # "idle" /\ (rep'[r].pc # "idle" => rep'[r].msg = rep[r].msg)
  BY DEF Read, IInv, TypeOK, NoReport
<1>3. \A b \in BackupIds : Late(b)' => Late(b)
  BY <1>1, <1>2 DEF Late
<1>4. Uploads'
  BY <1>1 DEF UInv, Uploads
<1> QED
  BY <1>3, <1>4, ReadClaims, QuietUploads DEF UInv

LEMMA WriteUploads ==
    ASSUME IInv, UInv, OneReporter, NEW r \in Reporters, Write(r)
    PROVE  UInv'
<1>1. \A q \in Reporters : rep'[q].pc = "idle"
  BY DEF OneReporter, Write, IInv, TypeOK, NoReport
<1>2. UploadsRun'
  BY <1>1 DEF UploadsRun, Late
<1>3. Uploads'
  BY DEF Write, UInv, Uploads
<1> QED
  BY <1>2, <1>3 DEF UInv

(* The report of how it ended is next, and it is all there is about b.     *)
LEMMA ArriveUploads ==
    ASSUME IInv, CInv, UInv, OneReporter, NEW r \in Reporters, Arrive(r)
    PROVE  UInv'
<1>1. UNCHANGED <<backup, job, toAgent, working>>
  BY DEF Arrive
<1>2. /\ 1 \in 1 .. Len(toPlatform) /\ toPlatform[1] \in Progress
      /\ Len(toPlatform') \in Nat /\ Len(toPlatform) = Len(toPlatform') + 1
      /\ \A i \in 1 .. Len(toPlatform') : /\ toPlatform'[i] = toPlatform[i + 1]
                                          /\ i + 1 \in 1 .. Len(toPlatform)
      /\ rep'[r] = [pc |-> "read", msg |-> toPlatform[1]]
  BY Arrived
<1>3. Uploads'
  <2> SUFFICES ASSUME NEW i \in 1 .. Len(toPlatform'), toPlatform'[i].phase = "uploading"
               PROVE  /\ i + 1 \in 1 .. Len(toPlatform')
                      /\ toPlatform'[i + 1].phase # "uploading"
                      /\ toPlatform'[i + 1].backup = toPlatform'[i].backup
    BY DEF Uploads
  <2>1. /\ (i + 1) + 1 \in 1 .. Len(toPlatform)
        /\ toPlatform[(i + 1) + 1].phase # "uploading"
        /\ toPlatform[(i + 1) + 1].backup = toPlatform[i + 1].backup
    BY <1>2 DEF UInv, Uploads
  <2>2. i + 1 \in 1 .. Len(toPlatform')
    BY <1>2, <2>1
  <2> QED
    BY <1>2, <2>1, <2>2
<1>4. UploadsRun'
  <2> SUFFICES ASSUME NEW b \in BackupIds, Late(b)'
               PROVE  backup[b].status = "running" /\ ~Held(b)'
    BY <1>1 DEF UploadsRun
  <2>1. toPlatform[1].phase = "uploading" /\ toPlatform[1].backup = b
    BY <1>2 DEF Late, OneReporter
  <2>2. Claim("report", 2, b)
    <3>1. 1 + 1 = 2
      OBVIOUS
    <3> QED
      BY <1>2, <2>1, <3>1 DEF UInv, Uploads, Claim, OnReport
  <2>3. backup[b].status = "running" /\ ~Held(b)
    BY <2>2 DEF CInv, ClaimedRuns, OneClaim, Held
  <2>4. ASSUME NEW q \in Reporters PROVE ~OnHandler(q, b)'
    BY <1>2, <2>1 DEF OnHandler, OneReporter
  <2>5. ~Held(b)'
    BY <1>1, <2>3, <2>4 DEF Held, Claim, OnJob, OnCommand
  <2> QED
    BY <2>3, <2>5
<1> QED
  BY <1>3, <1>4 DEF UInv

LEMMA AgentReportsUploads ==
    ASSUME IInv, CInv, UInv, NEW b \in BackupIds, AgentReports(b)
    PROVE  UInv'
<1>1. Uploads'
  <2>1. CASE ~up
    BY <2>1 DEF AgentReports, UInv, Uploads
  <2>2. CASE up
    <3>1. PICK new \in Seq(Progress) :
              /\ toPlatform' = toPlatform \o new
              /\ \/ Len(new) = 1 /\ new[1].phase # "uploading" /\ new[1].backup = b
                 \/ /\ Len(new) = 2 /\ new[1].backup = b /\ new[2].backup = b
                    /\ new[1].phase = "uploading" /\ new[2].phase # "uploading"
      BY <2>2, Reported
    <3>2. toPlatform \in Seq(Progress)
      BY DEF IInv, TypeOK
    <3>3. /\ Len(toPlatform) \in Nat /\ Len(new) \in Nat
          /\ Len(toPlatform') = Len(toPlatform) + Len(new)
          /\ \A i \in 1 .. Len(toPlatform) : toPlatform'[i] = toPlatform[i]
          /\ \A i \in 1 .. Len(new) : toPlatform'[Len(toPlatform) + i] = new[i]
      BY <3>1, <3>2, Joined
    <3> SUFFICES ASSUME NEW i \in 1 .. Len(toPlatform'), toPlatform'[i].phase = "uploading"
                 PROVE  /\ i + 1 \in 1 .. Len(toPlatform')
                        /\ toPlatform'[i + 1].phase # "uploading"
                        /\ toPlatform'[i + 1].backup = toPlatform'[i].backup
      BY DEF Uploads
    <3>4. CASE i \in 1 .. Len(toPlatform)
      <4>1. /\ i + 1 \in 1 .. Len(toPlatform)
            /\ toPlatform[i + 1].phase # "uploading"
            /\ toPlatform[i + 1].backup = toPlatform[i].backup
        BY <3>3, <3>4 DEF UInv, Uploads
      <4> QED
        BY <3>3, <3>4, <4>1
    <3>5. CASE i \notin 1 .. Len(toPlatform) /\ Len(new) = 1
      <4>1. i = Len(toPlatform) + 1
        BY <3>3, <3>5
      <4>2. toPlatform'[i] = new[1]
        BY <3>3, <3>5, <4>1
      <4> QED
        BY <3>1, <3>5, <4>2
    <3>6. CASE i \notin 1 .. Len(toPlatform) /\ Len(new) = 2
      <4>1. i = Len(toPlatform) + 1 \/ i = Len(toPlatform) + 2
        BY <3>3, <3>6
      <4>2. toPlatform'[Len(toPlatform) + 1] = new[1] /\ toPlatform'[Len(toPlatform) + 2] = new[2]
        BY <3>3, <3>6
      <4>3. i = Len(toPlatform) + 1
        BY <3>1, <3>6, <4>1, <4>2
      <4>4. i + 1 = Len(toPlatform) + 2
        BY <3>3, <4>3
      <4> QED
        BY <3>1, <3>3, <3>6, <4>2, <4>3, <4>4
    <3> QED
      BY <3>1, <3>4, <3>5, <3>6
  <2> QED
    BY <2>1, <2>2
<1>2. \A a \in BackupIds : Late(a)' => Late(a)
  BY DEF AgentReports, Late
<1> QED
  BY <1>1, <1>2, AgentReportsClaims, QuietUploads DEF UInv

LEMMA DropUploads ==
    ASSUME IInv, CInv, UInv, Drop
    PROVE  UInv'
<1>1. toPlatform' = <<>> /\ UNCHANGED rep
  BY DEF Drop
<1>2. Uploads'
  BY <1>1 DEF Uploads
<1>3. \A b \in BackupIds : Late(b)' => Late(b)
  BY <1>1 DEF Late
<1> QED
  BY <1>2, <1>3, DropClaims, QuietUploads DEF UInv

LEMMA KeepsUploads == ASSUME OneReporter PROVE IInv /\ CInv /\ UInv /\ [Next]_vars => UInv'
<1> SUFFICES ASSUME IInv, CInv, UInv, [Next]_vars PROVE UInv'
  OBVIOUS
<1>1. CASE \E i \in Instances, k \in Runs : Tick(i, k)
  <2>1. Quiet /\ UNCHANGED <<toPlatform, rep>>
    BY <1>1, TickClaims DEF Tick
  <2> QED
    BY <2>1, JobUploads
<1>2. CASE \/ \E u \in Users, s \in Servers : TriggerBackup(u, s)
           \/ \E u \in Users, b \in BackupIds : RestoreBackup(u, b)
           \/ \E u \in Users, s \in Servers, g \in Settings : UpdateBackupConfig(u, s, g)
  <2>1. Quiet
    BY <1>2, ServerActionsClaims
  <2>2. UNCHANGED <<toPlatform, rep>>
    BY <1>2 DEF TriggerBackup, RestoreBackup, UpdateBackupConfig, Begin, jobVars
  <2> QED
    BY <2>1, <2>2, JobUploads
<1>3. ASSUME NEW j \in Jobs, Continue(j) \/ JobFails(j) PROVE UInv'
  <2>1. Quiet
    BY <1>3, SelectClaims, NextDueClaims, SweepClaims, LoadOwnedServerClaims, EndsClaims,
       FindBackupClaims, LoadConfigClaims, InsertBackupClaims, SendBackupClaims,
       SendRestoreClaims, MarkFailedClaims DEF Continue
  <2>2. UNCHANGED jobVars
    BY <1>3 DEF Continue, JobFails, Select, NextDue, Sweep, LoadOwnedServer, Upsert, FindBackup,
       LoadConfig, InsertBackup, SendBackup, SendRestore, MarkFailed, MarkConfig
  <2> QED
    BY <2>1, <2>2, JobUploads DEF jobVars
<1>4. ASSUME NEW r \in Reporters, Handle(r) PROVE UInv'
  BY <1>4, ArriveUploads, ReadUploads, WriteUploads DEF Handle
<1>5. CASE AgentStarts
  <2>1. Quiet /\ UNCHANGED <<toPlatform, rep>>
    BY <1>5, AgentStartsClaims DEF AgentStarts
  <2> QED
    BY <2>1, JobUploads
<1>6. CASE \E b \in BackupIds : AgentReports(b)
  BY <1>6, AgentReportsUploads
<1>7. CASE Drop
  BY <1>7, DropUploads
<1>8. CASE \/ Connect \/ TimePasses \/ \E s \in Servers : DeleteServer(s)
           \/ UNCHANGED vars
  <2>1. UNCHANGED <<backup, job, toAgent, working, toPlatform, rep>>
    BY <1>8 DEF Connect, TimePasses, DeleteServer, vars
  <2>2. Quiet
    BY <2>1, OthersClaims
  <2> QED
    BY <2>1, <2>2, JobUploads
<1> QED
  BY <1>1, <1>2, <1>3, <1>4, <1>5, <1>6, <1>7, <1>8 DEF Next

(* What a step may do to a backup that has ended.                          *)
Final(b) ==
    backup[b] # None /\ backup[b].status \in {"completed", "failed"} =>
        \/ backup'[b] = backup[b]
        \/ backup'[b] = [backup[b] EXCEPT !.status = "swept"]

LEMMA WriteFinal ==
    ASSUME IInv, CInv, UInv, NEW r \in Reporters, Write(r), NEW b \in BackupIds
    PROVE  Final(b)
<1>1. /\ rep[r].msg.backup \in BackupIds /\ rep[r].pc = "write"
      /\ backup' = [backup EXCEPT ![rep[r].msg.backup] =
                        Apply(backup[rep[r].msg.backup], rep[r].msg.phase)]
  BY WriteRow DEF Write
<1>2. CASE b # rep[r].msg.backup
  BY <1>1, <1>2 DEF Final, IInv, TypeOK
<1>3. CASE b = rep[r].msg.backup /\ rep[r].msg.phase = "uploading"
  <2>1. Late(b)
    BY <1>1, <1>3 DEF Late
  <2> QED
    BY <2>1 DEF UInv, UploadsRun, Final
<1>4. CASE b = rep[r].msg.backup /\ rep[r].msg.phase # "uploading"
  <2>1. Claim("handler", r, b)
    BY <1>1, <1>4 DEF Claim, OnHandler
  <2> QED
    BY <2>1 DEF CInv, ClaimedRuns, Final
<1> QED
  BY <1>2, <1>3, <1>4

LEMMA StepsAreFinal ==
    ASSUME IInv, CInv, UInv, [Next]_vars, NEW b \in BackupIds
    PROVE  Final(b)
<1>1. CASE UNCHANGED backup
  BY <1>1 DEF Final
<1>2. ASSUME NEW k \in Jobs, Sweep(k) PROVE Final(b)
  BY <1>2, SweepRows DEF Final
<1>3. ASSUME NEW j \in Jobs, NEW a \in BackupIds, InsertBackup(j, a) PROVE Final(b)
  <2>1. CASE a = b
    BY <1>3, <2>1 DEF InsertBackup, Final
  <2>2. CASE a # b
    BY <1>3, <2>2 DEF InsertBackup, Final, IInv, TypeOK
  <2> QED
    BY <2>1, <2>2
<1>4. ASSUME NEW j \in Jobs, MarkFailed(j) PROVE Final(b)
  <2>1. CASE job[j].backup = b
    <3>1. Claim("job", j, b)
      BY <1>4, <2>1 DEF MarkFailed, Claim, OnJob, IInv, JobHas
    <3> QED
      BY <3>1 DEF CInv, ClaimedRuns, Final
  <2>2. CASE job[j].backup # b
    BY <1>4, <2>2 DEF MarkFailed, Final, IInv, TypeOK
  <2> QED
    BY <2>1, <2>2
<1>5. ASSUME NEW r \in Reporters, Write(r) PROVE Final(b)
  BY <1>5, WriteFinal
<1>6. ASSUME NEW j \in Jobs, Continue(j) \/ JobFails(j) PROVE Final(b)
  <2>1. \/ UNCHANGED backup \/ Sweep(j) \/ (\E a \in BackupIds : InsertBackup(j, a))
        \/ MarkFailed(j)
    BY <1>6 DEF Continue, JobFails, Select, NextDue, LoadOwnedServer, Upsert, FindBackup,
       LoadConfig, SendBackup, SendRestore, MarkConfig
  <2> QED
    BY <1>1, <1>2, <1>3, <1>4, <2>1
<1>7. ASSUME NEW r \in Reporters, Handle(r) PROVE Final(b)
  <2>1. UNCHANGED backup \/ Write(r)
    BY <1>7 DEF Handle, Arrive, Read
  <2> QED
    BY <1>1, <1>5, <2>1
<1>8. ASSUME ~(\E j \in Jobs : Continue(j) \/ JobFails(j)), ~(\E r \in Reporters : Handle(r))
      PROVE  UNCHANGED backup
  BY <1>8 DEF Next, Tick, TriggerBackup, RestoreBackup, UpdateBackupConfig, Begin, AgentStarts,
     AgentReports, Drop, Connect, TimePasses, DeleteServer, vars
<1> QED
  BY <1>1, <1>6, <1>7, <1>8

(* While reports are handled one at a time, how a backup ended is final:   *)
(* the row changes no more until it is swept.  The start of the upload     *)
(* never overwrites the end, and a job that gives up never a result.       *)
THEOREM EndsAreFinal == ASSUME OneReporter PROVE Spec => EndedIsFinal
<1>1. Init => IInv /\ CInv /\ UInv
  <2>1. Init => Uploads
    BY DEF Init, Uploads
  <2>2. Init => UploadsRun
    BY DEF Init, UploadsRun, Late, NoReport
  <2> QED
    BY <2>1, <2>2, InitIInv, InitClaims DEF UInv
<1>2. IInv /\ CInv /\ UInv /\ [Next]_vars => IInv' /\ CInv' /\ UInv'
  BY KeepsIInv, KeepsClaims, KeepsUploads
<1>3. IInv /\ CInv /\ UInv /\ [Next]_vars =>
          [\A b \in BackupIds :
              backup[b] # None /\ backup[b].status \in {"completed", "failed"} =>
                  \/ backup'[b] = backup[b]
                  \/ backup'[b] = [backup[b] EXCEPT !.status = "swept"]]_vars
  BY StepsAreFinal DEF Final
<1> QED
  BY <1>1, <1>2, <1>3, PTL DEF Spec, EndedIsFinal

-----------------------------------------------------------------------------
(* What runs is in a hand, unless something was lost.                      *)

Lossless == drops = 0 /\ dbFailures = 0

(* Before the first connection nothing has been sent.                      *)
Silent == drops = 0 /\ ~up => toAgent = <<>> /\ working = {}

HInv == Silent /\ (Lossless => \A b \in BackupIds : Running(b) => InHand(b))

LEMMA KeepsSilent ==
    ASSUME IInv, [Next]_vars, Silent
    PROVE  Silent'
<1> SUFFICES ASSUME drops' = 0, ~up' PROVE toAgent' = <<>> /\ working' = {}
  BY DEF Silent
<1>1. drops \in Nat /\ MaxDrops \in Nat
  BY BoundsAssumption DEF IInv, TypeOK
<1>2. ~Drop /\ ~Connect
  BY <1>1 DEF Drop, Connect
<1>3. drops' = drops /\ up' = up
  <2>1. CASE \E j \in Jobs : Continue(j)
    BY <2>1 DEF Continue, Select, NextDue, Sweep, LoadOwnedServer, Upsert, FindBackup, LoadConfig, InsertBackup,
       SendBackup, SendRestore, MarkFailed, MarkConfig, jobVars
  <2>2. CASE \E j \in Jobs : JobFails(j)
    BY <2>2 DEF JobFails, jobVars
  <2>3. CASE \E r \in Reporters : Handle(r)
    BY <2>3 DEF Handle, Arrive, Read, Write
  <2>4. CASE UNCHANGED <<drops, up>>
    BY <2>4
  <2> QED
    BY <1>2, <2>1, <2>2, <2>3, <2>4 DEF Next, Tick, TriggerBackup, RestoreBackup, UpdateBackupConfig, Begin,
       AgentStarts, AgentReports, TimePasses, DeleteServer, jobVars, vars
<1>4. toAgent = <<>> /\ working = {} /\ ~up
  BY <1>3 DEF Silent
<1>5. UNCHANGED <<toAgent, working>>
  <2>1. CASE \E j \in Jobs : Continue(j)
    BY <1>4, <2>1 DEF Continue, Select, NextDue, Sweep, LoadOwnedServer, Upsert, FindBackup, LoadConfig, InsertBackup,
       SendBackup, SendRestore, MarkFailed, MarkConfig, jobVars
  <2>2. CASE \E j \in Jobs : JobFails(j)
    BY <2>2 DEF JobFails, jobVars
  <2>3. CASE \E r \in Reporters : Handle(r)
    BY <2>3 DEF Handle, Arrive, Read, Write
  <2>4. ~AgentStarts /\ \A b \in BackupIds : ~AgentReports(b)
    BY <1>4 DEF AgentStarts, AgentReports
  <2>5. CASE UNCHANGED <<toAgent, working>>
    BY <2>5
  <2> QED
    BY <1>2, <2>1, <2>2, <2>3, <2>4, <2>5 DEF Next, Tick, TriggerBackup, RestoreBackup, UpdateBackupConfig, Begin,
       TimePasses, DeleteServer, jobVars, vars
<1> QED
  BY <1>4, <1>5

(* A backup that runs has been running, or is now inserted.                *)
LEMMA RanBefore ==
    ASSUME IInv, [Next]_vars, NEW b \in BackupIds, Running(b)'
    PROVE  Running(b) \/ \E j \in Jobs : InsertBackup(j, b)
<1> USE DEF Running
<1>0. backup \in [BackupIds -> Row \cup {None}] /\ None \notin Row
  BY NoneAssumption DEF IInv, TypeOK
<1>1. ASSUME NEW j \in Jobs, Sweep(j) PROVE Running(b)
  <2>1. backup'[b] = IF Expired(b, job[j].at) THEN [backup[b] EXCEPT !.status = "swept"] ELSE backup[b]
    BY <1>1 DEF Sweep
  <2>2. Expired(b, job[j].at) => backup[b] \in Row
    BY <1>0 DEF Expired
  <2>3. Expired(b, job[j].at) => [backup[b] EXCEPT !.status = "swept"].status = "swept"
    BY <2>2 DEF Row
  <2> QED
    BY <2>1, <2>3
<1>2. ASSUME NEW j \in Jobs, MarkFailed(j) PROVE Running(b)
  <2>1. job[j].backup \in BackupIds /\ backup[job[j].backup] \in Row
    BY <1>0, <1>2 DEF MarkFailed, IInv, JobHas
  <2>2. backup' = [backup EXCEPT ![job[j].backup] = [@ EXCEPT !.status = "failed"]]
    BY <1>2 DEF MarkFailed
  <2>3. CASE b = job[j].backup
    <3>1. backup'[b].status = "failed"
      BY <1>0, <2>1, <2>2, <2>3 DEF Row
    <3> QED
      BY <3>1
  <2>4. CASE b # job[j].backup
    BY <1>0, <2>2, <2>4
  <2> QED
    BY <2>3, <2>4
<1>3. ASSUME NEW r \in Reporters, Write(r) PROVE Running(b)
  <2> DEFINE m == rep[r].msg
  <2>1. m \in Progress /\ m.backup \in BackupIds /\ backup[m.backup] \in Row
    BY <1>0, <1>3 DEF Write, IInv, ReportsHave, Progress
  <2>2. backup' = [backup EXCEPT ![m.backup] = Apply(@, m.phase)]
    BY <1>3 DEF Write
  <2>3. CASE b = m.backup
    <3>1. backup'[b] = Apply(backup[b], m.phase)
      BY <1>0, <2>2, <2>3
    <3>2. m.phase \in {"uploading", "completed", "failed"} /\ backup[b] \in Row
      BY <2>1, <2>3 DEF Progress, Phases
    <3> HIDE DEF m
    <3>3. CASE backup[b].status = "swept"
      BY <3>1, <3>3 DEF Apply
    <3>4. CASE backup[b].status # "swept" /\ m.phase = "uploading"
      <4>1. backup'[b] = [backup[b] EXCEPT !.size = 1]
        BY <3>1, <3>4 DEF Apply
      <4> QED
        BY <1>0, <3>2, <4>1 DEF Row
    <3>5. CASE backup[b].status # "swept" /\ m.phase = "completed"
      <4>1. backup'[b] = [backup[b] EXCEPT !.status = "completed", !.size = 2]
        BY <3>1, <3>5 DEF Apply
      <4>2. backup'[b].status = "completed"
        BY <3>2, <4>1 DEF Row
      <4> QED
        BY <4>2
    <3>6. CASE backup[b].status # "swept" /\ m.phase = "failed"
      <4>1. backup'[b] = [backup[b] EXCEPT !.status = "failed"]
        BY <3>1, <3>6 DEF Apply
      <4>2. backup'[b].status = "failed"
        BY <3>2, <4>1 DEF Row
      <4> QED
        BY <4>2
    <3> QED
      BY <3>2, <3>3, <3>4, <3>5, <3>6
  <2>4. CASE b # m.backup
    BY <1>0, <2>2, <2>4
  <2> QED
    BY <2>3, <2>4
<1>4. ASSUME NEW j \in Jobs, NEW c \in BackupIds, InsertBackup(j, c)
      PROVE  Running(b) \/ InsertBackup(j, b)
  <2>1. CASE c = b
    BY <1>4, <2>1
  <2>2. CASE c # b
    BY <1>0, <1>4, <2>2 DEF InsertBackup
  <2> QED
    BY <2>1, <2>2
<1>5. CASE \E j \in Jobs : Continue(j) /\ ~Sweep(j) /\ ~MarkFailed(j) /\ ~\E c \in BackupIds : InsertBackup(j, c)
  BY <1>5 DEF Continue, Select, NextDue, LoadOwnedServer, Upsert, FindBackup, LoadConfig,
     SendBackup, SendRestore, MarkConfig, jobVars
<1>6. CASE \E j \in Jobs : JobFails(j)
  BY <1>6 DEF JobFails
<1>7. CASE \E r \in Reporters : Handle(r) /\ ~Write(r)
  BY <1>7 DEF Handle, Arrive, Read
<1>8. CASE UNCHANGED backup
  BY <1>8
<1>9. CASE \E j \in Jobs : Continue(j) \/ JobFails(j)
  BY <1>1, <1>2, <1>4, <1>5, <1>6, <1>9
<1>10. CASE \E r \in Reporters : Handle(r)
  BY <1>3, <1>7, <1>10
<1>11. CASE ~(\E j \in Jobs : Continue(j) \/ JobFails(j)) /\ ~(\E r \in Reporters : Handle(r))
  BY <1>8, <1>11 DEF Next, Tick, TriggerBackup, RestoreBackup, UpdateBackupConfig, Begin, Drop, Connect,
     AgentStarts, AgentReports, TimePasses, DeleteServer, vars
<1> QED
  BY <1>9, <1>10, <1>11

(* A job sends its backup off, or finds the host offline and says so.      *)
LEMMA JobHands ==
    ASSUME IInv, [Next]_vars, dbFailures' = 0, NEW b \in BackupIds, Running(b)', NEW j \in Jobs, OnJob(j, b)
    PROVE  InHand(b)'
<1> USE DEF OnJob
<1>0. job \in [Jobs -> Job] /\ toAgent \in Seq(Command) /\ backup \in [BackupIds -> Row \cup {None}]
  BY DEF IInv, TypeOK, Command
<1>1. CASE job'[j] = job[j]
  <2>1. OnJob(j, b)'
    BY <1>1
  <2> QED
    BY <2>1 DEF InHand
<1>2. CASE Continue(j)
  <2>1. SendBackup(j) \/ MarkFailed(j)
    BY <1>2 DEF Continue, Select, NextDue, Sweep, LoadOwnedServer, Upsert, FindBackup, LoadConfig, InsertBackup,
       SendRestore, MarkConfig
  <2>2. ASSUME SendBackup(j), up PROVE InHand(b)'
    <3> DEFINE m == [type |-> "backup_server", backup |-> b]
    <3>1. toAgent' = Append(toAgent, m)
      BY <2>2 DEF SendBackup
    <3>2. m \in Command
      BY DEF Command
    <3> HIDE DEF m
    <3>3. Len(toAgent) \in Nat /\ Len(toAgent') = Len(toAgent) + 1 /\ toAgent'[Len(toAgent) + 1] = m
      BY <1>0, <3>1, <3>2, Sending
    <3>4. PICK n \in Nat : n = Len(toAgent) + 1 /\ n = Len(toAgent')
      BY <3>3
    <3>5. OnCommand(n, b)' /\ n \in 1 .. Len(toAgent')
      BY <3>3, <3>4 DEF OnCommand, m
    <3> QED
      BY <3>5 DEF InHand
  <2>3. ASSUME SendBackup(j), ~up PROVE InHand(b)'
    <3>1. job' = [job EXCEPT ![j].pc = "fail"]
      BY <2>3 DEF SendBackup, Step
    <3>2. job'[j].pc = "fail" /\ job'[j].kind = job[j].kind /\ job'[j].backup = b
      BY <1>0, <3>1 DEF Job
    <3>3. OnJob(j, b)'
      BY <3>2
    <3> QED
      BY <3>3 DEF InHand
  <2>4. ASSUME MarkFailed(j) PROVE FALSE
    <3>1. backup' = [backup EXCEPT ![b].status = "failed"] /\ backup[b] \in Row
      BY <1>0, <2>4 DEF MarkFailed, IInv, JobHas
    <3>2. backup'[b].status = "failed"
      BY <1>0, <3>1 DEF Row
    <3> QED
      BY <3>2 DEF Running
  <2> QED
    BY <2>1, <2>2, <2>3, <2>4
<1>3. ASSUME NEW k \in Jobs, Continue(k), k # j PROVE job'[j] = job[j]
  BY <1>3, OwnJob
<1>4. ASSUME NEW k \in Jobs PROVE ~JobFails(k)
  <2>1. dbFailures \in Nat
    BY BoundsAssumption DEF IInv, TypeOK
  <2> QED
    BY <2>1 DEF JobFails
<1>5. ASSUME NEW i \in Instances, NEW k \in Runs, Tick(i, k) PROVE job'[j] = job[j]
  BY <1>0, <1>5 DEF Tick, Jobs
<1>6. ASSUME NEW u \in Users, NEW new, Begin(u, new) PROVE job'[j] = job[j]
  BY <1>0, <1>6 DEF Begin, Jobs
<1>7. CASE job' = job
  BY <1>1, <1>7
<1>8. CASE \E k \in Jobs : Continue(k)
  BY <1>1, <1>2, <1>3, <1>8
<1>9. CASE (\E u \in Users, s \in Servers : TriggerBackup(u, s)) \/ (\E u \in Users, c \in BackupIds : RestoreBackup(u, c))
           \/ (\E u \in Users, s \in Servers, g \in Settings : UpdateBackupConfig(u, s, g))
  BY <1>1, <1>6, <1>9 DEF TriggerBackup, RestoreBackup, UpdateBackupConfig
<1> QED
  BY <1>1, <1>4, <1>5, <1>7, <1>8, <1>9 DEF Next, Handle, Arrive, Read, Write, Drop, Connect,
     AgentStarts, AgentReports, TimePasses, DeleteServer, vars

(* What may happen to the commands under way while no connection breaks.   *)
LEMMA CommandsMove ==
    ASSUME IInv, [Next]_vars, drops' = 0
    PROVE  \/ toAgent' = toAgent
           \/ \E m \in Command : toAgent' = Append(toAgent, m)
           \/ AgentStarts
<1>0. drops \in Nat /\ drops' = 0
  BY BoundsAssumption DEF IInv, TypeOK
<1>1. ~Drop
  BY <1>0 DEF Drop
<1>2. ASSUME NEW j \in Jobs, SendBackup(j) \/ SendRestore(j)
      PROVE  toAgent' = toAgent \/ \E m \in Command : toAgent' = Append(toAgent, m)
  <2>1. job[j].backup \in BackupIds
    BY <1>2 DEF SendBackup, SendRestore, IInv, JobHas
  <2>2. \A type \in {"backup_server", "restore_server"} : [type |-> type, backup |-> job[j].backup] \in Command
    BY <2>1 DEF Command
  <2> QED
    BY <1>2, <2>2 DEF SendBackup, SendRestore
<1>3. CASE \E j \in Jobs : Continue(j)
  BY <1>2, <1>3 DEF Continue, Select, NextDue, Sweep, LoadOwnedServer, Upsert, FindBackup, LoadConfig, InsertBackup,
     MarkFailed, MarkConfig
<1>4. CASE \E j \in Jobs : JobFails(j)
  BY <1>4 DEF JobFails
<1>5. CASE \E r \in Reporters : Handle(r)
  BY <1>5 DEF Handle, Arrive, Read, Write
<1> QED
  BY <1>1, <1>3, <1>4, <1>5 DEF Next, Tick, TriggerBackup, RestoreBackup, UpdateBackupConfig, Begin, Connect,
     AgentReports, TimePasses, DeleteServer, jobVars, vars

LEMMA CommandHands ==
    ASSUME IInv, [Next]_vars, drops' = 0, NEW b \in BackupIds, NEW i \in 1 .. Len(toAgent), OnCommand(i, b)
    PROVE  InHand(b)'
<1>0. toAgent \in Seq(Command) /\ Len(toAgent) \in Nat
  BY DEF IInv, TypeOK, Command
<1>1. CASE toAgent' = toAgent
  <2>1. OnCommand(i, b)' /\ i \in 1 .. Len(toAgent')
    BY <1>1 DEF OnCommand
  <2> QED
    BY <2>1 DEF InHand
<1>2. ASSUME NEW m \in Command, toAgent' = Append(toAgent, m) PROVE InHand(b)'
  <2>1. i \in 1 .. Len(toAgent') /\ toAgent'[i] = toAgent[i]
    BY <1>0, <1>2
  <2>2. OnCommand(i, b)'
    BY <2>1 DEF OnCommand
  <2> QED
    BY <2>1, <2>2 DEF InHand
<1>3. CASE AgentStarts /\ i = 1
  <2>1. Head(toAgent) = toAgent[1]
    BY <1>0
  <2>2. b \in working'
    BY <1>3, <2>1 DEF AgentStarts, OnCommand
  <2> QED
    BY <2>2 DEF InHand
<1>4. CASE AgentStarts /\ i # 1
  <2>1. toAgent' = Tail(toAgent) /\ toAgent # <<>>
    BY <1>4 DEF AgentStarts
  <2>2. i - 1 \in 1 .. Len(toAgent') /\ toAgent'[i - 1] = toAgent[i]
    BY <1>0, <1>4, <2>1
  <2>3. OnCommand(i - 1, b)'
    BY <2>2 DEF OnCommand
  <2> QED
    BY <2>2, <2>3 DEF InHand
<1> QED
  BY <1>1, <1>2, <1>3, <1>4, CommandsMove

(* An agent that is connected reports how the backup ended.                *)
LEMMA AgentHands ==
    ASSUME IInv, [Next]_vars, Silent, drops' = 0, NEW b \in BackupIds, b \in working
    PROVE  InHand(b)'
<1>1. CASE b \in working'
  BY <1>1 DEF InHand
<1>2. ASSUME AgentReports(b) PROVE InHand(b)'
  <2>1. up
    BY <1>2 DEF Silent, AgentReports
  <2>2. PICK new \in Seq(Progress) :
              /\ toPlatform' = toPlatform \o new
              /\ \/ Len(new) = 1 /\ new[1].phase # "uploading" /\ new[1].backup = b
                 \/ /\ Len(new) = 2 /\ new[1].backup = b /\ new[2].backup = b
                    /\ new[1].phase = "uploading" /\ new[2].phase # "uploading"
    BY <1>2, <2>1, Reported
  <2>3. PICK n \in 1 .. Len(new) : new[n].phase # "uploading" /\ new[n].backup = b
    BY <2>2
  <2>4. toPlatform \in Seq(Progress)
    BY DEF IInv, TypeOK
  <2>5. /\ Len(toPlatform) \in Nat /\ Len(new) \in Nat /\ Len(toPlatform') = Len(toPlatform) + Len(new)
        /\ toPlatform'[Len(toPlatform) + n] = new[n]
    BY <2>2, <2>4, Joined
  <2>6. PICK i \in Nat : i = Len(toPlatform) + n /\ i \in 1 .. Len(toPlatform')
    BY <2>5
  <2>7. OnReport(i, b)'
    BY <2>3, <2>5, <2>6 DEF OnReport
  <2> QED
    BY <2>6, <2>7 DEF InHand
<1>3. ASSUME NEW c \in BackupIds, AgentReports(c), c # b PROVE b \in working'
  BY <1>3 DEF AgentReports
<1>4. CASE \E j \in Jobs : Continue(j)
  BY <1>1, <1>4 DEF Continue, Select, NextDue, Sweep, LoadOwnedServer, Upsert, FindBackup, LoadConfig, InsertBackup,
     SendBackup, SendRestore, MarkFailed, MarkConfig, jobVars
<1>5. CASE \E j \in Jobs : JobFails(j)
  BY <1>1, <1>5 DEF JobFails, jobVars
<1>6. CASE \E r \in Reporters : Handle(r)
  BY <1>1, <1>6 DEF Handle, Arrive, Read, Write
<1>7. AgentStarts => b \in working'
  BY DEF AgentStarts
<1>8. CASE \E c \in BackupIds : AgentReports(c)
  BY <1>1, <1>2, <1>3, <1>8
<1>9. CASE working' = working
  BY <1>1, <1>9
<1> QED
  BY <1>1, <1>4, <1>5, <1>6, <1>7, <1>8, <1>9 DEF Next, Tick, TriggerBackup, RestoreBackup, UpdateBackupConfig, Begin,
     Drop, Connect, TimePasses, DeleteServer, jobVars, vars

(* A report of how it ended arrives, and is handled.                       *)
LEMMA ReportsMove ==
    ASSUME IInv, [Next]_vars, drops' = 0
    PROVE  \/ toPlatform' = toPlatform
           \/ \E new \in Seq(Progress) : toPlatform' = toPlatform \o new
           \/ \E r \in Reporters : Arrive(r)
<1>0. drops \in Nat /\ drops' = 0
  BY BoundsAssumption DEF IInv, TypeOK
<1>1. ~Drop
  BY <1>0 DEF Drop
<1>2. ASSUME NEW b \in BackupIds, AgentReports(b)
      PROVE  toPlatform' = toPlatform \/ \E new \in Seq(Progress) : toPlatform' = toPlatform \o new
  <2>1. CASE up
    BY <1>2, <2>1, Reported
  <2>2. CASE ~up
    BY <1>2, <2>2 DEF AgentReports
  <2> QED
    BY <2>1, <2>2
<1>3. CASE \E j \in Jobs : Continue(j)
  BY <1>3 DEF Continue, Select, NextDue, Sweep, LoadOwnedServer, Upsert, FindBackup, LoadConfig, InsertBackup,
     SendBackup, SendRestore, MarkFailed, MarkConfig, jobVars
<1>4. CASE \E j \in Jobs : JobFails(j)
  BY <1>4 DEF JobFails, jobVars
<1>5. CASE \E r \in Reporters : Handle(r)
  BY <1>5 DEF Handle, Read, Write
<1>6. CASE \E b \in BackupIds : AgentReports(b)
  BY <1>2, <1>6
<1>7. CASE toPlatform' = toPlatform
  BY <1>7
<1> QED
  BY <1>1, <1>3, <1>4, <1>5, <1>6, <1>7 DEF Next, Tick, TriggerBackup, RestoreBackup, UpdateBackupConfig, Begin,
     Connect, AgentStarts, TimePasses, DeleteServer, jobVars, vars

LEMMA ReportHands ==
    ASSUME IInv, [Next]_vars, drops' = 0, NEW b \in BackupIds, NEW i \in 1 .. Len(toPlatform), OnReport(i, b)
    PROVE  InHand(b)'
<1>0. toPlatform \in Seq(Progress) /\ Len(toPlatform) \in Nat /\ rep \in [Reporters -> Report]
  BY DEF IInv, TypeOK, Report
<1>1. CASE toPlatform' = toPlatform
  <2>1. OnReport(i, b)' /\ i \in 1 .. Len(toPlatform')
    BY <1>1 DEF OnReport
  <2> QED
    BY <2>1 DEF InHand
<1>2. ASSUME NEW new \in Seq(Progress), toPlatform' = toPlatform \o new PROVE InHand(b)'
  <2>1. i \in 1 .. Len(toPlatform') /\ toPlatform'[i] = toPlatform[i]
    BY <1>0, <1>2, Joined
  <2>2. OnReport(i, b)'
    BY <2>1 DEF OnReport
  <2> QED
    BY <2>1, <2>2 DEF InHand
<1>3. ASSUME NEW r \in Reporters, Arrive(r) PROVE InHand(b)'
  <2>1. toPlatform # <<>> /\ toPlatform' = Tail(toPlatform)
    BY <1>3 DEF Arrive
  <2>2. CASE i = 1
    <3>1. Head(toPlatform) = toPlatform[1]
      BY <1>0, <2>1, Taking
    <3>2. rep'[r] = [pc |-> "read", msg |-> Head(toPlatform)]
      BY <1>0, <1>3 DEF Arrive
    <3>3. OnHandler(r, b)'
      BY <2>2, <3>1, <3>2 DEF OnHandler, OnReport
    <3> QED
      BY <3>3 DEF InHand
  <2>3. CASE i # 1
    <3>1. PICK k \in Nat : k = i - 1 /\ k \in 1 .. Len(Tail(toPlatform)) /\ Tail(toPlatform)[k] = toPlatform[i]
      BY <1>0, <2>1, <2>3, Taking
    <3>2. OnReport(k, b)' /\ k \in 1 .. Len(toPlatform')
      BY <2>1, <3>1 DEF OnReport
    <3> QED
      BY <3>2 DEF InHand
  <2> QED
    BY <2>2, <2>3
<1> QED
  BY <1>1, <1>2, <1>3, ReportsMove

LEMMA HandlerHands ==
    ASSUME IInv, [Next]_vars, NEW b \in BackupIds, Running(b), Running(b)', NEW r \in Reporters, OnHandler(r, b)
    PROVE  InHand(b)'
<1>0. /\ rep \in [Reporters -> Report] /\ backup \in [BackupIds -> Row \cup {None}]
      /\ rep[r].pc \in {"read", "write"} /\ rep[r].msg \in Progress /\ rep[r].msg.backup = b
  BY DEF IInv, TypeOK, Report, ReportsHave, OnHandler
<1>1. CASE rep'[r] = rep[r]
  <2>1. OnHandler(r, b)'
    BY <1>1 DEF OnHandler
  <2> QED
    BY <2>1 DEF InHand
<1>2. CASE Read(r)
  <2>1. backup[b].status # "swept"
    BY DEF Running
  <2>2. rep' = [rep EXCEPT ![r].pc = "write"]
    BY <1>0, <1>2, <2>1 DEF Read
  <2>3. rep'[r].pc = "write" /\ rep'[r].msg = rep[r].msg
    BY <1>0, <2>2 DEF Report
  <2>4. OnHandler(r, b)'
    BY <2>3 DEF OnHandler
  <2> QED
    BY <2>4 DEF InHand
<1>3. CASE Write(r)
  <2>1. rep[r].msg.phase \in {"completed", "failed"} /\ backup[b].status # "swept" /\ backup[b] \in Row
        /\ backup[b].status = "running"
    BY <1>0 DEF OnHandler, Running, Progress, Phases
  <2>2. backup'[b] = Apply(backup[b], rep[r].msg.phase)
    BY <1>0, <1>3 DEF Write
  <2>3. CASE rep[r].msg.phase = "completed"
    <3>1. backup'[b] = [backup[b] EXCEPT !.status = "completed", !.size = 2]
      BY <2>1, <2>2, <2>3 DEF Apply
    <3>2. backup'[b].status = "completed"
      BY <2>1, <3>1 DEF Row
    <3> QED
      BY <3>2 DEF Running
  <2>4. CASE rep[r].msg.phase = "failed"
    <3>1. backup'[b] = [backup[b] EXCEPT !.status = "failed"]
      BY <2>1, <2>2, <2>4 DEF Apply
    <3>2. backup'[b].status = "failed"
      BY <2>1, <3>1 DEF Row
    <3> QED
      BY <3>2 DEF Running
  <2> QED
    BY <2>1, <2>3, <2>4
<1>4. CASE Arrive(r)
  BY <1>0, <1>4 DEF Arrive
<1>5. ASSUME NEW q \in Reporters, Handle(q), q # r PROVE rep'[r] = rep[r]
  BY <1>0, <1>5 DEF Handle, Arrive, Read, Write
<1>6. CASE \E q \in Reporters : Handle(q)
  BY <1>1, <1>2, <1>3, <1>4, <1>5, <1>6 DEF Handle
<1>7. CASE \E j \in Jobs : Continue(j)
  BY <1>1, <1>7 DEF Continue, Select, NextDue, Sweep, LoadOwnedServer, Upsert, FindBackup, LoadConfig, InsertBackup,
     SendBackup, SendRestore, MarkFailed, MarkConfig, jobVars
<1>8. CASE \E j \in Jobs : JobFails(j)
  BY <1>1, <1>8 DEF JobFails, jobVars
<1>9. CASE rep' = rep
  BY <1>1, <1>9
<1> QED
  BY <1>6, <1>7, <1>8, <1>9 DEF Next, Tick, TriggerBackup, RestoreBackup, UpdateBackupConfig, Begin,
     Drop, Connect, AgentStarts, AgentReports, TimePasses, DeleteServer, jobVars, vars

LEMMA KeepsHands == IInv /\ HInv /\ [Next]_vars => HInv'
<1> SUFFICES ASSUME IInv, HInv, [Next]_vars PROVE HInv'
  OBVIOUS
<1>1. Silent'
  BY KeepsSilent DEF HInv
<1>2. ASSUME Lossless', NEW b \in BackupIds, Running(b)' PROVE InHand(b)'
  <2>1. drops \in Nat /\ dbFailures \in Nat /\ drops' = 0 /\ dbFailures' = 0
    BY <1>2, BoundsAssumption DEF Lossless, IInv, TypeOK
  <2>2. drops' \in {drops, drops + 1} /\ dbFailures' \in {dbFailures, dbFailures + 1}
    <3>1. CASE \E j \in Jobs : Continue(j)
      BY <3>1 DEF Continue, Select, NextDue, Sweep, LoadOwnedServer, Upsert, FindBackup, LoadConfig, InsertBackup,
         SendBackup, SendRestore, MarkFailed, MarkConfig, jobVars
    <3>2. CASE \E j \in Jobs : JobFails(j)
      BY <3>2 DEF JobFails, jobVars
    <3>3. CASE \E r \in Reporters : Handle(r)
      BY <3>3 DEF Handle, Arrive, Read, Write
    <3>4. CASE UNCHANGED <<drops, dbFailures>>
      BY <3>4
    <3> QED
      BY <3>1, <3>2, <3>3, <3>4 DEF Next, Tick, TriggerBackup, RestoreBackup, UpdateBackupConfig, Begin,
         Drop, Connect, AgentStarts, AgentReports, TimePasses, DeleteServer, jobVars, vars
  <2>3. Lossless
    BY <2>1, <2>2 DEF Lossless
  <2>4. ASSUME NEW j \in Jobs, InsertBackup(j, b) PROVE InHand(b)'
    <3>1. job' = [job EXCEPT ![j] = [@ EXCEPT !.pc = "send", !.backup = b]] /\ job \in [Jobs -> Job]
          /\ job[j].kind # "restore"
      BY <2>4 DEF InsertBackup, IInv, TypeOK, JobHas
    <3>2. job'[j].pc = "send" /\ job'[j].backup = b /\ job'[j].kind = job[j].kind
      BY <3>1 DEF Job
    <3>3. OnJob(j, b)'
      BY <3>1, <3>2 DEF OnJob
    <3> QED
      BY <3>3 DEF InHand
  <2>5. CASE Running(b)
    <3>1. InHand(b) /\ Silent
      BY <2>3, <2>5 DEF HInv
    <3> QED
      BY <1>2, <2>1, <2>5, <3>1, JobHands, CommandHands, AgentHands, ReportHands, HandlerHands DEF InHand
  <2> QED
    BY <1>2, <2>4, <2>5, RanBefore
<1> QED
  BY <1>1, <1>2 DEF HInv

(* What somebody may still end is running, however short the retention and *)
(* however long it takes: the sweep passes over it, and nobody else can    *)
(* have ended it, because it is in one hand.  And what is running somebody *)
(* will end, unless a connection broke or a statement failed: no step lets *)
(* go of a backup before its row says how it ended.                        *)
THEOREM RunningAreHeld == Spec => []RunningIsHeld
<1>1. Init => HInv
  <2>1. Init => Silent
    BY DEF Init, Silent
  <2>2. Init => \A b \in BackupIds : ~Running(b)
    BY DEF Init, Running
  <2> QED
    BY <2>1, <2>2 DEF HInv
<1>2. IInv /\ HInv /\ [Next]_vars => HInv'
  BY KeepsHands
<1>3. IInv /\ CInv /\ HInv => RunningIsHeld
  <2> SUFFICES ASSUME IInv, CInv, HInv, NEW b \in BackupIds
               PROVE  (InHand(b) => Running(b)) /\ (Lossless /\ Running(b) => InHand(b))
    BY DEF RunningIsHeld, Lossless
  <2>1. ASSUME InHand(b) PROVE \E c, x : Claim(c, x, b)
    BY <2>1 DEF InHand, Claim
  <2>2. InHand(b) => Running(b)
    BY <2>1, ClaimHas DEF CInv, ClaimedRuns, Running
  <2> QED
    BY <2>2 DEF HInv
<1> QED
  BY <1>1, <1>2, <1>3, InOneHand, PTL DEF Spec

=============================================================================
