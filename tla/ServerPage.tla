----------------------------- MODULE ServerPage -----------------------------
(***************************************************************************)
(* The page of one game server in one browser                              *)
(* (src/app/dashboard/servers/[id]/page.tsx): its lifecycle buttons        *)
(* (server-controls.tsx), its backup history and its backup configuration  *)
(* (backups-section.tsx).  The actions they call are those of GameServers  *)
(* and Backups; here an action is a request, its effect and its answer.    *)
(*                                                                         *)
(* Status and host status are props, which come anew with every render of  *)
(* the page; history and configuration are copied into the state of the    *)
(* component when it is mounted, and stay.  Messages are left out.         *)
(***************************************************************************)
EXTENDS Naturals, Sequences

CONSTANTS MaxBackups,  \* bound on the backups
          NoBackup

VARIABLES
    server,      \* status of the game_servers row; deleting: it is a tombstone
    reachable,   \* is the host online
    backup,      \* status of each backups row, by the order they are started in
    started,     \* how many there are
    settings,    \* the backup_configs row, as far as it decides anything here
    page,        \* what is on the screen
    ask,         \* the action under way in each section
    badRestore   \* was the action asked for a backup that is not complete

pageVars == <<server, reachable, backup, started, settings, page, ask, badRestore>>

ServerStatus == {"deploying", "running", "down", "deleting"}  \* down: stopped or crashed
BackupIds == 1 .. MaxBackups
Settings == {"none", "platform", "s3"}
Section == {"controls", "history", "form"}
Lifecycle == {"start", "stop"}  \* restart: as stop
Operation == Lifecycle \cup {"delete", "backup", "restore", "save"}

ASSUME PageAssumption == MaxBackups \in Nat /\ NoBackup \notin Nat

NoAsk == [pc |-> "idle", op |-> "none", id |-> NoBackup, ok |-> FALSE]
NoPage == [at |-> "away", status |-> "deploying", online |-> FALSE, deleting |-> FALSE,
           list |-> <<>>, config |-> "none", restoring |-> NoBackup]

Entry2 == [id : BackupIds, status : {"running", "completed", "failed"}]

PageTypeOK ==
    /\ server \in ServerStatus
    /\ reachable \in BOOLEAN
    /\ backup \in [BackupIds -> {"none", "running", "completed", "failed"}]
    /\ started \in 0 .. MaxBackups
    /\ settings \in Settings
    /\ page \in [at : {"away", "shown", "error"}, status : ServerStatus, online : BOOLEAN,
                 deleting : BOOLEAN, list : Seq(Entry2), config : Settings,
                 restoring : BackupIds \cup {NoBackup}]
    /\ ask \in [Section -> [pc : {"idle", "asked", "done"}, op : Operation \cup {"none"},
                            id : BackupIds \cup {NoBackup}, ok : BOOLEAN]]
    /\ badRestore \in BOOLEAN

PageInit ==
    /\ server = "deploying"
    /\ reachable = TRUE
    /\ backup = [b \in BackupIds |-> "none"]
    /\ started = 0
    /\ settings \in {"none", "platform"}
    /\ page = NoPage
    /\ ask = [s \in Section |-> NoAsk]
    /\ badRestore = FALSE

-----------------------------------------------------------------------------
(* What goes on elsewhere: reports, connections, scheduled backups.        *)

Elsewhere ==
    /\ \/ /\ server # "deleting"
          /\ server' \in {"running", "down"} \ {server}
          /\ UNCHANGED <<reachable, backup, started>>
       \/ reachable' = ~reachable /\ UNCHANGED <<server, backup, started>>
       \/ \E b \in BackupIds :
             /\ backup[b] = "running"
             /\ backup' \in {[backup EXCEPT ![b] = "completed"], [backup EXCEPT ![b] = "failed"]}
             /\ UNCHANGED <<server, reachable, started>>
       \/ /\ settings = "s3" /\ server # "deleting" /\ started < MaxBackups
          /\ started' = started + 1
          /\ backup' = [backup EXCEPT ![started'] = "running"]
          /\ UNCHANGED <<server, reachable>>
    /\ UNCHANGED <<settings, page, ask, badRestore>>

-----------------------------------------------------------------------------
(* Rendering.                                                              *)

(* listBackups: the newest first.                                          *)
ListBackups == [i \in 1 .. started |-> [id |-> started + 1 - i, status |-> backup[started + 1 - i]]]

(* A visit mounts the components; a server that is deleted is not found.   *)
Visit ==
    /\ page.at # "shown"
    /\ server # "deleting"
    /\ page' = [NoPage EXCEPT !.at = "shown", !.status = server, !.online = reachable,
                              !.list = ListBackups, !.config = settings]
    /\ ask' = [s \in Section |-> NoAsk]
    /\ UNCHANGED <<server, reachable, backup, started, settings, badRestore>>

(* router.refresh and revalidatePath render the page again and keep the    *)
(* state of its components.                                                *)
Refresh(p) ==
    IF server = "deleting" THEN [NoPage EXCEPT !.at = "away"]
    ELSE [p EXCEPT !.status = server, !.online = reachable]

(* Reload, or another page: answers under way are for nobody.              *)
LeavePage ==
    /\ page.at # "away"
    /\ page' = NoPage
    /\ ask' = [s \in Section |-> NoAsk]
    /\ UNCHANGED <<server, reachable, backup, started, settings, badRestore>>

-----------------------------------------------------------------------------
(* The buttons.                                                            *)

Idle(s) == page.at = "shown" /\ ask[s].pc = "idle"
AskFor(s, op, b) == ask' = [ask EXCEPT ![s] = [NoAsk EXCEPT !.pc = "asked", !.op = op, !.id = b]]

(* canStart, canStop and canRestart.                                       *)
Can(op) ==
    /\ page.online
    /\ page.status \in IF op = "start" THEN {"down"} ELSE {"running"}

ClickLifecycle(op) ==
    /\ Idle("controls")
    /\ Can(op)
    /\ AskFor("controls", op, NoBackup)
    /\ UNCHANGED <<server, reachable, backup, started, settings, page, badRestore>>

(* Deleting does not ask for the host; it asks for a confirmation.         *)
ClickDelete ==
    /\ Idle("controls")
    /\ page' = [page EXCEPT !.deleting = ~@]
    /\ UNCHANGED <<server, reachable, backup, started, settings, ask, badRestore>>

ConfirmDelete ==
    /\ Idle("controls")
    /\ page.deleting
    /\ AskFor("controls", "delete", NoBackup)
    /\ UNCHANGED <<server, reachable, backup, started, settings, page, badRestore>>

(* onRunNow.  The configuration is the one the page was mounted with.      *)
RunNow ==
    /\ Idle("history")
    /\ page.config = "s3"
    /\ AskFor("history", "backup", NoBackup)
    /\ UNCHANGED <<server, reachable, backup, started, settings, page, badRestore>>

(* MUTANT: a failed backup can be restored.                                *)
ShownCompletedOrFailed(b) ==
    \E i \in 1 .. Len(page.list) : page.list[i].id = b /\ page.list[i].status # "running"

ShownCompleted(b) ==
    \E i \in 1 .. Len(page.list) : page.list[i].id = b /\ page.list[i].status = "completed"

(* setConfirmingRestore, with an entry or with null.                       *)
ClickRestore(b) ==
    /\ Idle("history")
    /\ IF b = NoBackup THEN page.restoring # NoBackup ELSE ShownCompleted(b) /\ page.restoring # b
    /\ page' = [page EXCEPT !.restoring = b]
    /\ UNCHANGED <<server, reachable, backup, started, settings, ask, badRestore>>

(* onRestore.                                                              *)
ConfirmRestore ==
    /\ Idle("history")
    /\ page.restoring # NoBackup
    /\ AskFor("history", "restore", page.restoring)
    /\ badRestore' = (badRestore \/ backup[page.restoring] # "completed")
    /\ UNCHANGED <<server, reachable, backup, started, settings, page>>

(* onSubmit, with values that are valid: busy while either section is.     *)
SubmitForm ==
    /\ Idle("form") /\ Idle("history")
    /\ AskFor("form", "save", NoBackup)
    /\ UNCHANGED <<server, reachable, backup, started, settings, page, badRestore>>

-----------------------------------------------------------------------------
(* The actions.                                                            *)

Result(s, ok, b) == ask' = [ask EXCEPT ![s] = [@ EXCEPT !.pc = "done", !.ok = ok, !.id = b]]

DoLifecycle ==
    /\ ask["controls"].pc = "asked" /\ ask["controls"].op \in Lifecycle
    /\ Result("controls", server # "deleting" /\ reachable, NoBackup)
    /\ UNCHANGED <<server, reachable, backup, started, settings, page, badRestore>>

DoDelete ==
    /\ ask["controls"].pc = "asked" /\ ask["controls"].op = "delete"
    /\ Result("controls", server # "deleting", NoBackup)
    /\ server' = "deleting"
    /\ UNCHANGED <<reachable, backup, started, settings, page, badRestore>>

(* triggerBackup: the row is there even when the host is not.              *)
DoBackup ==
    /\ ask["history"].pc = "asked" /\ ask["history"].op = "backup"
    /\ IF server # "deleting" /\ settings = "s3"
       THEN /\ started < MaxBackups
            /\ started' = started + 1
            /\ backup' = [backup EXCEPT ![started'] = IF reachable THEN "running" ELSE "failed"]
            /\ Result("history", reachable, started')
       ELSE Result("history", FALSE, NoBackup) /\ UNCHANGED <<backup, started>>
    /\ UNCHANGED <<server, reachable, settings, page, badRestore>>

DoRestore ==
    /\ ask["history"].pc = "asked" /\ ask["history"].op = "restore"
    /\ Result("history", /\ server # "deleting" /\ reachable /\ settings = "s3"
                         /\ backup[ask["history"].id] = "completed", NoBackup)
    /\ UNCHANGED <<server, reachable, backup, started, settings, page, badRestore>>

(* updateBackupConfig; without an encryption key it refuses.               *)
DoSave(ok) ==
    /\ ask["form"].pc = "asked"
    /\ ok => server # "deleting"
    /\ settings' = IF ok THEN "s3" ELSE settings
    /\ Result("form", ok, NoBackup)
    /\ UNCHANGED <<server, reachable, backup, started, page, badRestore>>

Optimistic(b) == [id |-> b, status |-> "running"]

(* The answer: an error is a message, or what the section does on success. *)
Answer2(s) ==
    LET a == ask[s] IN
    /\ ask[s].pc = "done"
    /\ ask' = [ask EXCEPT ![s] = NoAsk]
    /\ page' =
        CASE ~a.ok -> page
          [] a.ok /\ a.op = "delete" -> [NoPage EXCEPT !.at = "away"]  \* router.back
          [] a.ok /\ a.op \in Lifecycle -> Refresh(page)
          [] a.ok /\ a.op = "backup" -> Refresh([page EXCEPT !.list = <<Optimistic(a.id)>> \o @])
          [] a.ok /\ a.op = "restore" -> Refresh([page EXCEPT !.restoring = NoBackup])
          [] OTHER -> Refresh(page)
    /\ UNCHANGED <<server, reachable, backup, started, settings, badRestore>>

(* A statement fails: the action throws, and the page is replaced by its   *)
(* error boundary.                                                         *)
Throw(s) ==
    /\ ask[s].pc = "asked"
    /\ page' = [NoPage EXCEPT !.at = "error"]
    /\ ask' = [t \in Section |-> NoAsk]
    /\ UNCHANGED <<server, reachable, backup, started, settings, badRestore>>

-----------------------------------------------------------------------------
PageNext ==
    \/ Elsewhere \/ Visit \/ LeavePage
    \/ (\E op \in Lifecycle : ClickLifecycle(op)) \/ ClickDelete \/ ConfirmDelete
    \/ RunNow \/ (\E b \in BackupIds \cup {NoBackup} : ClickRestore(b)) \/ ConfirmRestore
    \/ SubmitForm \/ \E ok \in BOOLEAN : DoSave(ok)
    \/ DoLifecycle \/ DoDelete \/ DoBackup \/ DoRestore
    \/ \E s \in Section : Answer2(s) \/ Throw(s)

PageSpec == PageInit /\ [][PageNext]_pageVars

-----------------------------------------------------------------------------
(* Every backup is in the history at most once, the newest first, whatever *)
(* is rendered again between a click and its answer.                       *)
NewestFirst ==
    \A i, j \in 1 .. Len(page.list) : i < j => page.list[i].id > page.list[j].id

(* What the history calls completed or failed is, and what it offers to    *)
(* restore is completed; it may be behind on what is running.              *)
EndedEntriesAreTrue ==
    /\ \A i \in 1 .. Len(page.list) :
          page.list[i].status # "running" => page.list[i].status = backup[page.list[i].id]
    /\ ~badRestore

(* What the backup history says of the past is so, and nothing is restored *)
(* on the strength of something that is not.                               *)
HistoryIsFaithful == NewestFirst /\ EndedEntriesAreTrue

=============================================================================
