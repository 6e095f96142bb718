# Server Foundry: a verification project

Server Foundry is a control plane for self-hosted game servers. Users pair
their own machines ("hosts") with the platform; an agent on each host keeps a
WebSocket open to it; users deploy game servers, back them up, update the agent
and open terminals through that socket. The platform is one Node process
(`server.ts`) that runs Next.js, the WebSocket handlers and a backup scheduler
over one PostgreSQL database.

## Inventory

| component | state | operations | interacts through | hard because |
|---|---|---|---|---|
| Host pairing (`actions/hosts.ts`, `api/agent/pair`) | `pairing_codes`, `hosts` rows | createPairingCode, POST /api/agent/pair, removeHost | one transaction per request, row locks | two requests race for one code; rollback after a host was inserted; a lost answer |
| Agent gateway (`ws/agent-handler.ts`) | Map `connections`, one offline timer per connection, `hosts.status`, metrics cache | accept, supersede, hello, heartbeat, close, markOfflineIfStale | shared Map, database, buses | every handler awaits between reading and writing; closes arrive late; timers; restarts |
| Game servers (`actions/servers.ts`, status handlers) | `game_servers` rows, commands to agents | deploy, start, stop, restart, delete, status change | sendToHost, agent reports | check-then-insert on ports; late reports of deleted servers |
| Backups (`actions/backups.ts`, `backups/*`) | `backup_configs`, `backups` rows, scheduler tick | configure, trigger, schedule, restore, progress, sweep | sendToHost, setInterval | overlapping ticks; throttles; rows left `running` |
| Agent updates (`actions/agent-updates.ts`, `agent-updates-section.tsx`) | `agent_updates` rows, `hosts.agent_version` | trigger, progress, hello, the section's history | sendToHost, a binary that swaps itself and so breaks its own connection | rows left `running`; a hello that comes before its listener; two `UPDATE`s that cross |
| Terminal relay (`ws/terminal-*.ts`, `terminal-panel.tsx`) | sessions by id, a panel's badge | open, input, resize, data, close | two WebSockets | either side ends first; listeners attached after awaits; commands to a host that just went away |
| Live streams (`ws/live-*-bus.ts`, `api/stream`, `live-*.tsx`) | emitters, latest sample, a panel's ring | publish, replay, subscribe, reconnect | in-process emitters, SSE | gap or repetition between replay and subscription; statuses are not replayed |
| Notifications (`notifications/create.ts`, `actions/notifications.ts`, bell, inbox page, form) | `notifications`, preferences | create, mark, dismiss, poll, save | database, polling | optimistic changes against a late poll; polls overlap; forms edited while they are saved |
| Waitlist (`actions/waitlist.ts`, form, confirmation page) | `waitlist_signups` row | join, confirm | mailed tokens | two joins at once; a token replaced and never mailed |
| Hourly metrics (`upsertHourlyAggregate`, `uptime-heatmap.tsx`) | one row per host and hour | upsert, query, strip | database, two clocks | the hour turns during a render; time zones |
| Page of a server (`servers/[id]`) | props, copied state | lifecycle buttons, backup history and form | server actions, refreshes | state copied at mount and never brought up to date |
| Dashboard (`dashboard/page.tsx`, `traffic-flow.tsx`) | none of its own | select, layout | database | joins with removed hosts; columns that overflow |

## Modules, and the code they model

| module | models | state and how it corresponds |
|---|---|---|
| `PairingLedger` | what pairing promises, each request one atomic step | `holder`, `pairedTo`, `keeper`, `revoked`: a code's owner, its host, a host's owner, removed hosts |
| `Pairing` | `POST /api/agent/pair` statement by statement, `createPairingCode` with its retries, `removeHost` | `pairingCodes` and `hosts` are the *committed* rows, `requests[r]` is one handler with what it holds in local variables; a handler whose `pc` is `consumed` owns the row lock |
| `HostSessions` | what the gateway promises: one current session per host | `current`, `over` |
| `AgentGateway` | `handleAgentSocket`, hello, heartbeat, `resetOfflineTimer`, `markOfflineIfStale`, the close handler, restart | `connections` is the Map; `conn[s]` is one socket with its listener state, heartbeat age and timer; `offliner[s][k]` one run of `markOfflineIfStale`; `cached` is the cache of `liveMetricsBus`; `notes` the last host notification |
| `GameServers` | `deployServer`, `startServer`, `stopServer`, `restartServer`, `deleteServer`, `handleServerStatusChange`, `sendToHost` | `row` is `game_servers`; `op` the server actions under way, `rep` the status handlers; `toAgent`/`toPlatform` what is in the socket; `real` what is on the machine |
| `Backups` | `updateBackupConfig`, `triggerBackup`, `restoreBackup`, `startBackup`, `tick`, `sweepExpiredBackups`, `handleBackupProgress` | `config`, `backup` are rows; `job` is a server action or a tick; `working` what the agent is busy with |
| `Cron` | `fieldMatches`, `cronMatches` | a schedule as parsed parts and a point in time |
| `AgentLink` | `sendToHost` as the relays see it | `up`, `toAgent`, `toPlatform`: one connection, in order, with what is under way lost when it breaks |
| `Terminal` (over `AgentLink`) | `handleTerminalSocket`, `TerminalSessionManager`, `TerminalPanel` | `panel` is the badge, `client` the socket in the browser, `handler` the accept that awaits twice, `sessions` the manager's Map, `pty` the agent's shells; `typed`, `got`, `shown` are the two byte streams, as numbers |
| `AgentUpdates` (over `AgentLink`) | `triggerAgentUpdate`, `handleAgentUpdateProgress`, the version a hello writes, `AgentUpdatesSection` with its manifest | `upd` and `version` are rows, `trigger` the action under way, `handling` the agent's messages being handled, `agent` its job and the binary it runs, `section` what the page shows; `offline`, `lost`, `failed`, `crossed` remember why an update may stay |
| `Inbox` | the bell with its polls and optimistic changes, `/api/notifications/latest`, the list of the inbox page, `markNotificationRead`, `markAllNotificationsRead`, `dismissNotification` | `notice` are the rows, `bell` and `list` what the two places show, `polls` the requests under way |
| `Preferences` | `createNotification`, `updateNotificationPreferences`, the form | `stored2` is the preferences, `creating` the notices being decided |
| `LogStream` | `handleLog`, `LiveLogsBus`, the two log routes, `LiveLogsPanel` | lines numbered by time; `SELECT` and subscription of a request are two steps |
| `MetricsStream` | heartbeats and statuses on `LiveMetricsBus`, the metrics route, `LiveMetricsPanel` | a status is written in one step and published in another; the bus keeps the last reading, not the last status |
| `ServerPage` | the page of a server: buttons, backup history, backup form | rows, the props of the last render, and the state copied from them |
| `Waitlist` | `joinWaitlist`, `confirmWaitlist` statement by statement, form and page | `signup` is the row, `inbox` the tokens that were mailed, `replaced` those that a later join overwrote |
| `Uptime` | `upsertHourlyAggregate`, the query, the strip | a clock in half hours; a render reads the rows and later draws the cells |
| `Fleet` | the dashboard's queries, `computeLayout`, the grid of worlds | hosts, servers, games as sets; heights in parts of a pixel |
| `OrderBy` | `ORDER BY` of the replay of a log and of the list of notices | the rows of a set, once each, in order or in the opposite one; `Inbox` and `LogStream` use it |
| `Pairing_proofs`, `AgentGateway_proofs`, `GameServers_proofs`, `Backups_proofs`, `BackupEnds_proofs`, `Relays_proofs`, `Pages_proofs`, `OrderBy_proofs` | the theorems | |
| `MCRelays` | `Terminal`, `AgentUpdates` or `Inbox` | `part` says which, from the initial state on |
| `MCPages` | one of the eight small components | as above |
| other `MC...` | instances for TLC: model values, schedules, symmetry | |

The code is JavaScript: a handler runs alone until it awaits. So **an action is
the code between two awaits**: the awaited statement is executed at the action's
instant, and what the handler read earlier is kept in its record (`userId` in
`Pairing`, `wasOffline` in `AgentGateway`, `due` and `at` in `Backups`, the
row a join has read in `Waitlist`). Between two actions of one handler all others may act.
Statements of one handler are executed in order; those of different handlers
travel over different connections of the pool and are not ordered.

Definitions marked MUTANT are plausible bugs of the definition that follows.
They are used by no specification; each one shows that a property
would notice the bug.

How the components are composed: a model that needs another component takes
only what it sees of it. `GameServers` and `Backups` see of the gateway whether
`sendToHost` finds a connection (`up`) and that what is in the socket is lost
when it breaks; `Backups` sees of a server whether `loadOwnedServer` finds it.
`Pairing` is what makes the tokens `AgentGateway` looks hosts up by, and both
have `removeHost`. `Terminal` and `AgentUpdates` share one connection,
`AgentLink`. `ServerPage` takes the actions of `GameServers` and `Backups` as
requests with one effect and one answer, `Preferences` the events all the others raise.

`MCRelays` and `MCPages` check several components in one run. These
components share no state but the kind of connection, so their product would
only multiply states: `part` is chosen in the initial state and never changes,
and the other components stand still. Each property of such a run is about
one part and is the conjunction of that component's invariants.

## Runs

| run | instance | shows |
|---|---|---|
| `Pairing_races` | 2 users, 2 codes, 2 requests, clock 0..1, codes good for 0 ticks, 2 attempts | types; every host has consumed the code it was sent (`NoOrphanHost`); `SingleUse`; `AnswersTruthful`; `ExpiredNeverPairs`; `CodesAreStable`; implements `PairingLedger`; every request ends |
| `Gateway_safety` | 1 host, 2 sockets, hellos in time (the theorems cover late ones), one restart, one failing statement | types; `OnlyRegisteredStaysOpen`; `RegistrationIsStable`; implements `HostSessions` |
| `Gateway_liveness` | 1 host, 2 sockets, timers one tick late | `OnlineIsWatched`: while a host is shown online some socket will ask yet whether it is; `SilentHostGoesOffline` |
| `Gateway_timer_equality` | 1 host, 1 socket, timers exactly in time | violation of `SilentHostGoesOffline`, see Findings |
| `Servers_one_host` | 1 host, 2 servers, 1 port, one broken connection | types; `PortsAreExclusive`: in the database and, while the host stays connected, on the machine; `NothingAfterDelete`; `StatusIsLastReport` |
| `Servers_two_hosts` | 2 hosts, 1 server, agents that report on servers that are not theirs | `HostIsolation`; `DeletedIsCleanedUp` |
| `Servers_two_deploys` | 2 actions at once | violation of `PortsExclusive` |
| `Backups_safety` | 1 server, 2 backups, a user, a tick, one failing statement | types; `RestoresAreCompleted`; `RunningIsHeld`; `EndedIsFinal` |
| `Backups_schedule` | 2 servers, 2 backups, 2 minutes, hosts online or offline at first | `ThrottleHolds`; `EveryDueIsTried`; `EveryBackupEnds` |
| `Backups_skipped_minute` | 1 server, 5 half minutes | violation of `SkipsOnlyThisMinute` |
| `Relays` | a terminal panel; or an update and two handlers; or 2 notices, 2 polls and a bell that shows one; one broken connection | `TerminalIsFaithful`, `UpdatesAreTrue`, `InboxHolds`; nothing hangs for ever (`RelaysSettle`); `BellComesTrue` |
| `Pages` | 2 tabs and 2 lines; 3 heartbeats; 2 backups; one type of notice; 3 joins and 2 visits; 7 half hours; up to 9 hosts; about 150 schedules | `LogsAreFaithful`, `MetricsAreFaithful`, `ServerPageHolds`, `NoticesAreWanted`, `WaitlistIsTrue`, `UptimeIsTrue`, `DashboardIsTrue`, `CronIsRight` |

What the parts of the last two runs say:

* **Terminal.** A panel that says "open" is bound to a session, or has word of
  its end under way; nothing follows a close in either direction; output is shown in order, and
  without a gap while the agent's connection holds; keys reach the shell in the
  same way from the moment the panel showed "open". A panel does not say "connecting" for ever unless the handler's promise was
  rejected, and the shell of a panel that was left is ended unless the connection broke.
* **Agent updates.** The history a page shows is of rows that exist and is
  behind them only where it still says "running"; an update marked failed
  because the host was offline is never tried; once the agent's messages are handled the stored
  version is the connected agent's. Every update ends unless word
  of it was lost with a connection or a statement failed, and how it ended is final.
* **Inbox.** The bell counts what it shows, and neither place shows a notice
  twice or out of order, whatever overlaps. A bell on the screen comes to show what is stored, again and again.
* **Log stream.** Unless its ring is full, a panel with nothing under way lacks
  a stored and published line only if it was published between a `SELECT` and the
  subscription, or is older than the replay goes back. A line is shown at most
  once more often than it was replayed to that panel.
* **Metrics stream.** With nothing under way, a panel shows the reading the bus
  has kept, whatever broke before; and the status of the row, unless a change was published while it was not
  listening, two changes overlapped, or the change was the one a late hello makes.
* **Page of a server.** The history has every backup at most once, newest
  first; what it calls completed or failed is so, and nothing is restored on the
  strength of an entry that is not.
* **Preferences.** A notice is delivered on a channel only if the channel was on at
  some time since its event. "Saved." stands over what is stored, unless a box
  was ticked during the save or another page has saved since.
* **Waitlist.** A mailed link works, or the address is confirmed already, or a
  later join has replaced the token; a confirmed address never gets a token
  again; nobody is told "You're in" without a row.
* **Uptime.** A cell is lit exactly when a heartbeat was recorded in its hour
  before the rows were read, whatever hour begins during the render.
* **Dashboard.** Players and servers counted by host, by game and in total agree; every
  link has both its ends; up to eight nodes of a column stay in the diagram and
  none overlap.
* **Cron.** A schedule matches what crontab(5) makes of it, except where Findings say so,
  and a malformed one matches nothing more.

### Bounds

* Two of a kind (requests, sockets, servers, backups) are what every race in this
  code needs: one that reads and one that writes in between. The
  properties relate at most two of them. What the theorems state is
  proved for any number besides (see Proofs).
* `MaxTime`, `OfflineAfter`, `Minute` and `Retention` are small numbers because the
  code only compares times: before, at and after each bound occurs. In
  `Backups` a minute is two ticks long, so that a scheduler can boot in the
  second half of one and a tick of it may take time.
* `AgentGateway` has no clock: the ages of a heartbeat and of a timer are capped
  one beyond the value anything compares them with.
* `MaxQueue` bounds what is under way when a new action begins; actions that
  have begun are never held up by it. `AgentErrs` only sends into an empty
  queue, else an agent that keeps talking nonsense would fill the bounded queue for ever.
* Ids are not reused (the database's are random): a run stops inserting when it
  has used them up. In `Backups` time stops too, hence `CHECK_DEADLOCK FALSE`
  there. A row that was swept keeps its id with status `swept`.
* In `MCRelays` and `MCPages` a number counts what a race needs: two
  lines, two polls, two handlers, two tabs (one is mounted while the other streams), three joins (two that
  overlap and one that comes after), three heartbeats (one before, during and
  after a break). `ReplayLimit` and `LatestLimit` are 1 and `RingLimit` is 2 so that they are
  exceeded. `MaxHosts = 9` is the first fleet that leaves the diagram.
* `MaxDbFailures`, `MaxDrops` and `MaxRestarts` are one where a property has to
  hold in spite of the failure, none where its statement excludes it.

### Conditions

Some properties hold only under conditions that the code does not enforce.
Each is a named constant, so that the condition can be dropped and TLC
shows what goes wrong:

* `TimerSlack = 1`: timers fire after their period, never in the very
  millisecond. `HelloInTime`: a hello's `UPDATE` is not overtaken by the one of its
  own connection's end.
* One element in `Ops`, in `Reporters`, in `Instances`, no `Users` in
  `Backups_schedule`, `Overlap = FALSE`: server actions, reports and ticks one
  at a time.

* `ZoneOffset = 0`: the platform's local time is whole hours from UTC. With 1
  (half an hour) `UptimeIsTrue` is violated, see Findings.
* Variables that only remember: `lost`, `failed`, `crossed`, `unheard`,
  `replaced` and `drops` name, in a property, what the code cannot make good. Each is set by the very
  step that loses something, and the property still speaks of all other behaviours.

### Fairness

`Pairing`: the handler of a request continues (the event loop and the
database go on working). No fairness for new requests, crashes or the clock.

`AgentGateway`: statements are executed, handlers continue, timers fire, time
passes, and a socket that was told to close closes (`ws` destroys it after a
timeout). Agents and the network owe nothing: an agent may die silently.

`GameServers`, `Backups`: actions, ticks and handlers that began continue, and a
connected agent works off its commands. Strong fairness is used in one place,
for the arrival of each host's reports: the event loop delivers them in
turn, but the model's bounded pool of `Reporters` could be busy with another
host whenever one is looked at. Nothing makes a
connection come back or a user act.

`Terminal`, `AgentUpdates`: handlers that began continue, sockets deliver what
was sent on them, an agent works on what it was told. Nobody types, leaves, or reconnects out of fairness.

`Inbox`: a poll that was asked is answered, and while a bell is on the screen its
interval goes on asking. Strong fairness is used for `AnswerLatest` and
`ShowLatest`: a request may fail at any time, and a fetch that failed is
replaced by the next; not every one of them fails.

## Findings

Three runs show the program doing something other than what its comments or
docs say.

1. **The offline timer races itself** (`Gateway_timer_equality`).
   `resetOfflineTimer` arms a timer of `OFFLINE_AFTER_MS` in the tick that sets
   `lastHeartbeatAt`; when it fires on time, the age is not yet
   `> OFFLINE_AFTER_MS`, `markOfflineIfStale` returns, and nothing arms the timer
   again. The host stays online until its socket closes.
2. **Two deploys of one port** (`Servers_two_deploys`). The check is a `SELECT`
   ahead of the `INSERT`, and the schema has no constraint.
3. **A schedule for every minute skips** (`Backups_skipped_minute`).
   `lastRunAt` is stamped after the command was sent, so the next tick, 60 s
   after this one, finds it less than 60 s old.

Further disagreements met while modelling. The models contain the behaviour; no
run is kept for it:

* `main` resets no status at boot, so an agent that does not come back after a
  restart is shown online for ever (`MaxRestarts = 1` in `Gateway_liveness`). One failed `UPDATE` in
  `markOfflineIfStale` (`MaxDbFailures = 1`) or a hello overtaken by the close
  (`HelloInTime = FALSE`) have the same effect.
* `handleHeartbeat` never writes `hosts.status`, so a host that was marked
  offline while its agent stalled stays offline (docs/roadmap.md:87).
* `removeHost` leaves the agent's open socket alone (docs/security.md:103).
* Two handlers that both read the status before either writes it notify the
  same transition twice (`agent-handler.ts:447-469`), and the `UPDATE`s of two reports
  of one agent may be executed in the other order (`Reporters = {r1, r2}`).
* A `removeHost` between `deployServer`'s look at the host and its `INSERT` deploys on a removed host.
  A deploy while the host is offline is never sent again, though
  `hosts/[id]/deploy/page.tsx:72` says the agent will pick it up.
* `servers/[id]/page.tsx:116-118` says a server cannot be deleted while its host
  is offline; `canDelete` does not look at the host (`server-controls.tsx:23`).
* `deleteServer` frees the port before the agent has confirmed (comment at
  `servers.ts:82-83`), and a delete that could not be sent is never sent again.
* Two scheduler instances, or a manual backup during a tick, do start a backup
  within a minute of another (`server.ts:74-76`). `setInterval` counts from when it fired,
  so ticks drift and may leave a minute out.
* `startBackup` calls `revalidatePath` (`backups.ts:256`), which Next.js only
  allows while it serves a request. If it throws under the scheduler the tick
  ends with the first server (`JobFails` models any throw).
* A mid-flight byte count may be written after the completed report and
  replace the final size. Reports lost with a connection leave rows `running` or `deploying`.
* Cron: an empty part, as in `0,`, matches everything like `*`; day of month and
  day of week are both required, where standard cron takes either.
* Terminal: a browser that closes during the handler's two awaits is not heard
  (`terminal-handler.ts:101`), and its shell stays. A panel stays live when
  the agent disconnects. Data for a session is passed on whichever host sent it.
* Agent updates: nothing keeps two updates from running at once
  (`agent-updates.ts:65`); one whose command or report is lost at the swap stays `running`. The two
  `UPDATE`s of hellos may cross, and a hello sent at once, as docs/api.md:109-110 has it, may come before the
  listener (`agent-handler.ts:107-117`).
* Streams: a line between `SELECT` and subscription reaches nobody who
  connects then; the replay is repeated when an `EventSource` reconnects; statuses are
  not replayed, nor is the online of a late hello published. A subscription whose request was aborted before `start` ran is never ended.
* Notifications: the unread count covers the latest ten only
  (`api/notifications/latest/route.ts:10-11` says the unread count); overlapping polls may show the older state for a while;
  "Saved." is also said of a box ticked during the save.
* Backups: the section's history is copied into state when mounted and not brought
  up to date by a refresh (`backups-section.tsx:33`).
* Hourly metrics: the upsert sets every column to itself, so the row keeps its
  first sample (the comment at `agent-handler.ts:548` speaks of a running average).
  Hours are local at `agent-handler.ts:523` and UTC in the strip.
* Waitlist: the second click that `waitlist.ts:130` speaks of finds no
  row, as the token was cleared; the 24 hours the form mentions (`waitlist-form.tsx:82`) do not exist; a join that fails after its
  `UPDATE` kills the link that was mailed before; of two first joins at once one fails.
* Dashboard: nine or more nodes in a column leave the diagram (a comment there says
  about fifteen are fine).
* "New code" in the add-host flow only refreshes, and the page shows the code it has.
* Rejections of the voided promises of `handleAgentSocket` and
  `markOfflineIfStale` are not caught.

## Proofs

All theorems hold for every number of users, codes, requests, hosts,
sockets, servers, ports, backups, handlers, panels, updates, streams and forms and every value of the timing constants. They assume what the modules
assume of their constants: `None` is none of the values, and the bounds are naturals (that on the time
of `Backups` covers the first minute); the servers of a dashboard are finitely many; NaN is no integer and a
field of a schedule is a sequence of parts. Every invariant and every action property that a passing run checks has
a theorem.

**`Pairing_proofs`**: type correctness, `NoOrphanHost`, `SingleUse`,
`AnswersTruthful`, `ExpiredNeverPairs`, `CodesAreStable` and
that `Pairing` implements `PairingLedger`. The properties alone are not
inductive: they speak of committed rows and do not say why a row read before
the lock is still as it was read. The invariant `IInv` adds what each handler knows of that row
(`HandlerKnows`: owner and expiry it saw are still those of the row,
and the code is unused while it holds the lock), what a host's existence says
of its handler (`HostKnows`), what an answer says of the rows (`AnswerKnows`), that no two
handlers hold the same lock, and that a used code names a host. There is one
lemma per action; steps that only move a handler on share `MovingKeeps`.

**`AgentGateway_proofs`**: type correctness, `OnlyRegisteredStaysOpen`,
`RegistrationIsStable` and that `AgentGateway` implements `HostSessions`. The
invariant adds that every socket in use has a host (`HostKnown`) and that the
Map is sound: who is in it was let in with a token of that host (`MapSound`).
Without the latter, replacing an entry could close a socket of another host.
Steps that leave the Map and the phases of all sockets alone are treated alike
(`Quiet`). `OnlineIsWatched` is the safety half of `SilentHostGoesOffline`: who finds a host alive and lets it be leaves it to a
connection that will ask again. It needs (`Attends`) that a registered and fresh connection has a timer that was armed no
earlier than the connection was last heard from, so that a timer that fires never finds its own connection fresh; and that a hello is
under way only on a socket that will ask again. The property names its conditions (`Steady`: hellos in time,
timers that are late, no restart, no failed statement), because it fails without any of them, see Findings.

**`GameServers_proofs`**: for any number of actions and reports at once, type
correctness and `HostIsolation`. The invariant says what an action or a
handler under way has read (`OpHas`, `RepHas`): a handler about to write has seen that the row is of
its own host, and a row never changes hosts, so the late `UPDATE` is still right.
For one server action at a time (`OneAtATime`, an assumption of these two theorems;
`Servers_two_deploys` shows what happens without it), `NothingAfterDelete` and
`PortsAreExclusive`. That no port is double in the database needs that a row that is not deleted does not say
`deleting`, else the check would miss it. That no port is double *on the machine* is the harder half: the old
server is still installed when the platform gives its port away. The
invariant `OneInstalled` therefore speaks of every prefix of the commands under
way: however many of them the agent has obeyed, no two of the servers then
installed have one port (`Installed`). `InstalledIsLive` ties the end of the queue to the
database: what will be left is a row that is not deleted, or one whose delete command is about to be sent.
`Obeyed` and `Longer` are the two ways a queue changes, with one lemma each.
For one report at a time (`OneReporter`; with two, `UPDATE`s may cross, see Findings), however many actions
there are, `StatusIsLastReport`. The invariant (`Newest`) is
about the newest word there is of a server: the last report in the queue, else the one that is handled, else the row
says what is on the machine.

**`Backups_proofs`**: type correctness, for any number of servers, backups, ticks
and reports at once, which needs what a job has found out by each statement
(`JobHas`) and that messages are about backups that were inserted (`ReportsHave`).
If the database does not fail (`MaxDbFailures = 0`) and no server action is a
tick, also `EveryDueIsTried`: a tick only ends in the sweep, to which it comes with nothing left that is due.
For one scheduler whose ticks do not overlap and a behaviour in which nobody asks for a backup by hand
(`OneScheduler`, `NobodyAsks`; Findings has what happens otherwise), `ThrottleHolds`: no backup starts within a minute of the one before. The
throttle is looked at in the tick's `SELECT` and the command is sent much later, so the invariant (`Waits`)
carries the look along: what the tick has come to, and all that it still has to come to, was last run a minute
ago or more, because nobody else stamps `lastRunAt` in the meantime.

**`BackupEnds_proofs`**: `RunningIsHeld`, `RestoresAreCompleted` and, while reports
are handled one at a time (`OneReporter`), `EndedIsFinal`. None is inductive, because the row does not say who
may still write it. The invariant is that *a backup is in one hand*: the
job about to send its command, the command, the agent, the report of how it ended, or that
report's handler (`Claim`). No two hold the same backup (`OneClaim`), and a
backup that is held runs (`ClaimedRuns`): the first half of `RunningIsHeld`. The second half is that what runs is held, unless a connection
broke or a statement failed, and so the safety half of `EveryBackupEnds`: whoever lets go of a backup has passed it on (`JobHands`,
`CommandHands`, `AgentHands`, `ReportHands`, `HandlerHands`), and before the first connection there is nothing to lose (`Silent`). Each step takes, hands on or lets go of
one backup, and there is a lemma for each (`Handed`, `LetsGo`, `JobLeaves`).
So a sweep, a late failure or a restore
never meets a backup that somebody else is about to end. The start of an upload is no such
hand, as it leaves the status alone, but it would overwrite the final size: `EndedIsFinal` therefore also needs that in the queue it comes just
before the end (`Uploads`), and that when it is handled nobody but that next report is left (`UploadsRun`).

**`Relays_proofs`** is about the components of `MCRelays`.

* `TerminalFaithful` (`TerminalIsFaithful`), for any number of panels over one connection, any number of keys and
  of output, and sockets and connections that break at any time. What a panel shows does not say what is
  still under way to it, so the invariant follows every byte: output is on the panel, in the socket to the
  browser, or in the agent's, in this order and in the order it was printed (`OutputOrdered`), and
  while the connection has held all of it is somewhere there (`OutputWhole`); keys likewise on their way to the
  shell (`KeysOrdered`, `KeysWhole`). A command for a shell that does not exist yet is only sent behind the one that
  opens it, and nothing behind the one that closes it (`AgentHears`); a browser queue ends with at most one end
  (`BrowserQueue`). A panel that says "open" has a session, or a close at the end of its queue (`PanelHolds`). One
  lemma per kind of step says what it does to one panel; the others share the agent's queues with it and see
  only that messages which are not theirs come and go (`Comes`, `Kept`).
* `UpdatesTrue` (`UpdatesAreTrue`): as with backups, an update is in *one hand* (`OneHand`): the action's, the command's,
  the agent's, the report's or a handler's, and while it is in any it runs. Hence `UpdatesStay`: how one ended is final. That the stored
  version comes to be the agent's needs that at most one hello is being written unless two
  crossed, and that the last one under way has the version of the agent that is connected (`LatestHello`).

* `InboxIsInOrder` (`InboxHolds`), for any number of notices, polls and clicks: what an answer under way has is in
  order too, since it was read at one moment, and a click takes from the badge what it takes from the items
  (`InboxInv`).

**`Pages_proofs`** is about the eight components of `MCPages`.

* `WaitlistTrue`: the row only moves on (`RowGoesOn`), and a mail that is about to be sent has a
  token that is good or explained (`Explained`), whatever the other joins did since the row was read.
* `NoticesWanted`: what a run has read was in force at some time since its event (`RunHolds`), and a form that is being saved still shows what it
  sent, unless it was edited or another page saved (`FormHolds`).
* `UptimeTrue`, for a time zone of whole hours (`WholeHours`, as in Conditions): the hours that a render has read are
  those since a cut-off at some earlier moment, and hours are lit by the same buckets
  in which they are recorded.
* `MetricsFaithful`: a panel's record says little while events are under way, so the invariant says what it *will show*
  once it has received them (`WillShow`): the bus's reading, and the row's status unless one was missed. A
  status written and not yet published is the row's, and its writer is the only one (`WritersHold`).
* `ServerPageFaithful`: an answer that is about to put a backup on top of the history is newer than all that is there, because the
  section has been busy since it asked (`NewOnTop`).
* `LogsFaithful` (`LogsAreFaithful`), for any number of panels, requests and lines and any two limits: unless its ring is full, every
  line that is stored and published is in the panel, under way to it, in the gap of its request, or older than the replay
  goes back (`PanelShows`); before that, while a request has its rows and has not subscribed, the same
  of what it will replay (`ReplayHolds`). The copies of a line in a panel *and under way to it* are no more than its
  publication and its replays (`CountHolds`): the property alone, of the copies in the panel, is not inductive. A request
  that is aborted is no panel's, and one that listens streams (`RequestHolds`, `SourceHolds`).
* `DashboardFaithful` (`DashboardIsTrue`), for any finite set of servers. The heights of the diagram are sums, and a
  sum is a fold, by a function that is defined by recursion over subsets: it exists and is unique
  (`AddsExists`, `AddsSame`), so an element can be taken out of a sum (`TotalWithout`) and a sum
  taken group by group (`TotalByGroup`), as the columns of hosts and of games group the same rows. That
  a column fits is arithmetic for each number of nodes (`ColumnAlwaysFits`).
* `CronIsFaithful` (`CronIsRight`), for fields of any number of parts. `fieldMatches` tries the parts in turn; that this comes to "one of
  the parts, with none malformed before it" is shown from the last part where the two would
  differ. That the loop meets what the remainder says is `WholeSteps`.

**`OrderBy_proofs`** holds what the two proofs above need of `ORDER BY`: the rows in order exist, and are a sequence of all rows, each once.
That is an induction over the rows, and the library's induction theorems cannot be
instantiated here; it goes instead by a smallest set for which it fails (`SmallestOf`, from the well-foundedness of
strict inclusion among finite sets), from which the greatest element is taken away. The sums of the dashboard are treated in the
same way.

Only model-checked is liveness (`EveryRequestEnds`, `SilentHostGoesOffline`, `DeletedIsCleanedUp`, `EveryBackupEnds`, `RelaysSettle`,
`BellComesTrue`): the installed provers do not treat fairness and ENABLED.

## Not modelled

* The add-host and deploy flows, the settings and sign-in forms, the landing page,
  layouts and catalog: each submits one form and shows its answer, or renders what it is
  given. The actions behind them are in `Pairing`, `GameServers` and `Preferences`.
* User authentication is the configuration of an external library; e-mail is
  pure I/O, of which `Preferences` and `Waitlist` take that it may fail.
* The wire protocol is a set of schemas (the models take messages that
  passed them); crypto and environment checks are pure conversions; the audit
  log is insert-only and nothing reads it back; schema and seed are declarations.
* Within modelled components: `pid` and `lastStartedAt`, keep-alive comments,
  the filter of a log panel, the averages of the hourly row, the width of a link, wording and layout.

## What could come next

`GameServers` over `AgentGateway`'s connections in place of `up`, so that a
superseded socket may still deliver reports.
The number of runs is kept small: each asks one question.
