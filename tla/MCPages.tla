------------------------------- MODULE MCPages ------------------------------
(***************************************************************************)
(* The pages and the small components behind them, for TLC.  They share    *)
(* nothing that matters here, so a behaviour is of one of them: part says  *)
(* which, from the initial state on.                                       *)
(***************************************************************************)
EXTENDS LogStream, MetricsStream, ServerPage, Preferences, Waitlist, Uptime, Fleet, MCCron

CONSTANTS t1, t2, h1, h2, n1, c1, j1, j2, j3, l1, l2, w1, w2, g1, g2

VARIABLE part

PagesInit ==
    /\ part \in {"logs", "metrics", "server", "preferences", "waitlist", "uptime", "fleet", "cron"}
    /\ LogInit /\ MetInit /\ PageInit /\ PrefInit /\ WaitInit /\ UptimeInit
    /\ IF part = "fleet" THEN FleetInit ELSE FleetInit /\ hostSet = {}
    /\ IF part = "cron" THEN Init ELSE schedule = "none" /\ when = "never"

LogPart == part = "logs" /\ LogNext /\ UNCHANGED <<metVars, pageVars, prefVars, waitVars,
                                                   uptimeVars, fleetVars, vars>>
MetricsPart == part = "metrics" /\ MetNext /\ UNCHANGED <<logVars, pageVars, prefVars, waitVars,
                                                          uptimeVars, fleetVars, vars>>
ServerPart == part = "server" /\ PageNext /\ UNCHANGED <<logVars, metVars, prefVars, waitVars,
                                                         uptimeVars, fleetVars, vars>>
PreferencesPart == part = "preferences" /\ PrefNext /\ UNCHANGED <<logVars, metVars, pageVars,
                                                          waitVars, uptimeVars, fleetVars, vars>>
WaitlistPart == part = "waitlist" /\ WaitNext /\ UNCHANGED <<logVars, metVars, pageVars, prefVars,
                                                             uptimeVars, fleetVars, vars>>
UptimePart == part = "uptime" /\ UptimeNext /\ UNCHANGED <<logVars, metVars, pageVars, prefVars,
                                                           waitVars, fleetVars, vars>>
FleetPart == part = "fleet" /\ FleetNext /\ UNCHANGED <<logVars, metVars, pageVars, prefVars,
                                                        waitVars, uptimeVars, vars>>
CronPart == part = "cron" /\ Next /\ UNCHANGED <<logVars, metVars, pageVars, prefVars, waitVars,
                                                 uptimeVars, fleetVars>>

PagesNext ==
    /\ \/ LogPart \/ MetricsPart \/ ServerPart \/ PreferencesPart
       \/ WaitlistPart \/ UptimePart \/ FleetPart \/ CronPart
    /\ UNCHANGED part

PagesSpec ==
    PagesInit /\ [][PagesNext]_<<part, logVars, metVars, pageVars, prefVars, waitVars, uptimeVars,
                                 fleetVars, vars>>

-----------------------------------------------------------------------------
(* A log panel has no gap and no repetition that a break, another tab or   *)
(* another request made.                                                   *)
LogsAreFaithful == part = "logs" => LogTypeOK /\ MissedOnlyInTheGap /\ RepeatsAreReplays

(* A metrics panel shows the last reading and the last status.             *)
MetricsAreFaithful == part = "metrics" => MetTypeOK /\ MetricsAreLatest /\ StatusIsCurrent

(* The page of a server.                                                   *)
ServerPageHolds == part = "server" => PageTypeOK /\ HistoryIsFaithful

(* What is delivered was wanted, and what a form calls saved is stored.    *)
NoticesAreWanted == part = "preferences" => PrefTypeOK /\ PreferencesHold

(* The waiting list.                                                       *)
WaitlistIsTrue == part = "waitlist" => WaitTypeOK /\ WaitlistHolds

(* The strip of a host's page.                                             *)
UptimeIsTrue == part = "uptime" => UptimeTypeOK /\ StripIsTrue

(* The dashboard.                                                          *)
DashboardIsTrue == part = "fleet" => FleetTypeOK /\ FleetIsTrue

(* Schedules match what crontab(5) makes of them, and nothing more.        *)
CronIsRight == part = "cron" => MatchesWhatIsDenoted /\ MalformedNeverWidens

=============================================================================
