------------------------------- MODULE Uptime -------------------------------
(***************************************************************************)
(* The uptime strip of a host's page: upsertHourlyAggregate                *)
(* (src/server/ws/agent-handler.ts) leaves a host_metrics_hourly row for   *)
(* each hour with a heartbeat; the page (src/app/dashboard/hosts/[id]/     *)
(* page.tsx) reads the rows of the last hours, and UptimeHeatmap           *)
(* (src/components/app/uptime-heatmap.tsx) draws a cell for each hour.     *)
(*                                                                         *)
(* The clock counts half hours.  The platform's buckets are hours of its   *)
(* local time, those of the strip are hours of UTC; ON CONFLICT sets every *)
(* column to itself, so that of a row only its existence is kept.          *)
(***************************************************************************)
EXTENDS Integers

CONSTANTS MaxClock,     \* bound on the time
          WindowHours,  \* UPTIME_WINDOW_HOURS and WINDOW_HOURS
          ZoneOffset    \* the platform's time zone, in half hours

VARIABLES
    clock,   \* Date.now()
    buckets, \* hour_bucket of the host's rows
    strip,   \* a render of the page: what it has read, and the cells it drew
    spoke    \* hours of UTC with a heartbeat whose row is there; those at the last SELECT

uptimeVars == <<clock, buckets, strip, spoke>>

ASSUME UptimeAssumption ==
    MaxClock \in Nat /\ WindowHours \in Nat \ {0} /\ ZoneOffset \in Nat

(* A bucket is the half hour an hour begins with.                          *)
Floor(t, offset) == t - ((t + offset) % 2)
UtcHourBucket(t) == Floor(t, 0)
Window(t) == {UtcHourBucket(t) - 2 * i : i \in 0 .. WindowHours - 1}

Moments == (0 - 2 * WindowHours) .. MaxClock

UptimeTypeOK ==
    /\ clock \in 0 .. MaxClock
    /\ buckets \subseteq Moments
    /\ strip.pc \in {"away", "read", "drawn"}
    /\ strip.presentHours \subseteq Moments
    /\ strip.cells \subseteq Moments /\ strip.present \subseteq strip.cells
    /\ spoke.now \subseteq Moments /\ spoke.read \subseteq Moments

NoStrip == [pc |-> "away", presentHours |-> {}, cells |-> {}, present |-> {}]

UptimeInit ==
    /\ clock = 0
    /\ buckets = {}
    /\ strip = NoStrip
    /\ spoke = [now |-> {}, read |-> {}]

HalfHour ==
    /\ clock < MaxClock
    /\ clock' = clock + 1
    /\ UNCHANGED <<buckets, strip, spoke>>

(* setMinutes(0, 0, 0) goes by the platform's local time.  A statement     *)
(* that fails is logged, no more: that is no heartbeat here.               *)
UpsertHourly ==
    /\ buckets' = buckets \cup {Floor(clock, ZoneOffset)}
    /\ spoke' = [spoke EXCEPT !.now = @ \cup {UtcHourBucket(clock)}]
    /\ UNCHANGED <<clock, strip>>

(* MUTANT: the window is an hour short.                                    *)
ReadHoursShort ==
    LET cutoff == UtcHourBucket(clock) - 2 * (WindowHours - 2) IN
    /\ strip' = [NoStrip EXCEPT !.pc = "read", !.presentHours = {b \in buckets : b >= cutoff}]
    /\ spoke' = [spoke EXCEPT !.read = spoke.now]
    /\ UNCHANGED <<clock, buckets>>

ReadHours ==
    LET cutoff == UtcHourBucket(clock) - 2 * (WindowHours - 1) IN
    /\ strip' = [NoStrip EXCEPT !.pc = "read", !.presentHours = {b \in buckets : b >= cutoff}]
    /\ spoke' = [spoke EXCEPT !.read = spoke.now]
    /\ UNCHANGED <<clock, buckets>>

(* The strip has a clock of its own, some statements later.                *)
DrawStrip ==
    /\ strip.pc = "read"
    /\ strip' = [strip EXCEPT !.pc = "drawn", !.cells = Window(clock),
                              !.present = {c \in Window(clock) : c \in strip.presentHours}]
    /\ UNCHANGED <<clock, buckets, spoke>>

UptimeNext == HalfHour \/ UpsertHourly \/ ReadHours \/ DrawStrip

UptimeSpec == UptimeInit /\ [][UptimeNext]_uptimeVars

-----------------------------------------------------------------------------
(* An hour of the strip is lit exactly if a heartbeat was recorded in it   *)
(* before the rows were read, whatever hour begins during the render.  It  *)
(* takes a time zone that is whole hours from UTC.                         *)
StripIsTrue == strip.pc = "drawn" => strip.present = strip.cells \cap spoke.read

=============================================================================
