-------------------------------- MODULE Cron --------------------------------
(***************************************************************************)
(* The cron matcher of the backup scheduler: cronMatches and fieldMatches  *)
(* (src/server/backups/scheduler.ts).                                      *)
(*                                                                         *)
(* A field of a schedule is what is left of it after the split at commas:  *)
(* a sequence of parts.  A number in it is what Number.parseInt makes of   *)
(* the text, NaN included.                                                 *)
(***************************************************************************)
EXTENDS Integers, Sequences

CONSTANTS
    Schedules,  \* five-field schedules to look at
    Times,      \* points in time, broken down as Date does
    NaN,        \* what parseInt returns when there is no number
    Whole,      \* the range '*', and the empty one
    NoStep      \* no slash in the part

VARIABLES schedule, when

vars == <<schedule, when>>

(* A range is Whole, <<n>> for 'n' or <<a, b>> for 'a-b'.                  *)
Part(range, step) == [range |-> range, step |-> step]

Names == <<"minute", "hour", "dom", "mon", "dow">>

Numbers == Int \cup {NaN}
Parts == [range : {Whole} \cup {r \in Seq(Numbers) : Len(r) \in {1, 2}},
          step : Numbers \cup {NoStep}]

ASSUME CronAssumption ==
    /\ NaN \notin Int /\ NoStep \notin Numbers
    /\ \A i \in DOMAIN Names : /\ \A s \in Schedules : s[Names[i]] \in Seq(Parts)
                               /\ \A t \in Times : t[Names[i]] \in Int

(* The values a field can have.                                            *)
Lowest == [minute |-> 0, hour |-> 0, dom |-> 1, mon |-> 1, dow |-> 0]
Highest == [minute |-> 59, hour |-> 23, dom |-> 31, mon |-> 12, dow |-> 6]

Lo(part, min) == IF part.range = Whole THEN min ELSE part.range[1]
Hi(part, max) == IF part.range = Whole THEN max ELSE part.range[Len(part.range)]
Step(part) == IF part.step = NoStep THEN 1 ELSE part.step

(* The part makes fieldMatches return false.                               *)
Rejected(part, min, max) ==
    \/ part.step = NaN
    \/ part.step \notin {NaN, NoStep} /\ part.step <= 0
    \/ part.range # Whole /\ \E i \in DOMAIN part.range : part.range[i] = NaN
    \/ part.range # Whole /\ (\A i \in DOMAIN part.range : part.range[i] # NaN) /\
          \/ Lo(part, min) < min \/ Hi(part, max) > max
          \/ Lo(part, min) > Hi(part, max)

(* MUTANT: steps are counted from the start of the field's values.         *)
StepsMeetFromMin(part, value, min, max) ==
    \E n \in 0 .. max - min :
        /\ min + n * Step(part) = value
        /\ value \in Lo(part, min) .. Hi(part, max)

(* for (v = lo; v <= hi; v += step) meets the value.                       *)
StepsMeet(part, value, min, max) ==
    \E n \in 0 .. Hi(part, max) - Lo(part, min) :
        /\ Lo(part, min) + n * Step(part) = value
        /\ value <= Hi(part, max)

(* The parts are tried in turn, until one matches or is rejected.          *)
FieldMatches(field, value, min, max) ==
    LET from[i \in 1 .. Len(field) + 1] ==
            /\ i <= Len(field)
            /\ ~Rejected(field[i], min, max)
            /\ StepsMeet(field[i], value, min, max) \/ from[i + 1]
    IN  from[1]

Matches(name) ==
    FieldMatches(schedule[name], when[name], Lowest[name], Highest[name])

CronMatches == \A i \in DOMAIN Names : Matches(Names[i])

Init == schedule \in Schedules /\ when \in Times

(* Time goes on.                                                           *)
Next == when' \in Times \ {when} /\ UNCHANGED schedule

Spec == Init /\ [][Next]_vars

-----------------------------------------------------------------------------
(* What crontab(5) makes of a schedule.                                    *)

Denotes(part, min, max) ==
    {v \in Lo(part, min) .. Hi(part, max) : (v - Lo(part, min)) % Step(part) = 0}

WellFormed(field, min, max) == \A i \in DOMAIN field : ~Rejected(field[i], min, max)

Values(name) ==
    UNION {Denotes(schedule[name][i], Lowest[name], Highest[name]) : i \in DOMAIN schedule[name]}

InField(name) == when[name] \in Values(name)

Formed == \A i \in DOMAIN Names :
              WellFormed(schedule[Names[i]], Lowest[Names[i]], Highest[Names[i]])

(* A well-formed schedule matches exactly the times whose every field is   *)
(* in the set its lists, ranges and steps denote.                          *)
MatchesWhatIsDenoted == Formed => (CronMatches <=> \A i \in DOMAIN Names : InField(Names[i]))

(* A malformed part, and whatever follows it, never makes a field match: a *)
(* schedule matches a time only by parts ahead of the first malformed one. *)
MalformedNeverWidens ==
    CronMatches => \A i \in DOMAIN Names :
        LET name == Names[i]  field == schedule[name] IN
        \E k \in DOMAIN field :
            /\ WellFormed(SubSeq(field, 1, k), Lowest[name], Highest[name])
            /\ when[name] \in Denotes(field[k], Lowest[name], Highest[name])

=============================================================================
