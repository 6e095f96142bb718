------------------------------- MODULE MCCron -------------------------------
(* Schedules and times for TLC.                                            *)
EXTENDS Cron

Every == <<Part(Whole, NoStep)>>

(* Fields with every form of a part, at the edges of the field's values.   *)
MinuteFields ==
    {Every} \cup
    {<<Part(range, step)>> : range \in {Whole, <<0>>, <<59>>, <<60>>, <<NaN>>, <<1, 7>>, <<7, 1>>,
                                         <<58, 60>>, <<NaN, 3>>},
                             step \in {NoStep, NaN, 0, -1, 1, 2, 5, 60}} \cup
    {<<Part(<<3>>, NoStep), Part(<<60>>, NoStep), Part(<<6, 9>>, 3)>>} \cup
    {<<Part(<<3>>, NoStep), Part(<<6, 9>>, 3), last>> :
        last \in {Part(Whole, 30), Part(<<NaN>>, NoStep), Part(<<1, 5>>, 0)}}

DayFields == {Every, <<Part(<<1>>, NoStep)>>, <<Part(<<31>>, NoStep), Part(<<1, 5>>, 2)>>}

MonthFields == {Every, <<Part(<<12>>, NoStep)>>, <<Part(<<1, 3>>, NoStep)>>}

WeekdayFields == {Every, <<Part(<<1, 5>>, NoStep)>>, <<Part(<<0>>, NoStep), Part(<<6>>, NoStep)>>,
                  <<Part(<<7>>, NoStep)>>}

MCSchedules ==
    [minute : MinuteFields, hour : {Every}, dom : {Every}, mon : {Every}, dow : {Every}] \cup
    [minute : {<<Part(<<0>>, NoStep)>>}, hour : {Every, <<Part(<<3>>, NoStep)>>},
     dom : DayFields, mon : MonthFields, dow : WeekdayFields]

MCTimes ==
    [minute : {0, 1, 2, 3, 5, 6, 7, 9, 30, 58, 59}, hour : {3}, dom : {1}, mon : {1}, dow : {1}] \cup
    [minute : {0}, hour : {0, 3}, dom : {1, 3, 4, 31}, mon : {1, 2, 12}, dow : {0, 1, 6}]

=============================================================================
