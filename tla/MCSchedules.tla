----------------------------- MODULE MCSchedules -----------------------------
(* Schedules for TLC: a behaviour is one of the scheduler, or one search    *)
(* for the next date of a cron expression, with the other at rest.          *)
EXTENDS Scheduler

CONSTANTS Years, Months, MonthLength, LongestMonth, Week, Hours, Minutes, Seconds, Horizon,
          Expressions, Starts, NoDate, Malformed

VARIABLES part, expression, current

cronVars == <<expression, current>>

C == INSTANCE CronSearch

ASSUME C!CronAssumption

\* A calendar of years of two months, of two days, in one year three.
Lengths == [y \in 1..10 |-> <<2, IF y = 4 THEN 3 ELSE 2>>]

\* Elements of a field, the expressions made of them, and where a search begins.
All == [any |-> TRUE, step |-> 1]
Every(n) == [any |-> TRUE, step |-> n]
Span(a, b) == [any |-> FALSE, from |-> a, to |-> b, step |-> 1]
SomeExpressions ==
  [seconds: {{All}, {Span(1, 1)}}, minutes: {{All}, {Span(0, 0)}},
   hours: {{All}, {Span(1, 1)}},
   days: {{All}, {Span(3, 3)}, {Span(1, 1), Span(2, 2)}, {Every(2)}},
   months: {{All}, {Span(2, 2)}},
   weekdays: {{All}, {Span(3, 3)}, {Span(3, 1)}, {Span(1, 3)}, {Every(2)}, {Span(2, 1)}}]
SomeStarts ==
  {<<y, m, d, h, h, s>> : y \in {3, 4}, m \in 1..2, d \in {1, 2}, h \in 0..1, s \in {1}}

\* The part that is at rest begins in one state.
AtRest == /\ expression = CHOOSE e \in Expressions : C!Accepted(e)
          /\ current = CHOOSE t \in Starts : TRUE
MCInit ==
  /\ part \in {"schedules", "cron"} /\ Init /\ C!Init
  /\ part = "schedules" => AtRest
  /\ part = "cron" => legacy = [rows |-> {}, malformed |-> FALSE, current |-> FALSE]
MCNext ==
  /\ UNCHANGED part
  /\ \/ part = "schedules" /\ Next /\ UNCHANGED cronVars
     \/ part = "cron" /\ C!Next /\ UNCHANGED vars
MCSpec == MCInit /\ [][MCNext]_<<part, vars, cronVars>> /\ Fairness

\* See CronSearch: the date found is the next one.
NextIsLeast == [][part = "cron" => C!NextIsLeast]_cronVars
=============================================================================
