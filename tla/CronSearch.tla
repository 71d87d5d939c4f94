----------------------------- MODULE CronSearch -----------------------------
(***************************************************************************)
(* How agents/schedules.py finds the next time of a cron expression: the    *)
(* values of each field (_parse_cron_element) and the search for the next   *)
(* month, day and time of day (_next_cron_date).  The calendar is a         *)
(* parameter: TLC searches one whose months have two or three days, where   *)
(* every instant can be compared with the reference, the least instant      *)
(* after the current one that matches the expression.                       *)
(***************************************************************************)
EXTENDS Integers, Sequences, FiniteSets, FiniteSetsExt

CONSTANTS
  Years, Months,     \* ranges 1..n of the calendar
  MonthLength,       \* calendar.monthrange: year -> month -> days
  LongestMonth, Week,\* 31 and 7
  Hours, Minutes, Seconds,
  Horizon,           \* the search gives up after so many years (5)
  Expressions,       \* the expressions asked for: a record of six elements
  Starts,            \* the instants asked from
  NoDate, Malformed

CronAssumption ==
  /\ {LongestMonth, Week, Horizon} \subseteq Nat \ {0}
  /\ \A y \in Years, m \in Months : MonthLength[y][m] \in 1..LongestMonth

VARIABLES expression, current

vars == <<expression, current>>

----------------------------------------------------------------------------
(* An element is [any |-> TRUE, step], [any |-> FALSE, from, to, step], or a *)
(* set of those (a list).                                                    *)

\* One range with its step; Sunday may be written as the end of the week.
RangeValues(el, low, high, weekday) ==
  LET first == IF el.any THEN low ELSE el.from
      to    == IF el.any THEN high ELSE el.to
      from  == IF weekday /\ first = Week /\ to # Week THEN 0 ELSE first
  IN  IF from > to \/ el.step < 1 \/ first < low \/ to > high THEN Malformed
      ELSE {v \in from..to : (v - from) % el.step = 0}

ElementValues(els, low, high, weekday) ==
  LET all == {RangeValues(el, low, high, weekday) : el \in els}
  IN  IF Malformed \in all THEN Malformed ELSE UNION all

\* The six fields of an expression, the days of the week from 0.
Parsed(e) ==
  [seconds  |-> ElementValues(e.seconds, 0, Max(Seconds), FALSE),
   minutes  |-> ElementValues(e.minutes, 0, Max(Minutes), FALSE),
   hours    |-> ElementValues(e.hours, 0, Max(Hours), FALSE),
   days     |-> ElementValues(e.days, 1, LongestMonth, FALSE),
   months   |-> ElementValues(e.months, 1, Max(Months), FALSE),
   weekdays |-> LET v == ElementValues(e.weekdays, 0, Week, TRUE)
                IN  IF v = Malformed THEN v ELSE {d % Week : d \in v}]

Accepted(e) == \A f \in DOMAIN Parsed(e) : Parsed(e)[f] # Malformed

----------------------------------------------------------------------------
(* The calendar.  An instant is <<year, month, day, hour, minute, second>>.  *)

DaysBefore(y, m) ==
  MapThenSumSet(LAMBDA p : MonthLength[p[1]][p[2]],
    {p \in Years \X Months : p[1] < y \/ (p[1] = y /\ p[2] < m)})

Weekday(y, m, d) == (DaysBefore(y, m) + d) % Week

\* A mutant: a day must satisfy both restrictions.
DayAllowedBoth(p, y, m, d) == d \in p.days /\ Weekday(y, m, d) \in p.weekdays

\* _next_cron_day: when both kinds of day are restricted, either will do.
DayAllowed(p, y, m, d) ==
  LET restricted == Cardinality(p.days) # LongestMonth
      byWeek     == Cardinality(p.weekdays) # Week
  IN  IF restricted /\ byWeek
      THEN d \in p.days \/ Weekday(y, m, d) \in p.weekdays
      ELSE /\ restricted => d \in p.days
           /\ byWeek => Weekday(y, m, d) \in p.weekdays

NextDay(p, y, m, start) ==
  LET days == {d \in start..MonthLength[y][m] : DayAllowed(p, y, m, d)}
  IN  IF days = {} THEN NoDate ELSE Min(days)

\* _next_cron_time_of_day: the hours from the current one on, in each the
\* minutes, in the current minute the seconds after the current one.
TimeOfDay(p, now) ==
  LET HourOk(h)    == h >= now[4]
      MinuteOk(h, m) == HourOk(h) /\ ~(h = now[4] /\ m < now[5])
      SecondsOf(h, m) == IF h = now[4] /\ m = now[5]
                         THEN {s \in p.seconds : s > now[6]} ELSE p.seconds
      slots == {t \in p.hours \X p.minutes :
                  MinuteOk(t[1], t[2]) /\ SecondsOf(t[1], t[2]) # {}}
  IN  IF slots = {} THEN NoDate
      ELSE LET h == Min({t[1] : t \in slots})
               m == Min({t[2] : t \in {u \in slots : u[1] = h}})
           IN  <<h, m, Min(SecondsOf(h, m))>>

\* _next_cron_date: one month after the other, from the first listed month
\* that is not over.
Candidate(p, now, offset) ==
  LET month(i) == CHOOSE m \in p.months : Cardinality({x \in p.months : x < m}) = i
      n     == Cardinality(p.months)
      ahead == {m \in p.months : m >= now[2]}
      start == IF ahead = {} THEN 0 ELSE n - Cardinality(ahead)
      y     == now[1] + (IF ahead = {} THEN 1 ELSE 0) + (start + offset) \div n
      m     == month((start + offset) % n)
      here  == y = now[1] /\ m = now[2]
      day   == NextDay(p, y, m, IF here THEN now[3] ELSE 1)
      time  == TimeOfDay(p, now)
      next  == IF here /\ day = now[3] THEN NextDay(p, y, m, day + 1) ELSE day
  IN  IF y \notin Years \/ day = NoDate THEN NoDate
      ELSE IF here /\ day = now[3] /\ time # NoDate THEN <<y, m, day>> \o time
      ELSE IF next = NoDate THEN NoDate
      ELSE <<y, m, next, Min(p.hours), Min(p.minutes), Min(p.seconds)>>

\* The loop stops at the first month that has a day, or gives up.
NextCronDate(p, now) ==
  LET found == {o \in 0..(Cardinality(p.months) * Horizon - 1) :
                  Candidate(p, now, o) # NoDate}
  IN  IF found = {} THEN NoDate ELSE Candidate(p, now, Min(found))

----------------------------------------------------------------------------
Init ==
  /\ expression \in {e \in Expressions : Accepted(e)}
  /\ current \in Starts

\* A schedule goes from one of its times to the next.
Search ==
  /\ current # NoDate
  /\ current' = NextCronDate(Parsed(expression), current)
  /\ UNCHANGED expression

Next == Search

Spec == Init /\ [][Next]_vars

----------------------------------------------------------------------------
(* The reference: what the fields of an expression mean.                    *)

Instants == {t \in Years \X Months \X (1..LongestMonth) \X Hours \X Minutes \X Seconds :
               t[3] <= MonthLength[t[1]][t[2]]}

Before(a, b) == \E i \in 1..6 : a[i] < b[i] /\ \A j \in 1..(i - 1) : a[j] = b[j]

\* What an element stands for: a value is one of it when it lies on its
\* steps, and Sunday is both the first and the last day of the week.
Denotes(el, v, low, high) ==
  LET from == IF el.any THEN low ELSE el.from
      to   == IF el.any THEN high ELSE el.to
  IN  v >= from /\ v <= to /\ (v - from) % el.step = 0

DenotesDay(el, d) ==
  \/ Denotes(el, d, 0, Week)
  \/ d = 0 /\ Denotes(el, Week, 0, Week)
  \/ ~el.any /\ el.from = Week /\ el.to < Week /\ d <= el.to /\ d % el.step = 0

Matches(e, t) ==
  LET On(els, v, low, high) == \E el \in els : Denotes(el, v, low, high)
      OnWeek(d) == \E el \in e.weekdays : DenotesDay(el, d)
      day  == On(e.days, t[3], 1, LongestMonth)
      week == OnWeek(Weekday(t[1], t[2], t[3]))
      everyDay  == \A d \in 1..LongestMonth : On(e.days, d, 1, LongestMonth)
      everyWeek == \A d \in 0..(Week - 1) : OnWeek(d)
  IN  /\ On(e.seconds, t[6], 0, Max(Seconds))
      /\ On(e.minutes, t[5], 0, Max(Minutes))
      /\ On(e.hours, t[4], 0, Max(Hours))
      /\ On(e.months, t[2], 1, Max(Months))
      /\ IF everyDay \/ everyWeek THEN day /\ week ELSE day \/ week

\* The time found is after the current one and matches, and no instant between
\* them does: no execution is skipped and none is repeated, at the ends of
\* minutes, days, months and years, for lists, ranges, steps, a week that is
\* written 1-7 or 7-1, and days restricted in both ways.  When none is found,
\* none matches before the horizon.
NextIsLeast ==
  LET end == current[1] + Horizon IN
  \A t \in Instants :
    /\ t = current' => Before(current, t) /\ Matches(expression, t)
    /\ Before(current, t) /\ Matches(expression, t) =>
         IF current' = NoDate THEN t[1] >= end ELSE ~Before(t, current')

=============================================================================
