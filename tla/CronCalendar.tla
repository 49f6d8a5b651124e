---------------------------- MODULE CronCalendar ----------------------------
(***************************************************************************)
(* The calendar arithmetic behind cron automations (automation.rs) and     *)
(* behind the timestamps of events, approvals, repositories and S3         *)
(* requests: the civil date of a day number and its inverse, cron fields   *)
(* and their expansion, and the rule that joins day-of-month with          *)
(* day-of-week.  The walk below counts the days one by one from known      *)
(* dates, by the rules of the calendar, and compares every day with the    *)
(* arithmetic.  An instant is a day number and the second of that day.     *)
(***************************************************************************)
EXTENDS Integers, FiniteSets

CONSTANTS Anchors,      \* known dates: [days, y, m, d, dow] with days since 1970-01-01
          DaySpecs,     \* day-of-month fields tried: sets of parts [lo, hi, step]
          WeekSpecs,    \* day-of-week fields tried
          MonthSpecs,   \* month fields tried
          Seconds,      \* seconds of the day tried
          Span          \* bound: days walked from each anchor

VARIABLES today,    \* the calendar date, counted day by day: [days, y, m, d, dow]
          walked    \* days walked from the anchor

calendarVars == <<today, walked>>

-----------------------------------------------------------------------------
(* The code                                                                *)

\* civil_from_epoch: days since the epoch to year, month, day and weekday.
CivilFromDays(days) ==
  LET z   == days + 719468
      era == z \div 146097
      doe == z % 146097
      yoe == (doe - doe \div 1460 + doe \div 36524 - doe \div 146096) \div 365
      doy == doe - (365 * yoe + yoe \div 4 - yoe \div 100)
      mp  == (5 * doy + 2) \div 153
      d   == doy - (153 * mp + 2) \div 5 + 1
      m   == IF mp < 10 THEN mp + 3 ELSE mp - 9
      y   == yoe + era * 400
  IN  [days |-> days, y |-> IF m <= 2 THEN y + 1 ELSE y, m |-> m, d |-> d,
       dow |-> (days + 4) % 7]

\* Field::parse: parts lo-hi/step ("*" is min-max, a single value v is v-v);
\* a part out of bounds, or upside down, refuses the field.
FieldParse(parts, min, max) ==
  IF \E p \in parts : p.lo < min \/ p.hi > max \/ p.lo > p.hi \/ p.step = 0
  THEN [ok |-> FALSE, values |-> {}]
  ELSE [ok |-> TRUE, values |-> UNION {{p.lo + i * p.step : i \in 0..((p.hi - p.lo) \div p.step)} :
                                       p \in parts}]

\* Mutant: only the day of the month decides when both are restricted.
DayRuleDayOnly(day, month, week, date) ==
  /\ date.m \in month
  /\ date.d \in day

\* CronSpec::matches_minute, without hour and minute: with both day fields
\* restricted either may match, otherwise both must; 0 and 7 are Sunday.
DayRule(day, month, week, date) ==
  LET dayRestricted == Cardinality(day) # 31 \/ Cardinality(month) # 12
      dayOk == date.d \in day
      dowOk == date.dow \in week \/ (date.dow = 0 /\ 7 \in week)
  IN  /\ date.m \in month
      /\ IF dayRestricted /\ Cardinality(day) < 31 /\ Cardinality(week) < 7
         THEN dayOk \/ dowOk ELSE dayOk /\ dowOk

\* Clock time of a second of the day, and a stamp: date, clock time and the
\* fraction, which only some of the formatters print.
Clock(rem) == [hh |-> rem \div 3600, mm |-> (rem % 3600) \div 60, ss |-> rem % 60]
Stamp(days, rem, fraction) ==
  [date |-> CivilFromDays(days), time |-> Clock(rem), ms |-> fraction]

\* The formatters.  Each repeats the arithmetic of civil_from_epoch.
UtcMillisToRfc3339(days, rem, ms) == Stamp(days, rem, {ms})     \* the store's commands
NowRfc3339(days, rem, ms)         == Stamp(days, rem, {ms})     \* the scheduler's run events
Rfc3339Now(days, rem)             == Stamp(days, rem, {})       \* approvals
DaysToCivil(days, rem)            == Stamp(days, rem, {})       \* repositories
EpochToAmzDate(days, rem)         == Stamp(days, rem, {})       \* S3 signatures

\* rfc3339_to_timestamp: only stamps with milliseconds have the length it
\* takes, any other becomes the epoch.
Rfc3339ToTimestamp(s) ==
  LET y   == IF s.date.m <= 2 THEN s.date.y - 1 ELSE s.date.y
      era == y \div 400
      yoe == y % 400
      mp  == IF s.date.m > 2 THEN s.date.m - 3 ELSE s.date.m + 9
      doy == (153 * mp + 2) \div 5 + s.date.d - 1
      doe == yoe * 365 + yoe \div 4 - yoe \div 100 + doy
  IN  IF s.ms = {} THEN [days |-> 0, rem |-> 0, ms |-> {}]
      ELSE [days |-> era * 146097 + doe - 719468,
            rem |-> s.time.hh * 3600 + s.time.mm * 60 + s.time.ss, ms |-> s.ms]

-----------------------------------------------------------------------------
(* The calendar                                                            *)

Leap(y) == y % 4 = 0 /\ (y % 100 # 0 \/ y % 400 = 0)
DaysIn(y, m) == CASE m = 2 -> (IF Leap(y) THEN 29 ELSE 28)
                  [] m \in {4, 6, 9, 11} -> 30
                  [] OTHER -> 31

Tomorrow(t) ==
  LET monthEnds == t.d = DaysIn(t.y, t.m)
      yearEnds  == monthEnds /\ t.m = 12
  IN  [days |-> t.days + 1,
       y |-> IF yearEnds THEN t.y + 1 ELSE t.y,
       m |-> IF yearEnds THEN 1 ELSE IF monthEnds THEN t.m + 1 ELSE t.m,
       d |-> IF monthEnds THEN 1 ELSE t.d + 1,
       dow |-> (t.dow + 1) % 7]

Init == today \in Anchors /\ walked = 0
Walk == walked < Span /\ today' = Tomorrow(today) /\ walked' = walked + 1
Next == Walk

-----------------------------------------------------------------------------
Day(date) == CivilFromDays(date.days)

\* The reference rule, on the parts as they are written.
Covers(parts, v) == \E p \in parts : v \in p.lo..p.hi /\ (v - p.lo) % p.step = 0
OnWeekday(parts, dow) == Covers(parts, dow) \/ (dow = 0 /\ Covers(parts, 7))
Wanted(dp, mp, wp, date) ==
  LET free(parts, vs) == \A v \in vs : Covers(parts, v)
      anyWeekday == \A v \in 0..6 : OnWeekday(wp, v)
  IN  /\ Covers(mp, date.m)
      /\ IF free(dp, 1..31) \/ anyWeekday
         THEN Covers(dp, date.d) /\ OnWeekday(wp, date.dow)
         ELSE Covers(dp, date.d) \/ OnWeekday(wp, date.dow)

\* The arithmetic follows the calendar through month ends, leap days and
\* centuries; the instant of an event survives its text form and the surface's
\* way back; and a spec that parses fires on exactly the days it names.
CalendarExact ==
  /\ Day(today) = today
  /\ \A r \in Seconds :
       LET instant == [days |-> today.days, rem |-> r, ms |-> {7}] IN
       /\ Rfc3339ToTimestamp(UtcMillisToRfc3339(today.days, r, 7)) = instant
       /\ Rfc3339ToTimestamp(NowRfc3339(today.days, r, 7)) = instant
       /\ \A s \in {Rfc3339Now(today.days, r), DaysToCivil(today.days, r),
                    EpochToAmzDate(today.days, r)} :
            s.date = today /\ s.time.hh * 3600 + s.time.mm * 60 + s.time.ss = r
  /\ \A dp \in DaySpecs, mp \in MonthSpecs, wp \in WeekSpecs :
       LET d == FieldParse(dp, 1, 31)
           m == FieldParse(mp, 1, 12)
           w == FieldParse(wp, 0, 7)
       IN  d.ok /\ m.ok /\ w.ok =>
             (DayRule(d.values, m.values, w.values, Day(today)) <=> Wanted(dp, mp, wp, today))

=============================================================================
