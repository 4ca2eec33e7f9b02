---------------------------- MODULE CronSchedule ----------------------------
(* When a task is due (src/cron/schedule.rs): a schedule is read, and its      *)
(* occurrences after the last run are looked for in the time zone of the task. *)
(* A cron schedule is looked for by jumping on the wall calendar, and every    *)
(* jump is verified in UTC; where the offset of the zone changes the search    *)
(* goes minute by minute.                                                      *)
(*                                                                             *)
(* The calendar is a small one with all the units: minutes, hours, days, weeks *)
(* and months.  Instants are minutes in UTC; a wall time is an instant plus    *)
(* the offset then in force.                                                   *)
EXTENDS Integers, Sequences, FiniteSets, FiniteSetsExt

CONSTANTS HourLen, DayHours, WeekDays, MonthDays, YearMonths,
          Zones,       \* [base |-> offset, shifts |-> <<<<instant, offset>>, ...>>]
          Expressions, \* schedules as they are written
          Plannings,   \* [last |-> <<>> or <<instant>>, at |-> instant, anchor |-> likewise]
          MaxInterval, \* the longest interval
          Horizon,     \* how far a schedule is looked ahead, and back without a last run
          ScanLimit    \* OCCURRENCE_SCAN_LIMIT

DayLen == HourLen * DayHours

\* A zone does not change its offset twice within the longest jump.
ASSUME ScheduleAssumption ==
    /\ ScanLimit \in Nat \ {0} /\ Horizon \in Nat \ {0}
    /\ \A z \in Zones : \A i \in 1..(Len(z.shifts) - 1) :
          z.shifts[i + 1][1] - z.shifts[i][1] >= 2 * DayLen

VARIABLES
    plan,     \* the schedule as written and as read, and what is asked: last, at, anchor
    looking,  \* "none", then "due", "next" and "done", or "invalid"
    cursor,   \* the minute looked at
    hits,     \* the occurrences found so far, in order
    cutOff,   \* more were due than the limit
    upcoming  \* <<>>, or the occurrence announced
scheduleVars == <<plan, looking, cursor, hits, cutOff, upcoming>>

NoPlan == [kind |-> "none"]
ScheduleInit ==
    /\ plan = NoPlan /\ looking = "none" /\ cursor = 0
    /\ hits = <<>> /\ cutOff = FALSE /\ upcoming = <<>>

------------------------------------------------------------------------------
(* The calendar, and the time zones (chrono-tz).                              *)

MinuteOf(wall) == wall % HourLen
HourOf(wall) == (wall \div HourLen) % DayHours
DateOf(wall) == wall \div DayLen
DayOfMonth(wall) == (DateOf(wall) % MonthDays) + 1
MonthNumber(wall) == ((DateOf(wall) \div MonthDays) % YearMonths) + 1
Weekday(wall) == DateOf(wall) % WeekDays
NextMidnight(wall) == (DateOf(wall) + 1) * DayLen

Offset(zone, t) ==
    LET past == {i \in DOMAIN zone.shifts : zone.shifts[i][1] <= t}
    IN IF past = {} THEN zone.base ELSE zone.shifts[Max(past)][2]
WallOf(zone, t) == t + Offset(zone, t)
OffsetsOf(zone) == {zone.base} \cup {zone.shifts[i][2] : i \in DOMAIN zone.shifts}
\* The instants that show a wall time: none, one or two.
InstantsAt(zone, wall) == {t \in {wall - o : o \in OffsetsOf(zone)} : WallOf(zone, t) = wall}

\* local_to_utc: the first of two; in a gap, with the offset of two days before.
LocalToUtc(zone, wall) ==
    IF InstantsAt(zone, wall) # {} THEN Min(InstantsAt(zone, wall))
    ELSE wall - Offset(zone, wall - 2 * DayLen)

------------------------------------------------------------------------------
(* Reading a schedule (parse_schedule).                                       *)

\* A term is a star, a value or a range, with or without a step; a value with a
\* step counts to the end.
Low(term, min) == IF term.body = "*" THEN min ELSE term.low
High(term, max) ==
    IF term.body = "*" \/ (term.body = "one" /\ term.step > 0) THEN max
    ELSE IF term.body = "one" THEN term.low ELSE term.high
TermValues(term, min, max) ==
    {v \in Low(term, min)..High(term, max) : term.step = 0 \/ (v - Low(term, min)) % term.step = 0}
TermOk(term, min, max) ==
    Low(term, min) >= min /\ High(term, max) <= max /\ (term.body = "range" => term.low <= term.high)
ExpandField(terms, min, max) == UNION {TermValues(terms[i], min, max) : i \in DOMAIN terms}
FieldOk(terms, min, max) == \A i \in DOMAIN terms : TermOk(terms[i], min, max)
IsStar(terms) == Len(terms) = 1 /\ terms[1].body = "*" /\ terms[1].step = 0

\* Five fields; Sunday is both the first and one past the last day of the week.
CronOk(e) ==
    /\ FieldOk(e.minute, 0, HourLen - 1) /\ FieldOk(e.hour, 0, DayHours - 1)
    /\ FieldOk(e.dom, 1, MonthDays) /\ FieldOk(e.month, 1, YearMonths)
    /\ FieldOk(e.dow, 0, WeekDays)
CronFields(e) ==
    [minute |-> ExpandField(e.minute, 0, HourLen - 1), hour |-> ExpandField(e.hour, 0, DayHours - 1),
     dom |-> ExpandField(e.dom, 1, MonthDays), month |-> ExpandField(e.month, 1, YearMonths),
     dow |-> ExpandField(e.dow, 0, WeekDays), domAny |-> IsStar(e.dom), dowAny |-> IsStar(e.dow)]

ScheduleOk(e) ==
    CASE e.kind = "cron" -> CronOk(e)
      [] e.kind = "interval" -> e.len >= 1 /\ e.len <= MaxInterval
      [] e.kind = "once" -> TRUE
ParseSchedule(e, zone) ==
    CASE e.kind = "cron" -> [kind |-> "cron", zone |-> zone, fields |-> CronFields(e)]
      [] e.kind = "interval" -> [kind |-> "interval", len |-> e.len]
      [] e.kind = "once" -> [kind |-> "once",
                             runAt |-> IF e.naive THEN LocalToUtc(zone, e.when) ELSE e.when]

------------------------------------------------------------------------------
(* Matching, and the jump to the next minute that could match.                *)

DayMatches(f, wall) ==
    LET inMonth == DayOfMonth(wall) \in f.dom
        inWeek == Weekday(wall) \in f.dow \/ (Weekday(wall) = 0 /\ WeekDays \in f.dow)
    IN IF ~f.domAny /\ ~f.dowAny THEN inMonth \/ inWeek ELSE inMonth /\ inWeek
Matches(f, wall) ==
    /\ MinuteOf(wall) \in f.minute /\ HourOf(wall) \in f.hour
    /\ DayMatches(f, wall) /\ MonthNumber(wall) \in f.month

LaterHours(f, wall) == {h \in f.hour : h > HourOf(wall)}
LaterMinutes(f, wall) == {m \in f.minute : m > MinuteOf(wall)}
NextCandidate(f, wall) ==
    LET hour == wall - MinuteOf(wall)
    IN IF MonthNumber(wall) \notin f.month \/ ~DayMatches(f, wall) THEN NextMidnight(wall)
       ELSE IF HourOf(wall) \notin f.hour
            THEN IF LaterHours(f, wall) = {} THEN NextMidnight(wall)
                 ELSE DateOf(wall) * DayLen + Min(LaterHours(f, wall)) * HourLen
       ELSE IF LaterMinutes(f, wall) = {} THEN hour + HourLen
            ELSE hour + Min(LaterMinutes(f, wall))

\* Mutant of Trusted: a jump that lands on the wall time it aimed at is trusted.
TrustedLanding(zone, from, to, wall) == to > from /\ WallOf(zone, to) = wall
\* first_match_zone: a jump is trusted when as much time passed as on the wall, it
\* lands where it aimed at, and the offset is the same.
Trusted(zone, from, to, wall) ==
    /\ to > from /\ to - from = wall - WallOf(zone, from)
    /\ WallOf(zone, to) = wall /\ Offset(zone, to) = Offset(zone, from)

------------------------------------------------------------------------------
(* Intervals and single runs have closed forms.                               *)

\* interval_next_after: the first in phase with the anchor that is after the floor.
IntervalNextAfter(len, floor, anchor) ==
    IF anchor = <<>> THEN floor + len
    ELSE IF floor < anchor[1] THEN anchor[1]
    ELSE anchor[1] + ((floor - anchor[1]) \div len + 1) * len

IntervalDue(len, last, at, anchor) ==
    IF anchor = <<>> /\ last = <<>> THEN {at}
    ELSE LET floor == IF anchor = <<>> THEN last[1]
                      ELSE IF last # <<>> /\ last[1] > anchor[1] THEN last[1] ELSE anchor[1]
             first == IntervalNextAfter(len, floor, anchor)
         IN {t \in first..at : (t - first) % len = 0}
OnceDue(runAt, last, at) ==
    IF runAt <= at /\ (last = <<>> \/ last[1] < runAt) THEN {runAt} ELSE {}

\* The first so many of a set of instants, in order.
FirstHits(instants, n) ==
    LET kept == {t \in instants : Cardinality({u \in instants : u < t}) < n}
    IN [i \in 1..Cardinality(kept) |-> CHOOSE t \in kept : Cardinality({u \in kept : u < t}) = i - 1]

\* Where a scan begins: the last run, or a horizon back.
FloorOf(q) == IF q.last = <<>> THEN q.at - Horizon ELSE q.last[1]

------------------------------------------------------------------------------

Reject(e) ==
    /\ looking = "none" /\ ~ScheduleOk(e)
    /\ looking' = "invalid" /\ UNCHANGED <<plan, cursor, hits, cutOff, upcoming>>

\* schedule_occurrences begins a scan, after the last run or a horizon back.
PlanCron(e, zone, q) ==
    /\ looking = "none" /\ e.kind = "cron" /\ ScheduleOk(e)
    /\ plan' = [written |-> e, schedule |-> ParseSchedule(e, zone), asked |-> q]
    /\ looking' = "due" /\ cursor' = FloorOf(q) + 1
    /\ UNCHANGED <<hits, cutOff, upcoming>>

PlanClosed(e, zone, q) ==
    /\ looking = "none" /\ e.kind # "cron" /\ ScheduleOk(e)
    /\ LET s == ParseSchedule(e, zone)
           due == IF s.kind = "once" THEN OnceDue(s.runAt, q.last, q.at)
                  ELSE IntervalDue(s.len, q.last, q.at, q.anchor)
       IN /\ plan' = [written |-> e, schedule |-> s, asked |-> q]
          /\ hits' = FirstHits(due, ScanLimit) /\ cutOff' = (Cardinality(due) > ScanLimit)
          /\ upcoming' = IF s.kind = "interval" THEN <<IntervalNextAfter(s.len, q.at, q.anchor)>>
                         ELSE IF s.runAt > q.at THEN <<s.runAt>> ELSE <<>>
    /\ looking' = "done" /\ UNCHANGED cursor

\* The end of the scan: of what is due, and of what comes next.
ScanEnd == IF looking = "due" THEN plan.asked.at ELSE plan.asked.at + Horizon
WallNow == WallOf(plan.schedule.zone, cursor)
Matching == looking \in {"due", "next"} /\ cursor <= ScanEnd /\ Matches(plan.schedule.fields, WallNow)

\* What is due is taken, and the minute after is looked at (iter_occurrences).
TakeHit ==
    /\ Matching /\ looking = "due" /\ Len(hits) < ScanLimit
    /\ hits' = Append(hits, cursor) /\ cursor' = cursor + 1
    /\ UNCHANGED <<plan, looking, cutOff, upcoming>>

\* next_after begins where the plan stands, whatever was due.
LookAhead == looking' = "next" /\ cursor' = plan.asked.at + 1
CutOff ==
    /\ Matching /\ looking = "due" /\ Len(hits) = ScanLimit
    /\ cutOff' = TRUE /\ LookAhead /\ UNCHANGED <<plan, hits, upcoming>>
EndOfScan ==
    /\ looking \in {"due", "next"} /\ cursor > ScanEnd
    /\ IF looking = "due" THEN LookAhead ELSE looking' = "done" /\ UNCHANGED cursor
    /\ UNCHANGED <<plan, hits, cutOff, upcoming>>
TakeNext ==
    /\ Matching /\ looking = "next"
    /\ upcoming' = <<cursor>> /\ looking' = "done"
    /\ UNCHANGED <<plan, cursor, hits, cutOff>>

\* A jump, or a minute; of two instants the earlier is aimed at.
Advance ==
    /\ looking \in {"due", "next"} /\ cursor <= ScanEnd /\ ~Matching
    /\ LET zone == plan.schedule.zone
           target == NextCandidate(plan.schedule.fields, WallNow)
           landings == InstantsAt(zone, target)
       IN cursor' = IF landings # {} /\ Trusted(zone, cursor, Min(landings), target)
                    THEN Min(landings) ELSE cursor + 1
    /\ UNCHANGED <<plan, looking, hits, cutOff, upcoming>>

ScheduleNext ==
    \/ /\ looking = "none"
       /\ \E e \in Expressions, zone \in Zones, q \in Plannings :
             Reject(e) \/ PlanCron(e, zone, q) \/ PlanClosed(e, zone, q)
    \/ TakeHit \/ CutOff \/ EndOfScan \/ TakeNext \/ Advance

ScheduleSpec == ScheduleInit /\ [][ScheduleNext]_scheduleVars

------------------------------------------------------------------------------
\* No matching minute is jumped over, whatever the zone does in between: what was
\* found is every match so far, in order, up to the limit (schedule.rs: "so no
\* matching minute can be skipped").
MatchesIn(from, to) == {t \in from..to : Matches(plan.schedule.fields, WallOf(plan.schedule.zone, t))}
NoMinuteSkipped ==
    looking # "none" /\ looking # "invalid" /\ plan.schedule.kind = "cron" =>
      LET q == plan.asked
          due == MatchesIn(FloorOf(q) + 1, IF looking = "due" THEN cursor - 1 ELSE q.at)
      IN /\ hits = FirstHits(due, ScanLimit)
         /\ looking # "due" => cutOff = (Cardinality(due) > ScanLimit)
         /\ looking = "next" => MatchesIn(q.at + 1, cursor - 1) = {}
         /\ looking = "done" => upcoming = FirstHits(MatchesIn(q.at + 1, q.at + Horizon), 1)

\* An interval is due at whole multiples after its anchor, or after its last run
\* where it has none; each of them once, and the next of them is announced.  (One
\* whose anchor is ahead announces the anchor and is due a whole interval later,
\* and one without an anchor announces an interval from now.)
IntervalsPhased ==
    looking = "done" /\ plan.schedule.kind = "interval" =>
      LET q == plan.asked
          len == plan.schedule.len
          start == IF q.anchor # <<>> THEN q.anchor ELSE q.last
          after == IF q.last # <<>> /\ q.anchor # <<>> /\ q.last[1] > q.anchor[1] THEN q.last[1] ELSE start[1]
          phased == {t \in start[1]..(q.at + len) : t > after /\ (t - start[1]) % len = 0}
      IN start # <<>> =>
           /\ hits = FirstHits({t \in phased : t <= q.at}, ScanLimit)
           /\ q.anchor # <<>> /\ q.anchor[1] <= q.at /\ after <= q.at =>
                upcoming = FirstHits({t \in phased : t > q.at}, 1)

\* A single run in a time zone is due or announced once, and after it is run it is
\* neither.
OnceAtItsTime ==
    looking = "done" /\ plan.schedule.kind = "once" =>
      LET q == plan.asked
          runAt == plan.schedule.runAt
      IN /\ Len(hits) + Len(upcoming) <= 1
         /\ q.last # <<>> /\ q.last[1] >= runAt /\ q.last[1] <= q.at => hits = <<>> /\ upcoming = <<>>
         /\ q.last = <<>> => hits \o upcoming = <<runAt>>

\* What a field says in steps, it says from where it begins: every term means what
\* counting from its low end to its high end by its step reaches.
StepsCounted ==
    looking = "due" => \A i \in DOMAIN plan.written.minute :
       LET term == plan.written.minute[i]
           values == TermValues(term, 0, HourLen - 1)
       IN /\ Min(values) = Low(term, 0)
          /\ \A v \in values : term.step > 0 /\ v + term.step <= High(term, HourLen - 1) =>
                v + term.step \in values

ScheduleSound == NoMinuteSkipped /\ IntervalsPhased /\ OnceAtItsTime /\ StepsCounted
=============================================================================
