---------------------------- MODULE BusinessHours ----------------------------
(***************************************************************************)
(* Deadlines in business hours (models/business_hours.go,                   *)
(* services/business_hours.go), on a small calendar: a day of four ticks, a *)
(* week of three days, a year of two weeks. The clocks of a time zone       *)
(* change once, by a tick or so.                                            *)
(***************************************************************************)
EXTENDS Integers, FiniteSets, SequencesExt

Nil == -1              \* no id, no figure, no deadline
Bad == -1              \* an hour that is no "HH:MM"
DayLength == 4
Week == 3
Year == 6
maxBusinessScanDays == 12
-----------------------------------------------------------------------------
(* Clocks. An instant is a tick of UTC; a clock reads a tick of its own.    *)

\* What the clocks of a zone read, which change at the instant zone.at.
Clock(zone, x) == x + (IF x < zone.at THEN zone.before ELSE zone.after)
DayOf(c) == c \div DayLength

\* The instants when they read c: one, none in a gap, two in a repeated hour.
Instants(zone, c) == {x \in {c - zone.before, c - zone.after} : Clock(zone, x) = c}

\* time.Date picks one of them, and in a gap an instant of either side.
Date(zone, c) ==
  LET xs == IF Instants(zone, c) = {} THEN {c - zone.before, c - zone.after} ELSE Instants(zone, c)
  IN  IF zone.late THEN Max(xs) ELSE Min(xs)

\* In a gap, the change that bounds either side is meant.
wallClock(zone, day, hour) ==
  LET c == day * DayLength + hour
      t == Date(zone, c)
  IN  IF Clock(zone, t) = c THEN t ELSE zone.at
-----------------------------------------------------------------------------
(* Opening windows.                                                         *)

dayBounds(d) == d.enabled /\ d.start \in 0..(DayLength - 1) /\ d.end \in 0..DayLength /\ d.start # d.end

matches(h, day) == IF h.recurring THEN h.date % Year = day % Year ELSE h.date = day

\* A day opens one window, or none; overnight if it ends before it starts.
Opens(bs, day) == dayBounds(bs.hours[day % Week]) /\ \A h \in bs.holidays : ~matches(h, day)
window(bs, day) ==
  LET d == bs.hours[day % Week]
      w == [start |-> wallClock(bs.zone, day, d.start),
            end |-> wallClock(bs.zone, IF d.end <= d.start THEN day + 1 ELSE day, d.end)]
  IN  IF Opens(bs, day) /\ w.start < w.end THEN {w} ELSE {}

hasOpenDay(bs) == \E k \in DOMAIN bs.hours : dayBounds(bs.hours[k])

IsWithinBusinessHours(bs, x) ==
  LET today == DayOf(Clock(bs.zone, x))
  IN  \E day \in {today - 1, today} : \E w \in window(bs, day) : w.start <= x /\ x < w.end

\* The scan takes its time out of one window after another.
Count(acc, w) ==
  LET start == IF acc.cursor > w.start THEN acc.cursor ELSE w.start
  IN  CASE acc.done \/ w.end <= acc.cursor -> acc
        [] acc.left <= w.end - start -> [acc EXCEPT !.done = TRUE, !.due = start + acc.left]
        [] OTHER -> [acc EXCEPT !.left = @ - (w.end - start), !.cursor = w.end]

\* The first day whose window may still be open.
firstDay(bs, from) == DayOf(Clock(bs.zone, from)) - 1

AddBusinessMinutes(bs, from, minutes) ==
  LET calendar == from + minutes
      scan == FoldLeft(LAMBDA acc, i : FoldSet(LAMBDA w, a : Count(a, w), acc, window(bs, firstDay(bs, from) + i - 1)),
                       [done |-> FALSE, due |-> calendar, left |-> minutes, cursor |-> from],
                       [i \in 1..maxBusinessScanDays |-> i])
  IN  CASE minutes <= 0 -> from
        [] ~hasOpenDay(bs) -> calendar
        [] OTHER -> scan.due
-----------------------------------------------------------------------------
(* The schedule of a policy and its deadlines. db: schedules by id, the     *)
(* schedules of departments, the policies; a target is Nil where the policy *)
(* has no figure.                                                           *)

Usable(db, id) == id # Nil /\ id \in DOMAIN db.schedules /\ db.schedules[id].active

DefaultSchedule(db) ==
  LET ids == {i \in DOMAIN db.schedules : db.schedules[i].default /\ db.schedules[i].active}
  IN  IF ids = {} THEN Nil ELSE Min(ids)

\* The policy's own schedule, else its department's, else the default one; Nil
\* is calendar time.
businessScheduleFor(db, policy, t) ==
  LET ofDept == IF t.department \in DOMAIN db.departments THEN db.departments[t.department] ELSE Nil
  IN  CASE ~policy.businessHours -> Nil
        [] Usable(db, policy.schedule) -> policy.schedule
        [] Usable(db, ofDept) -> ofDept
        [] OTHER -> DefaultSchedule(db)

slaDue(db, base, hours, id) == IF id = Nil THEN base + hours ELSE AddBusinessMinutes(db.schedules[id], base, hours)

setSLADeadlines(db, policy, t, base) ==
  LET id == businessScheduleFor(db, policy, t)
  IN  [t EXCEPT !.first = IF policy.first = Nil THEN @ ELSE slaDue(db, base, policy.first, id),
                !.resolution = IF policy.resolution = Nil THEN @ ELSE slaDue(db, base, policy.resolution, id)]
-----------------------------------------------------------------------------
(* What it means.                                                           *)

\* The clock on the wall says that a window is open.
ReadsOpen(bs, x) ==
  LET c == Clock(bs.zone, x)
      day == DayOf(c)
      hour == c % DayLength
      of(k) == bs.hours[k % Week]
      overnight(k) == of(k).end <= of(k).start
  IN  \/ Opens(bs, day) /\ of(day).start <= hour /\ (overnight(day) \/ hour < of(day).end)
      \/ Opens(bs, day - 1) /\ overnight(day - 1) /\ hour < of(day - 1).end

\* It is business time when the clock on the wall says so (in an hour that is
\* repeated one of the two may); and a deadline is the end of so many ticks of
\* business time, or of calendar time if the schedule has too few.
HoursSay(bs, from, minutes) ==
  LET due == AddBusinessMinutes(bs, from, minutes)
      business(until) == {x \in from..(until - 1) : IsWithinBusinessHours(bs, x)}
      far == from + (maxBusinessScanDays - 2) * DayLength
  IN  /\ \A x \in from..(from + 2 * DayLength) :
           Cardinality(Instants(bs.zone, Clock(bs.zone, x))) = 1 => (IsWithinBusinessHours(bs, x) <=> ReadsOpen(bs, x))
      /\ minutes <= 0 => due = from
      /\ minutes > 0 =>
           IF Cardinality(business(far)) >= minutes
           THEN Cardinality(business(due)) = minutes /\ IsWithinBusinessHours(bs, due - 1)
           ELSE due = from + minutes \/ Cardinality(business(due)) = minutes

\* A business deadline falls into the hours of the closest active schedule,
\* the policy's before the department's before a default one, when all have
\* hours; a shorter target is never due later, or any before it began; and what
\* the policy has no figure for stays.
DeadlinesSay(db, policy, t, base) ==
  LET u == setSLADeadlines(db, policy, t, base)
      active == {i \in DOMAIN db.schedules : db.schedules[i].active}
      distance(i) ==
        CASE i = policy.schedule -> 0
          [] t.department \in DOMAIN db.departments /\ i = db.departments[t.department] -> 1
          [] db.schedules[i].default -> 2
          [] OTHER -> 3
      closest == {i \in active : distance(i) < 3 /\ \A j \in active : distance(i) <= distance(j)}
      inHours(x) == \E i \in closest : IsWithinBusinessHours(db.schedules[i], x - 1)
  IN  /\ policy.first = Nil => u.first = t.first
      /\ policy.resolution = Nil => u.resolution = t.resolution
      /\ policy.first # Nil /\ policy.businessHours /\ closest # {} /\ (\A i \in active : hasOpenDay(db.schedules[i])) =>
           inHours(u.first)
      /\ policy.first # Nil /\ policy.resolution # Nil =>
           (policy.first <= policy.resolution => u.first <= u.resolution) /\ u.first >= base
=============================================================================
