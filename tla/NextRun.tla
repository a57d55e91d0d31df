-------------------------------- MODULE NextRun --------------------------------
(***************************************************************************)
(* When a recurring schedule runs next                                     *)
(* (src/utils/compute-next-run.util.js), for the frequencies daily, weekly *)
(* and monthly. An instant is a number of hours since an epoch whose first *)
(* day is a Sunday; a zone shows an instant as a local number of hours. A  *)
(* zone may put its clock forward and back once. The frequency custom_cron *)
(* is left to a library and not modelled.                                  *)
(***************************************************************************)
EXTENDS Integers, Sequences

CONSTANTS Zones,       \* records [std, dst, from, until]: offsets, summer time
          Recurrences, \* records [frequency, day, hours]
          Instants,    \* the instants at which a next run may be computed first
          MonthStart,  \* bound: the first day of each month that comes up, as day numbers
          MaxLate,     \* bound: hours a poller may be late
          MaxComputed  \* bound: next runs computed

\* Clocks are put forward by two hours at most.
ASSUME NextRunAssumption ==
    /\ Zones \subseteq [std : -12..14, dst : -12..16, from : Int, until : Int]
    /\ \A z \in Zones : z.dst \in z.std..(z.std + 2)
    /\ MonthStart \in Seq(Int)
    /\ \A m, n \in DOMAIN MonthStart : m < n => MonthStart[m] + 28 <= MonthStart[n]
    /\ \A s \in Recurrences : /\ s.frequency \in {"daily", "weekly", "monthly"}
                              /\ s.hours \in 0..23
                              /\ s.frequency = "weekly" => s.day \in 0..6
                              /\ s.frequency = "monthly" => s.day \in 1..31
    /\ Instants \subseteq Nat
    /\ MaxLate \in Nat /\ MaxComputed \in Nat

VARIABLES zone, schedule,
          after,    \* the instant given as "after"
          nextRun,  \* the next_run_at computed from it
          runs      \* next runs computed so far

nextRunVars == <<zone, schedule, after, nextRun, runs>>

-----------------------------------------------------------------------------

OffsetAt(z, t) == IF z.from <= t /\ t < z.until THEN z.dst ELSE z.std

\* getNowInTimezone: the local day of an instant.
Local(z, t) == t + OffsetAt(z, t)
LocalDay(z, t) == Local(z, t) \div 24

\* createDateInTimezone: the offset is looked up at the instant that UTC would
\* call by the same wall time.
InstantOf(z, day, hours) == LET wall == 24 * day + hours IN wall - OffsetAt(z, wall)

PastOnly(candidate, t) == candidate < t

\* "candidate <= now"
Past(candidate, t) == candidate <= t

ComputeDaily(z, s, t) ==
    LET today == InstantOf(z, LocalDay(z, t), s.hours)
    IN  IF Past(today, t) THEN InstantOf(z, LocalDay(z, t + 24), s.hours) ELSE today

\* The target day is looked up at noon UTC of the local date.
ComputeWeekly(z, s, t) ==
    LET day == LocalDay(z, t)
        target == 24 * (day + ((s.day - day) % 7)) + 12
        candidate == InstantOf(z, LocalDay(z, target), s.hours)
    IN  IF Past(candidate, t) THEN InstantOf(z, LocalDay(z, target + 7 * 24), s.hours)
        ELSE candidate

MonthOf(day) == CHOOSE m \in DOMAIN MonthStart :
                   /\ MonthStart[m] <= day
                   /\ m + 1 \in DOMAIN MonthStart => day < MonthStart[m + 1]

\* A day whose month and the following one are known.
InCalendar(day) == /\ MonthStart # <<>>
                   /\ MonthStart[1] <= day /\ day < MonthStart[Len(MonthStart)]

\* Days are capped at the 28th.
Capped(day) == IF day > 28 THEN 28 ELSE day

ComputeMonthly(z, s, t) ==
    LET month == MonthOf(LocalDay(z, t))
        In(m) == InstantOf(z, MonthStart[m] + Capped(s.day) - 1, s.hours)
    IN  IF Past(In(month), t) THEN In(month + 1) ELSE In(month)

ComputeNextRun(z, s, t) ==
    CASE s.frequency = "daily" -> ComputeDaily(z, s, t)
      [] s.frequency = "weekly" -> ComputeWeekly(z, s, t)
      [] s.frequency = "monthly" -> ComputeMonthly(z, s, t)

-----------------------------------------------------------------------------

NextRunInit ==
    /\ zone \in Zones
    /\ schedule \in Recurrences
    /\ after \in Instants
    /\ nextRun = 0
    /\ runs = 0

\* The first next run is computed when the schedule is made or resumed, each
\* further one when a poller has sent a run, some time after it was due.
ComputeRun(late) ==
    /\ runs < MaxComputed
    /\ runs' = runs + 1
    /\ after' = IF runs = 0 THEN after
                ELSE (IF nextRun > after THEN nextRun ELSE after) + late
    /\ InCalendar(LocalDay(zone, after'))
    /\ nextRun' = ComputeNextRun(zone, schedule, after')
    /\ UNCHANGED <<zone, schedule>>

NextRunNext == \E late \in 0..MaxLate : ComputeRun(late)

NextRunSpec == NextRunInit /\ [][NextRunNext]_nextRunVars

-----------------------------------------------------------------------------

\* The days a schedule runs on, and the first of its instants after t.
RunsOn(s, day) ==
    CASE s.frequency = "daily" -> TRUE
      [] s.frequency = "weekly" -> day % 7 = s.day
      [] s.frequency = "monthly" -> day - MonthStart[MonthOf(day)] + 1 = Capped(s.day)

Hits(z, s, t) == Local(z, t) % 24 = s.hours /\ RunsOn(s, LocalDay(z, t))

\* No clock is changed within two days of the interval.
NoClockChange(z, from, to) ==
    \A change \in {z.from, z.until} : change < from - 48 \/ to + 48 < change

WithinADay(change, t) == t - 24 <= change /\ change <= t + 24

\* However the clocks change, the next run lies after "now", or the poller would
\* send it again at once, unless they are put back within a day of "now" or, for a
\* monthly schedule, put forward; and away from clock changes, and west of UTC+12
\* for weekly schedules, it is the first instant after "now" at which the local
\* clock shows the day and the hour of the schedule
\* (src/utils/compute-next-run.util.js:16, 129-244).
NextRunIsTheFirst ==
    runs > 0 =>
      /\ \/ after < nextRun
         \/ WithinADay(zone.until, after)
         \/ schedule.frequency = "monthly" /\ WithinADay(zone.from, after)
      /\ /\ NoClockChange(zone, after, nextRun)
         /\ schedule.frequency = "weekly" => OffsetAt(zone, after) < 12
         => /\ after < nextRun
            /\ Hits(zone, schedule, nextRun)
            /\ \A t \in (after + 1)..(nextRun - 1) : ~Hits(zone, schedule, t)
=============================================================================
