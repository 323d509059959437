--------------------------- MODULE SchedulePeriods ---------------------------
(***************************************************************************)
(* The charging profile _build_charging_schedule_payload makes of a        *)
(* schedule: a list of <<start, limit>> periods repeated every day or every*)
(* week in UTC, from a local start time, a local end time and a set of     *)
(* days.  A period lasts until the next one starts; limit 0 means that the *)
(* charger may not charge.                                                 *)
(*                                                                         *)
(* Time is counted in ticks of which a day has DayLength.  The local zone  *)
(* is a fixed offset for the whole computation, as                         *)
(* datetime.now().astimezone().tzinfo is.                                  *)
(***************************************************************************)
EXTENDS Integers, Sequences, SequencesExt

CONSTANTS
  Days,       \* length of the week
  DayLength,  \* ticks in a day
  Offsets,    \* offsets of the local zone, in ticks east of UTC
  Limit       \* current_a

ASSUME PeriodAssumption ==
  /\ Days \in Nat \ {0} /\ DayLength \in Nat \ {0} /\ Limit \in Nat \ {0}
  /\ Offsets \subseteq -(DayLength - 1)..(DayLength - 1)

VARIABLES
  request,  \* the schedule, and the zone the computation finds itself in
  periods   \* chargingSchedulePeriod, empty until it has been built

periodsVars == <<request, periods>>

Day  == 0..(Days - 1)
Time == 0..(DayLength - 1)

\* All days selected, or none, is a daily schedule.
Daily(r) == r.days = Day
Cycle(r) == IF Daily(r) THEN DayLength ELSE Days * DayLength

-----------------------------------------------------------------------------
\* An end that is not after the start is on the next day.
Duration(r) ==
  IF r.end <= r.start THEN r.end + DayLength - r.start ELSE r.end - r.start

\* Offset of the window of day d from the anchor, which is midnight in UTC.
StartOffset(r, d) == d * DayLength + r.start - r.offset

\* Mutant: the part of the window before the wrap is forgotten.
CircularIntervalOneSided(start, duration, cycle) ==
  LET s == start % cycle
      e == (s + duration) % cycle
  IN IF duration >= cycle THEN << <<0, cycle>> >>
     ELSE IF s < e THEN << <<s, e>> >>
     ELSE << <<0, e>> >>

\* _add_circular_schedule_interval
CircularInterval(start, duration, cycle) ==
  LET s == start % cycle
      e == (s + duration) % cycle
  IN IF duration >= cycle THEN << <<0, cycle>> >>
     ELSE IF s < e THEN << <<s, e>> >>
     ELSE << <<0, e>>, <<s, cycle>> >>

\* The windows in the order of their days; a daily schedule has one.
Intervals(r) ==
  LET Window(d) == CircularInterval(StartOffset(r, d), Duration(r), Cycle(r))
  IN IF Daily(r) THEN Window(0)
     ELSE FoldLeft(LAMBDA acc, d : IF d \in r.days THEN acc \o Window(d) ELSE acc,
                   <<>>, [n \in 1..Days |-> n - 1])

\* Pairs are sorted by their first components, then by their second ones.
Before(x, y) == x[1] < y[1] \/ (x[1] = y[1] /\ x[2] < y[2])

\* How many of the pairs of s, which is sorted, come before x.
Rank(s, x) == CHOOSE k \in 0..Len(s) :
  /\ k > 0 => ~Before(x, s[k])
  /\ k < Len(s) => ~Before(s[k + 1], x)

Sorted(s) == FoldLeft(LAMBDA acc, x : InsertAt(acc, Rank(acc, x) + 1, x), <<>>, s)

\* Intervals that overlap or touch become one.
Merge(merged, i) ==
  IF merged = <<>> \/ i[1] > Last(merged)[2] THEN Append(merged, i)
  ELSE Append(Front(merged),
              <<Last(merged)[1], IF i[2] > Last(merged)[2] THEN i[2]
                                                          ELSE Last(merged)[2]>>)

\* Mutant: the charger is not told to stop when the window ends.
EdgesWithoutEnd(acc, i, cycle) ==
  acc \o (IF i[1] > 0 \/ acc = <<>> THEN << <<i[1], Limit>> >> ELSE <<>>)

\* Where the charger may start and where it must stop.
Edges(acc, i, cycle) ==
  acc \o (IF i[1] > 0 \/ acc = <<>> THEN << <<i[1], Limit>> >> ELSE <<>>)
      \o (IF i[2] < cycle THEN << <<i[2], 0>> >> ELSE <<>>)

\* Of two periods with one start the later wins; a period that repeats the
\* limit in force is dropped.
Dedupe(acc, p) ==
  IF acc # <<>> /\ Last(acc)[1] = p[1] THEN Append(Front(acc), p)
  ELSE IF acc # <<>> /\ Last(acc)[2] = p[2] THEN acc
  ELSE Append(acc, p)

\* _schedule_periods_from_intervals
PeriodsFrom(intervals, cycle) ==
  LET merged  == FoldLeft(Merge, <<>>, Sorted(intervals))
      initial == IF merged[1][1] > 0 THEN << <<0, 0>> >> ELSE <<>>
      edges   == FoldLeft(LAMBDA acc, i : Edges(acc, i, cycle), initial, merged)
  IN FoldLeft(Dedupe, <<>>, Sorted(edges))

-----------------------------------------------------------------------------
PeriodsInit ==
  /\ request \in [days : (SUBSET Day) \ {{}}, start : Time, end : Time,
                  offset : Offsets]
  /\ periods = <<>>

Build ==
  /\ periods = <<>>
  /\ periods' = PeriodsFrom(Intervals(request), Cycle(request))
  /\ UNCHANGED request

PeriodsNext == Build

PeriodsSpec == PeriodsInit /\ [][PeriodsNext]_periodsVars

-----------------------------------------------------------------------------
(* Properties                                                              *)

\* What the user asked for, in local time: tick t of the cycle is in a window
\* that began today or, for a window past midnight, yesterday.
Asked(r, t) ==
  LET local == (t + r.offset) % (Days * DayLength)
      time  == local % DayLength
      today == local \div DayLength
      yesterday == (today + Days - 1) % Days
  IN IF r.start < r.end
     THEN today \in r.days /\ r.start <= time /\ time < r.end
     ELSE \/ today \in r.days /\ r.start <= time
          \/ yesterday \in r.days /\ time < r.end

\* The limit in force at tick t.
LimitAt(t) ==
  LET begun == {n \in DOMAIN periods : periods[n][1] <= t}
  IN periods[CHOOSE n \in begun : \A k \in begun : k <= n][2]

Built == periods # <<>>

\* No window ends exactly where the profile's day or week starts again.
EndsInsideCycle(r) ==
  \A d \in r.days : (StartOffset(r, d) + Duration(r)) % Cycle(r) # 0

\* The charger may charge whenever the user asked for it, across midnight, the
\* end of the week and the local offset.
WindowsNeverLost ==
  Built => \A t \in 0..(Cycle(request) - 1) :
             Asked(request, t) => LimitAt(t) = Limit

\* The charger may not charge outside the windows, provided none of them ends
\* with the cycle.
ClosedOutsideWindows ==
  Built /\ EndsInsideCycle(request) =>
    \A t \in 0..(Cycle(request) - 1) :
      ~Asked(request, t) => LimitAt(t) = 0

\* "Create time-based charging windows" (README.md:261): the charger may charge
\* inside the windows and nowhere else.
WindowsHonoured ==
  Built => \A t \in 0..(Cycle(request) - 1) :
             (LimitAt(t) = Limit) <=> Asked(request, t)
=============================================================================
