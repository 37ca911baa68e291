------------------------------ MODULE PassSchedule ------------------------------
(***************************************************************************)
(* When the passes of a collection run (cellular_scheduler.py and its      *)
(* callers in cellular_runner.py): the times an operator lists, on dates   *)
(* or every day, become passes, further days are added as time goes on, a  *)
(* pass whose time comes is due, delayed behind another one or missed, and *)
(* a missed one waits for the operator.  CollectionRunner takes a fixed    *)
(* set of passes through what happens inside each; here a pass is only     *)
(* under way or over, and the calendar, the local zone and its clock       *)
(* changes, pauses, sleep and restarts are what matters.                   *)
(***************************************************************************)
EXTENDS Integers, FiniteSets

CONSTANTS
  Schedules,    \* [times, dates, daily, until, repeat, zone]: times of a day, days; the zone changes after wall time
                \* zone.change by zone.shift ticks
  DayLength,    \* ticks of a day
  Horizon,      \* horizon_days, 14
  MissedAfter,  \* MISSED_AFTER_S, in ticks
  LastTick,     \* bound on the clock
  Interruptions \* bound on pauses and ends of the application, together

ASSUME ScheduleAssumption ==
  /\ {DayLength, Horizon, LastTick} \subseteq Nat \ {0} /\ {MissedAfter, Interruptions} \subseteq Nat
  /\ \A s \in Schedules :
       /\ s.times \in SUBSET (0 .. DayLength - 1) \ {{}} /\ s.daily \in BOOLEAN
       /\ s.dates \subseteq Nat /\ IsFiniteSet(s.dates)
       /\ {s.until, s.repeat, s.zone.change} \subseteq Nat
       /\ s.zone.shift \in Int /\ s.zone.shift <= s.zone.change  \* tick 0 is long before it

VARIABLES
  schedule,
  now,       \* UTC
  passes,    \* status of each pass, by its scheduled_utc
  under_way, \* the pass that is under way, or Nobody
  stage,     \* of the collection: "none", "active", "held" (paused by hand or by the backlog), "closed", "interrupted", "done"
  stops,
  created,   \* history: the day the collection was started
  extended,  \* history: the day the calendar was last read
  lapsed,    \* history: it was once read too late for the days before
  strayed    \* history: passes that came up at another time than theirs, by themselves

schedule_vars == <<schedule, now, passes, under_way, stage, stops, created, extended, lapsed, strayed>>

Nobody == -1
NoPasses == [t \in {} |-> "pending"]
Waits == {"pending", "due", "delayed"}
PassStatuses == Waits \cup {"running", "missed", "skipped", "over"}
Begun == {"due", "delayed", "running", "over"}

(* localize(): the UTC of a wall clock time; one that the clock skips is read in the old offset *)
Localized(s, wall) == IF wall <= s.zone.change THEN wall ELSE wall - s.zone.shift

(* now.astimezone(): the wall clock at a UTC *)
WallAt(s, utc) ==
  CHOOSE w \in 0 .. LastTick + DayLength :
    /\ Localized(s, w) <= utc
    /\ \A v \in w + 1 .. LastTick + DayLength : Localized(s, v) > utc
Today(s, utc) == WallAt(s, utc) \div DayLength

On(s, days) == {Localized(s, d * DayLength + t) : d \in days, t \in s.times}

(* all_planned() *)
DaysPlanned(s, at) ==
  IF s.daily THEN {d \in Today(s, at) .. Today(s, at) + Horizon : s.until = 0 \/ d <= s.until} ELSE s.dates
Planned(s, at) == On(s, DaysPlanned(s, at))

First(n, set) == {t \in set : Cardinality({u \in set : u < t}) < n}

(* _cap_rounds(): 0 and 1 mean every listed time *)
Capped(s, set) == IF s.repeat <= 1 THEN set ELSE First(s.repeat, set)

(* materialise_rounds(): passes that are known keep their state, one pass for one moment *)
Materialised(s, rs, at) ==
  [t \in Capped(s, DOMAIN rs \cup Planned(s, at)) |-> IF t \in DOMAIN rs THEN rs[t] ELSE "pending"]

(* Mutant: the look at the other pass comes before the look at the clock. *)
ClassifyBusyFirst(rs, at, busy) ==
  [t \in DOMAIN rs |->
     CASE rs[t] \notin Waits -> rs[t]
       [] rs[t] \in Waits /\ t > at -> "pending"
       [] rs[t] \in Waits /\ t <= at /\ busy -> "delayed"
       [] rs[t] = "pending" /\ t <= at /\ ~busy /\ at - t > MissedAfter -> "missed"
       [] OTHER -> IF rs[t] = "delayed" THEN "delayed" ELSE "due"]

(* classify_pending() *)
ClassifyPending(rs, at, busy) ==
  [t \in DOMAIN rs |->
     CASE rs[t] \notin Waits -> rs[t]
       [] rs[t] \in Waits /\ t > at -> "pending"
       [] rs[t] = "pending" /\ t <= at /\ at - t > MissedAfter -> "missed"
       [] OTHER -> IF busy \/ rs[t] = "delayed" THEN "delayed" ELSE "due"]

(* next_due() *)
DueOf(rs) == {t \in DOMAIN rs : rs[t] \in {"due", "delayed"}}
EarliestDue(rs) == CHOOSE t \in DueOf(rs) : \A u \in DueOf(rs) : t <= u

(* _mark_missed_while_closed(): no grace *)
MissedWhileClosed(rs) == [t \in DOMAIN rs |-> IF rs[t] \in Waits /\ t <= now THEN "missed" ELSE rs[t]]

Begins(rs, t) == rs[t] \in Begun /\ (t \notin DOMAIN passes \/ passes[t] \notin Begun)
Has(rs, pass, is, commanded) ==
  /\ passes' = rs /\ under_way' = pass /\ stage' = is
  /\ strayed' = strayed \cup
       {t \in DOMAIN rs \ commanded : Begins(rs, t) /\ ~(t <= now /\ now - t <= MissedAfter)}

(* _extend_schedule(): the calendar is read on unless all passes of a counted schedule are there *)
Extends(s, rs) == s.daily /\ ~(s.repeat > 1 /\ Cardinality(DOMAIN rs) >= s.repeat)

(* _tick() of a collection whose current pass is `pass` *)
TickOn(s, rs, pass, commanded) ==
  LET more == IF pass = Nobody /\ Extends(s, rs) THEN Materialised(s, rs, now) ELSE rs
      judged == ClassifyPending(more, now, pass # Nobody)
  IN CASE pass # Nobody -> Has(judged, pass, "active", commanded)
       [] pass = Nobody /\ DueOf(judged) # {} ->
            Has([judged EXCEPT ![EarliestDue(judged)] = "running"], EarliestDue(judged), "active", commanded)
       [] OTHER -> Has(judged, Nobody, IF \E t \in DOMAIN judged : judged[t] \in {"pending", "missed"} THEN "active" ELSE "done", commanded)

ReadsCalendar(s, rs, pass) ==
  IF pass = Nobody /\ Extends(s, rs)
  THEN extended' = Today(s, now) /\ lapsed' = (lapsed \/ Today(s, now) > extended + Horizon + 1)
  ELSE UNCHANGED <<extended, lapsed>>

ScheduleInit ==
  /\ schedule \in Schedules /\ now \in 0 .. DayLength - 1
  /\ passes = NoPasses /\ under_way = Nobody /\ stage = "none" /\ stops = 0
  /\ created = 0 /\ extended = 0 /\ lapsed = FALSE /\ strayed = {}

(* start_session(), which ticks at once *)
StartSchedule ==
  LET first == Materialised(schedule, NoPasses, now)
  IN /\ stage = "none" /\ first # NoPasses
     /\ TickOn(schedule, ClassifyPending(first, now, FALSE), Nobody, {})
     /\ created' = Today(schedule, now) /\ extended' = created'
     /\ UNCHANGED <<schedule, now, stops, lapsed>>

ScheduleTick ==
  /\ stage = "active" /\ TickOn(schedule, passes, under_way, {}) /\ ReadsCalendar(schedule, passes, under_way)
  /\ UNCHANGED <<schedule, now, stops, created>>

(* _finish_round() *)
PassOver ==
  /\ stage = "active" /\ under_way # Nobody
  /\ Has([passes EXCEPT ![under_way] = "over"], Nobody, "active", {})
  /\ UNCHANGED <<schedule, now, stops, created, extended, lapsed>>

(* pause(), a backlog of downloads: the timer goes on and reads nothing of the schedule. *)
Hold ==
  /\ stage = "active" /\ stops < Interruptions /\ stops' = stops + 1 /\ stage' = "held"
  /\ UNCHANGED <<schedule, now, passes, under_way, created, extended, lapsed, strayed>>

GoOn ==
  /\ stage = "held" /\ TickOn(schedule, passes, under_way, {}) /\ ReadsCalendar(schedule, passes, under_way)
  /\ UNCHANGED <<schedule, now, stops, created>>

CloseSchedule ==
  /\ stage \in {"active", "held", "interrupted"} /\ stops < Interruptions /\ stops' = stops + 1
  /\ stage' = "closed"
  /\ UNCHANGED <<schedule, now, passes, under_way, created, extended, lapsed, strayed>>

(* __init__() *)
Reopen ==
  /\ stage = "closed" /\ Has(MissedWhileClosed(passes), under_way, "interrupted", {})
  /\ UNCHANGED <<schedule, now, stops, created, extended, lapsed>>

(* resume_after_restart(): the interrupted pass goes on, or is over if no row of it is left. *)
ContinueSchedule(left) ==
  LET marked == MissedWhileClosed(passes)
      pass == IF left THEN under_way ELSE Nobody
      closed == IF pass = under_way THEN marked ELSE [marked EXCEPT ![under_way] = "over"]
  IN
  /\ stage = "interrupted" /\ (left \/ under_way # Nobody)
  /\ TickOn(schedule, closed, pass, {}) /\ ReadsCalendar(schedule, closed, pass)
  /\ UNCHANGED <<schedule, now, stops, created>>

(* run_missed_round(): continues an interrupted collection first, unless a pass of it is under way *)
RunMissedRound(t) ==
  LET before == IF stage = "interrupted" THEN MissedWhileClosed(passes) ELSE passes
  IN /\ t \in DOMAIN passes /\ passes[t] = "missed" /\ stage \in {"active", "held", "interrupted"}
     /\ ~(stage = "interrupted" /\ under_way # Nobody)
     /\ IF stage = "held" THEN Has([before EXCEPT ![t] = "due"], under_way, "held", {t}) /\ UNCHANGED <<extended, lapsed>>
        ELSE TickOn(schedule, [before EXCEPT ![t] = "due"], under_way, {t}) /\ ReadsCalendar(schedule, passes, under_way)
     /\ UNCHANGED <<schedule, now, stops, created>>

(* skip_missed_round() *)
SkipMissedRound(t) ==
  /\ t \in DOMAIN passes /\ passes[t] = "missed" /\ stage \in {"active", "held", "interrupted"}
  /\ passes' = [passes EXCEPT ![t] = "skipped"]
  /\ UNCHANGED <<schedule, now, under_way, stage, stops, created, extended, lapsed, strayed>>

(* Time passes, whether the timer ticks meanwhile or the computer sleeps. *)
ClockGoes ==
  /\ now < LastTick /\ now' = now + 1 /\ stage # "none"
  /\ UNCHANGED <<schedule, passes, under_way, stage, stops, created, extended, lapsed, strayed>>

(* _finish_session(): nothing is left to wait for *)
ScheduleRests == stage = "done" /\ UNCHANGED schedule_vars

ScheduleNext ==
  \/ StartSchedule \/ ScheduleTick \/ PassOver \/ Hold \/ GoOn \/ CloseSchedule \/ Reopen
  \/ \E left \in BOOLEAN : ContinueSchedule(left)
  \/ \E t \in DOMAIN passes : RunMissedRound(t) \/ SkipMissedRound(t)
  \/ ClockGoes \/ ScheduleRests

ScheduleSpec == ScheduleInit /\ [][ScheduleNext]_schedule_vars

-----------------------------------------------------------------------------
ScheduleTypeOK ==
  /\ DOMAIN passes \subseteq Nat
  /\ \A t \in DOMAIN passes : passes[t] \in PassStatuses
  /\ under_way \in DOMAIN passes \cup {Nobody}
  /\ stage \in {"none", "active", "held", "closed", "interrupted", "done"}

(* "it is never performed at a different hour on its own": a pass that begins without the
   operator was found due within the grace after its time (cellular_scheduler.py:3).      *)
NeverAtAnotherHour == strayed = {}

(* Rounds "are never dropped silently": every listed time, of the days from the first on as far as the
   calendar was read, has its pass, unless the collection has as many as were asked for, which are the
   first; and no collection ends before all of its times.  Not so when the calendar of a daily
   schedule was read too late.                                                                         *)
Listed ==
  IF schedule.daily
  THEN On(schedule, {d \in created .. extended + Horizon :
                       schedule.until = 0 \/ d <= schedule.until})
  ELSE On(schedule, schedule.dates)
NoneDropped ==
  stage # "none" /\ ~lapsed =>
    /\ DOMAIN passes = IF schedule.repeat > 1 THEN First(schedule.repeat, Listed) ELSE Listed
    /\ stage = "done" => \A t \in Listed : t <= now \/ schedule.repeat > 1

(* The passes of a collection are those that were listed, each at its time or at the operator's word. *)
PassesAreScheduled == ScheduleTypeOK /\ NeverAtAnotherHour /\ NoneDropped
=============================================================================
