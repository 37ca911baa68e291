-------------------------- MODULE MCRetryAndSchedule --------------------------
(* Instances for TLC of what a collection does again and when: the controller with its retries, and
   how the times of a schedule become passes.  They share no state: a behaviour is one of the two. *)
EXTENDS MCCollectionRunner, PassSchedule

VARIABLE part

Unchanging == [change |-> 0, shift |-> 0]
Daily == [times |-> {1, 2}, dates |-> {}, daily |-> TRUE, until |-> 2, repeat |-> 1, zone |-> Unchanging]
OnDates == [Daily EXCEPT !.times = {0, 2}, !.dates = {0, 2}, !.daily = FALSE, !.until = 0]
MCSchedules ==
  { OnDates, [OnDates EXCEPT !.times = {0, 1, 2}, !.dates = {1}, !.repeat = 2],
    Daily, [Daily EXCEPT !.times = {1}, !.until = 0, !.repeat = 0], [Daily EXCEPT !.times = {0, 2}, !.until = 0, !.repeat = 3],
    [Daily EXCEPT !.zone = [change |-> 4, shift |-> 1]], [Daily EXCEPT !.zone = [change |-> 4, shift |-> -1]] }

ScheduleAtRest ==
  /\ schedule = Daily /\ now = 0 /\ passes = NoPasses /\ under_way = Nobody /\ stage = "none" /\ stops = 0
  /\ created = 0 /\ extended = 0 /\ lapsed = FALSE /\ strayed = {}

MCInit ==
  /\ Init
  /\ \/ part = "controller" /\ ScheduleAtRest
     \/ part = "schedule" /\ ScheduleInit

MCNext ==
  /\ UNCHANGED part
  /\ \/ part = "controller" /\ Next /\ UNCHANGED schedule_vars
     \/ part = "schedule" /\ ScheduleNext /\ UNCHANGED vars

MCSpec == MCInit /\ [][MCNext]_<<part, vars, schedule_vars>>
=============================================================================
