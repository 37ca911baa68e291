-------------------------- MODULE CollectionRunner --------------------------
(***************************************************************************)
(* The collection controller of the CRFS IQ Recorder                       *)
(* (cellular_runner.py, class CellularRunner): it records every row of a   *)
(* plan, pass after pass, one capture at a time, on a sensor it has        *)
(* reserved, and keeps a session file from which an interrupted collection *)
(* is continued after a restart.                                           *)
(*                                                                         *)
(* All handlers of the class run on the UI thread, one at a time, and call *)
(* each other synchronously (_tick -> _start_round -> _start_next_task     *)
(* ...).  Each helper below is therefore a function from one world to the  *)
(* next, the call of one handler by another is function application, and   *)
(* an action of the specification is one event of the UI thread's queue:   *)
(* a timer tick, an operator's command, the answer of a worker, the end of *)
(* a capture, or an event outside the program (time passes, the sensor     *)
(* receives a request, the application is closed or crashes).              *)
(***************************************************************************)
EXTENDS Integers, FiniteSets

CONSTANTS
  NRounds,      \* bound: passes the session may come to hold (all listed times in "times" mode)
  NRows,        \* bound: rows of the plan
  Mode,         \* Schedule.mode: "now" or "times"
  Repeat,       \* Schedule.repeat: passes of a "now" collection, 0 until stopped
  HasWait,      \* settings.wait_s > 0
  IdleRetries,  \* IDLE_RETRIES
  Outcomes,     \* how a capture may end: subset of AllOutcomes
  Answers,      \* what start_capture may answer: subset of AllAnswers
  Gates,        \* what the gates before a request may find: subset of AllGates
  Commands,     \* commands the operator gives: subset of AllCommands
  MaxCrashes,   \* bound: times the application is closed or crashes
  CrashPoints,  \* where it may: subset of AllCrashPoints
  MaxChecks,    \* bound: file checks (reconciliations) outstanding at once
  MaxAsks       \* bound: times a row is asked for, the pass itself included

AllOutcomes == {"confirmed", "partial", "not_sent", "sensor_error", "unknown"}
AllAnswers == {"started", "storage", "invalid", "other"}
AllGates == {"clear", "reading", "backlog", "no_room"}
AllCommands == {"pause", "stop", "stop_in_preflight", "retry", "retry_after_restart",
                "check", "skip", "run_missed", "skip_missed", "act_in_check", "manual"}
AllCrashPoints == {"quiet", "recording", "submit"}

ASSUME SizeAssumption ==
  /\ NRounds \in Nat \ {0}
  /\ NRows \in Nat \ {0}
  /\ IdleRetries \in Nat
  /\ MaxCrashes \in Nat
  /\ MaxChecks \in Nat
  /\ MaxAsks \in Nat

ASSUME ChoiceAssumption ==
  /\ Mode \in {"now", "times"}
  /\ Repeat \in Nat
  /\ HasWait \in BOOLEAN
  /\ Outcomes \subseteq AllOutcomes
  /\ Answers \subseteq AllAnswers
  /\ Gates \subseteq AllGates
  /\ Commands \subseteq AllCommands
  /\ CrashPoints \subseteq AllCrashPoints

Rounds == 1 .. NRounds
Rows == 1 .. NRows
Keys == Rounds \X Rows       \* a TaskState: <<its round, its row>>

None == <<0, 0>>             \* no task

(* Runner states, S_... *)
States == {"idle", "running", "waiting", "waiting_schedule", "pause_requested",
           "paused", "paused_backlog", "stop_requested", "interrupted", "done",
           "closed"}      \* "closed": the application is not running

(* Task states, T_...; "none": the pass has not started; "no_file": T_UNKNOWN with
   the reason "no file on the sensor"; "partial": T_CONFIRMED and short.           *)
Statuses == {"none", "queued", "submitting", "confirmed", "partial", "unknown",
             "no_file", "not_sent", "sensor_error", "skipped"}
Confirmed == {"confirmed", "partial"}
Uncertain == {"unknown", "no_file", "submitting"}
(* Mutant: a row whose outcome is unknown counts as failed. *)
RetryableOrUnknown == {"not_sent", "sensor_error", "no_file", "unknown"}

Retryable == {"not_sent", "sensor_error", "no_file"}

(* Round states, ROUND_...; "none": not materialised yet. *)
RoundStates == {"none", "pending", "due", "delayed", "running", "done", "partial",
                "failed", "missed", "skipped", "stopped"}
Finished == {"done", "partial", "failed", "skipped", "stopped"}
Open == {"pending", "due", "delayed"}

(* A pass's scheduled time against the clock: still ahead, passed, or passed by more
   than MISSED_AFTER_S.                                                            *)
Times == {"ahead", "passed", "late"}

-----------------------------------------------------------------------------
VARIABLES
  \* the session (SessionState) and what is left of it on disk
  state, current, rounds, tasks, attempts, recordOf,
  disk,
  \* the runner's own attributes
  inFlight, preflightDue, preflightPending, storageSettled, settlePending,
  idleCheck, idleRetries, downloadsOnly, timer,
  \* outstanding file checks: reconcile() and its worker
  checks,
  \* the main window: who holds the sensor, whether a manual recording runs, the capture
  owned, manual, capture,
  \* the world: the schedule's times, requests the sensor received, recordings it holds
  clock, posts, reached, recorded,
  \* history: crashes so far; times a row was asked for; what the operator last wanted
  \* ("go", "halt", or a "retry" of the rows asked); whether the running pass was checked since it started or the application did;
  \* passes whose time went by while nothing ran
  crashes, permits, wish, asked, checked, slept

vars == <<state, current, rounds, tasks, attempts, recordOf, disk, inFlight,
          preflightDue, preflightPending, storageSettled, settlePending, idleCheck,
          idleRetries, downloadsOnly, timer, checks, owned, manual, capture, clock, posts, reached,
          recorded, crashes, permits, wish, asked, checked, slept>>

-----------------------------------------------------------------------------
(***************************************************************************)
(* The world as the handlers see it, and the world a handler leaves.       *)
(***************************************************************************)
World ==
  [state |-> state, current |-> current, rounds |-> rounds, tasks |-> tasks,
   attempts |-> attempts, recordOf |-> recordOf, disk |-> disk,
   inFlight |-> inFlight, preflightDue |-> preflightDue,
   preflightPending |-> preflightPending, storageSettled |-> storageSettled,
   settlePending |-> settlePending, idleCheck |-> idleCheck,
   idleRetries |-> idleRetries, downloadsOnly |-> downloadsOnly,
   timer |-> timer, owned |-> owned, capture |-> capture, posts |-> posts, permits |-> permits,
   checked |-> checked]

(* The world is bound to a value first: TLC then computes it once for all variables. *)
Become(world) == \E w \in {world} :
  /\ state' = w.state /\ current' = w.current /\ rounds' = w.rounds
  /\ tasks' = w.tasks /\ attempts' = w.attempts /\ recordOf' = w.recordOf
  /\ disk' = w.disk /\ inFlight' = w.inFlight
  /\ preflightDue' = w.preflightDue /\ preflightPending' = w.preflightPending
  /\ storageSettled' = w.storageSettled /\ settlePending' = w.settlePending
  /\ idleCheck' = w.idleCheck /\ idleRetries' = w.idleRetries
  /\ downloadsOnly' = w.downloadsOnly /\ timer' = w.timer /\ owned' = w.owned
  /\ capture' = w.capture /\ posts' = w.posts /\ permits' = w.permits
  /\ checked' = w.checked

(* The session file: what to_dict() writes of the session and of the runner's state. *)
Session(w) ==
  [state |-> w.state, current |-> w.current, rounds |-> w.rounds,
   tasks |-> w.tasks, attempts |-> w.attempts, recordOf |-> w.recordOf]

Save(w) == [w EXCEPT !.disk = Session(w)]

NoCapture == [key |-> None, phase |-> "idle", outcome |-> "open"]

Active(w) == w.state \notin {"idle", "done", "interrupted", "closed"}

InPass(w) == w.current # 0

(* The rows of the running pass still to be recorded, and the first of them. *)
QueuedRows(w) == {k \in Rows : InPass(w) /\ w.tasks[<<w.current, k>>] = "queued"}
NextQueued(w) ==
  <<w.current, CHOOSE k \in QueuedRows(w) : \A j \in QueuedRows(w) : k <= j>>

UncertainKeys(w) == {t \in Keys : w.tasks[t] \in Uncertain}

-----------------------------------------------------------------------------
(***************************************************************************)
(* Passes (rounds)                                                         *)
(***************************************************************************)

(* classify_pending: due now, delayed behind a running pass, or missed. *)
Classified(status, time, busy) ==
  CASE status \notin Open -> status
    [] status \in Open /\ time = "ahead" -> "pending"
    [] status = "pending" /\ time = "late" -> "missed"
    [] OTHER -> IF busy \/ status = "delayed" THEN "delayed" ELSE "due"

Classify(w, busy) ==
  [w EXCEPT !.rounds = [i \in Rounds |-> Classified(w.rounds[i], clock[i], busy)]]

Due(w) == {i \in Rounds : w.rounds[i] \in {"due", "delayed"}}
NextDue(w) == CHOOSE i \in Due(w) : \A j \in Due(w) : i <= j
SomePending(w) == \E i \in Rounds : w.rounds[i] = "pending" /\ clock[i] = "ahead"
SomeMissed(w) == \E i \in Rounds : w.rounds[i] = "missed"

(* The status a pass ends with, from its rows. *)
Verdict(w, i) ==
  CASE \A k \in Rows : w.tasks[<<i, k>>] = "confirmed" -> "done"
    [] \A k \in Rows : w.tasks[<<i, k>>] \notin Confirmed -> "failed"
    [] OTHER -> "partial"

(* Mutant: off by one in the count of passes. *)
NextPassAfterOneTooMany(w) ==
  LET left == {i \in Rounds : w.rounds[i] = "none"}
      next == CHOOSE i \in left : \A j \in left : i <= j
      finished == Cardinality({i \in Rounds : w.rounds[i] \in Finished})
  IN  IF Mode = "now" /\ left # {} /\ (Repeat = 0 \/ finished <= Repeat)
        THEN [w EXCEPT !.rounds[next] = "pending"]
        ELSE w

(* _next_pass_after: in "now" mode a finished pass is followed by another one until
   Repeat passes are finished (the bound NRounds ends a collection without a count). *)
NextPassAfter(w) ==
  LET left == {i \in Rounds : w.rounds[i] = "none"}
      next == CHOOSE i \in left : \A j \in left : i <= j
      finished == Cardinality({i \in Rounds : w.rounds[i] \in Finished})
  IN  IF Mode = "now" /\ left # {} /\ (Repeat = 0 \/ finished < Repeat)
        THEN [w EXCEPT !.rounds[next] = "pending"]
        ELSE w

FinishRound(w, stopped) ==
  IF ~InPass(w) THEN w
  ELSE LET v == [w EXCEPT !.rounds[w.current] = IF stopped THEN "stopped"
                                                ELSE Verdict(w, w.current),
                          !.current = 0,
                          !.state = "waiting_schedule"]
       IN  Save(IF stopped THEN v ELSE NextPassAfter(v))

(* _finish_session: downloads that are left keep the timer, whose ticks then serve only
   them; downloads are not part of this module.                                     *)
FinishSession(w) ==
  [Save([w EXCEPT !.state = "done", !.timer = FALSE]) EXCEPT !.owned = FALSE]

Stopped(w) == FinishSession(FinishRound(w, TRUE))

-----------------------------------------------------------------------------
(***************************************************************************)
(* From one request to the next                                            *)
(***************************************************************************)

PausedNow(w) == Save([w EXCEPT !.state = "paused"])

BeginWait(w) == Save([w EXCEPT !.state = "waiting"])

(* _backlog_reason: too many downloads wait, or too little local space; with the next
   row's estimate the space may be short where it is not without it.               *)
Backlog(gate, planned) == gate = "backlog" \/ (planned /\ gate = "no_room")

(* _start_next_task: the gates before a request, in their order. *)
StartNextTask(w, gate) ==
  CASE w.inFlight -> w
    [] ~w.inFlight /\ w.state = "stop_requested" -> Stopped(w)
    [] ~w.inFlight /\ w.state = "pause_requested" -> PausedNow(w)
    [] OTHER ->
       IF QueuedRows(w) = {} THEN FinishRound(w, FALSE)
       ELSE IF w.preflightPending THEN w
       ELSE IF w.preflightDue THEN [w EXCEPT !.preflightPending = TRUE]
       ELSE IF Backlog(gate, TRUE) THEN Save([w EXCEPT !.state = "paused_backlog"])
       ELSE IF w.idleCheck # None \/ gate = "reading" THEN w
       ELSE IF ~w.storageSettled THEN [w EXCEPT !.settlePending = TRUE]
       ELSE [w EXCEPT !.idleCheck = NextQueued(w)]

(* Mutant: a Stop given during the last recording is overlooked. *)
AfterTaskForgetsStop(w, gate) ==
  CASE w.state = "pause_requested" -> PausedNow(w)
    [] OTHER ->
       IF QueuedRows(w) = {} THEN FinishRound(w, FALSE)
       ELSE IF HasWait THEN BeginWait(w)
       ELSE StartNextTask([w EXCEPT !.state = "running"], gate)

(* _after_task: what follows a row that ended, or was refused. *)
AfterTask(w, gate) ==
  CASE w.state = "stop_requested" -> Stopped(w)
    [] w.state = "pause_requested" -> PausedNow(w)
    [] OTHER ->
       IF QueuedRows(w) = {} THEN FinishRound(w, FALSE)
       ELSE IF HasWait THEN BeginWait(w)
       ELSE StartNextTask([w EXCEPT !.state = "running"], gate)

(* start_capture of the main window: a recording already runs, or what it answers. *)
HostBusy(w) == manual \/ w.capture.phase \in {"sent", "reached"}

(* Mutant: the row is marked in memory only; the session file is saved with the result. *)
SubmitWithoutSave(w, t, answer, gate) ==
  IF w.inFlight \/ HostBusy(w) THEN w
  ELSE IF answer = "started"
         THEN [w EXCEPT !.capture = [key |-> t, phase |-> "sent", outcome |-> "open"],
                        !.posts[t] = @ + 1,
                        !.inFlight = TRUE,
                        !.storageSettled = FALSE,
                        !.tasks[t] = "submitting",
                        !.attempts[t] = @ + 1]
         ELSE w

(* Mutant: a runner state (S_RUNNING) is written where a row's status belongs. *)
SubmitMixesStates(w, t, answer, gate) ==
  IF w.inFlight \/ HostBusy(w) THEN w
  ELSE Save([w EXCEPT !.inFlight = TRUE, !.tasks[t] = "running"])

(* _submit_task *)
Submit(w, t, answer, gate) ==
  IF w.inFlight \/ HostBusy(w) THEN w
  ELSE CASE answer = "storage" -> Save([w EXCEPT !.state = "paused_backlog"])
         [] answer = "invalid" ->
              AfterTask(Save([w EXCEPT !.tasks[t] = "not_sent",
                                       !.attempts[t] = @ + 1]), gate)
         [] answer = "other" -> PausedNow(w)
         [] answer = "started" ->
              Save([w EXCEPT !.capture = [key |-> t, phase |-> "sent", outcome |-> "open"],
                             !.posts[t] = @ + 1,
                             !.inFlight = TRUE,
                             !.storageSettled = FALSE,
                             !.tasks[t] = "submitting",
                             !.attempts[t] = @ + 1])

(* _start_round *)
StartRound(w, i, gate) ==
  LET v == [w EXCEPT !.rounds[i] = "running",
                     !.current = i,
                     !.tasks = [t \in Keys |-> IF t[1] = i THEN "queued" ELSE w.tasks[t]],
                     !.permits = [t \in Keys |-> IF t[1] = i THEN w.permits[t] + 1
                                                  ELSE w.permits[t]],
                     !.state = "running",
                     !.preflightDue = TRUE,
                     !.checked = FALSE]
  IN  StartNextTask(Save(v), gate)

(* _tick between two passes *)
TickBetweenPasses(w, gate) ==
  LET c == Classify(w, FALSE)
  IN  CASE Due(c) # {} -> StartRound(c, NextDue(c), gate)
        [] Due(c) = {} /\ ~SomePending(c) /\ ~SomeMissed(c) -> FinishSession(c)
        [] OTHER -> [c EXCEPT !.state = "waiting_schedule"]

(* _tick in a pass *)
TickInPass(w, gate, elapsed) ==
  LET c == Classify(w, TRUE)
  IN  CASE c.inFlight -> c
        [] ~c.inFlight /\ c.state = "waiting" ->
             IF elapsed THEN StartNextTask([c EXCEPT !.state = "running"], gate) ELSE c
        [] ~c.inFlight /\ c.state \in {"running", "pause_requested", "stop_requested"} ->
             StartNextTask(c, gate)
        [] OTHER -> c

(* _tick *)
Tick(w, gate, elapsed) ==
  LET caughtUp == [w EXCEPT !.state = IF InPass(w) THEN "running" ELSE "waiting_schedule"]
      v == IF w.state = "paused_backlog" THEN caughtUp ELSE w
  IN  CASE w.state \in {"idle", "done", "interrupted", "paused", "closed"} -> w
        [] w.state = "paused_backlog" /\ Backlog(gate, FALSE) -> w
        [] OTHER -> IF InPass(v) THEN TickInPass(v, gate, elapsed)
                                 ELSE TickBetweenPasses(v, gate)

-----------------------------------------------------------------------------
(***************************************************************************)
(* The end of a capture                                                    *)
(***************************************************************************)

(* Mutant: an unknown outcome is given a second attempt as well. *)
StatusAfterResendsUnknown(outcome, attempt) ==
  CASE outcome \in Confirmed -> outcome
    [] outcome \in {"not_sent", "unknown"} -> IF attempt <= 1 THEN "queued" ELSE outcome
    [] OTHER -> "sensor_error"

(* The status a row gets from the capture's summary; a request that provably never
   reached the sensor is queued once more (NOT_SENT_RETRIES = 1).                  *)
StatusAfter(outcome, attempt) ==
  CASE outcome \in Confirmed -> outcome
    [] outcome = "not_sent" -> IF attempt <= 1 THEN "queued" ELSE "not_sent"
    [] outcome = "sensor_error" -> "sensor_error"
    [] OTHER -> "unknown"

(* Mutant: the history record of an unconfirmed capture is not kept with the row. *)
OnCaptureFinishedForgetsRecord(w, gate) ==
  LET t == w.capture.key
      o == w.capture.outcome
  IN  AfterTask(Save([w EXCEPT !.inFlight = FALSE,
                               !.capture = NoCapture,
                               !.recordOf[t] = IF o \in Confirmed THEN w.posts[t] ELSE @,
                               !.tasks[t] = StatusAfter(o, w.attempts[t])]), gate)

(* on_capture_finished: the queued capture_finished signal is delivered. *)
OnCaptureFinished(w, gate) ==
  LET t == w.capture.key
      o == w.capture.outcome
  IN  AfterTask(Save([w EXCEPT !.inFlight = FALSE,
                               !.capture = NoCapture,
                               !.recordOf[t] = IF o = "not_sent" THEN @ ELSE w.posts[t],
                               !.tasks[t] = StatusAfter(o, w.attempts[t])]), gate)

-----------------------------------------------------------------------------
(***************************************************************************)
(* Answers of the workers                                                  *)
(***************************************************************************)
MayGoOn(w) == w.state \in {"running", "pause_requested", "stop_requested"} /\ ~w.inFlight

(* apply() of _begin_preflight *)
OnPreflight(w, blocking, gate) ==
  LET answered == [w EXCEPT !.preflightPending = FALSE]
      passed == Save([answered EXCEPT !.preflightDue = FALSE, !.checked = TRUE])
  IN  CASE blocking -> PausedNow([answered EXCEPT !.preflightDue = TRUE])
        [] ~blocking /\ MayGoOn(passed) -> StartNextTask(passed, gate)
        [] OTHER -> passed

(* Mutant: the answer does not release the request it was asked for. *)
OnStorageSettledForgets(w, gate) ==
  LET v == [w EXCEPT !.settlePending = FALSE]
  IN  IF MayGoOn(v) THEN StartNextTask(v, gate) ELSE v

(* apply() of _begin_storage_settle *)
OnStorageSettled(w, gate) ==
  LET v == [w EXCEPT !.settlePending = FALSE, !.storageSettled = TRUE]
  IN  IF MayGoOn(v) THEN StartNextTask(v, gate) ELSE v

(* Mutant: the state is not looked at again when the answer arrives. *)
OnIdleResultIgnoresPause(w, idle, answer, gate) ==
  LET t == w.idleCheck
      v == [w EXCEPT !.idleCheck = None]
      stale == v.inFlight \/ v.tasks[t] # "queued" \/ v.current # t[1]
  IN  IF stale \/ ~idle THEN v ELSE Submit(v, t, answer, gate)

(* on_result() of the idle check in _start_next_task *)
OnIdleResult(w, idle, answer, gate) ==
  LET t == w.idleCheck
      v == [w EXCEPT !.idleCheck = None]
      stale == v.inFlight \/ v.tasks[t] # "queued" \/ v.current # t[1]
      busy == [v EXCEPT !.idleRetries = @ + 1]
  IN  CASE stale \/ ~MayGoOn(v) -> v
        [] ~stale /\ v.state \in {"pause_requested", "stop_requested"} -> StartNextTask(v, gate)
        [] ~stale /\ v.state = "running" /\ ~idle ->
             IF busy.idleRetries > IdleRetries THEN PausedNow(busy) ELSE BeginWait(busy)
        [] OTHER -> Submit([v EXCEPT !.idleRetries = 0], t, answer, gate)

-----------------------------------------------------------------------------
(***************************************************************************)
(* Commands of the operator                                                *)
(***************************************************************************)

(* set_external_owner: refused while a manual recording runs. *)
CanReserve == ~manual

(* pause *)
Pause(w) ==
  CASE w.state = "running" -> Save([w EXCEPT !.state = "pause_requested"])
    [] w.state \in {"waiting", "waiting_schedule", "paused_backlog"} -> PausedNow(w)
    [] OTHER -> Save(w)

(* resume; a pass with a recorded row first waits again *)
Resume(w, gate, elapsed) ==
  LET begun == \E k \in Rows : InPass(w) /\ w.tasks[<<w.current, k>>] # "queued"
  IN  CASE w.state = "pause_requested" ->
             Tick(Save([w EXCEPT !.state = "running"]), gate, elapsed)
        [] w.state \in {"paused", "paused_backlog"} ->
             Tick(Save([w EXCEPT !.state = CASE ~InPass(w) -> "waiting_schedule"
                                             [] InPass(w) /\ HasWait /\ begun -> "waiting"
                                             [] OTHER -> "running"]), gate, elapsed)
        [] OTHER -> Tick(Save(w), gate, elapsed)

(* Mutant: Stop ends the session at once, also during a recording. *)
StopAtOnce(w) == Stopped(w)

(* stop *)
Stop(w) ==
  IF w.inFlight THEN Save([w EXCEPT !.state = "stop_requested"]) ELSE Stopped(w)

(* start_session *)
StartSession(w, gate, elapsed) ==
  LET first == [i \in Rounds |-> CASE Mode = "times" -> "pending"
                                   [] Mode = "now" /\ i = 1 -> "due"
                                   [] OTHER -> "none"]
      v == [w EXCEPT !.rounds = first,
                     !.owned = TRUE,
                     !.timer = TRUE,
                     !.state = "waiting_schedule"]
  IN  Tick(Save(IF Mode = "times" THEN Classify(v, FALSE) ELSE v), gate, elapsed)

(* retryable_tasks *)
RetryableKeys(w, i) == {t \in Keys : t[1] = i /\ w.tasks[t] \in Retryable}

(* _retry: the failed rows of a pass are queued again and the pass runs once more. *)
AtRest(w) == w.state \in {"done", "interrupted", "idle"}

RetryRefused(w, i) ==
  \/ RetryableKeys(w, i) = {}
  \/ w.current \notin {0, i}
  \/ AtRest(w) /\ ~CanReserve

Retry(w, i, gate, elapsed) ==
  LET keys == RetryableKeys(w, i)
      v == [w EXCEPT !.tasks = [t \in Keys |-> IF t \in keys THEN "queued" ELSE w.tasks[t]],
                     !.permits = [t \in Keys |-> IF t \in keys THEN w.permits[t] + 1
                                                  ELSE w.permits[t]],
                     !.rounds[i] = IF InPass(w) THEN @ ELSE "running",
                     !.current = i,
                     !.owned = @ \/ AtRest(w),
                     !.timer = @ \/ AtRest(w),
                     !.state = IF AtRest(w) THEN "running" ELSE @]
  IN  IF RetryRefused(w, i) THEN w ELSE Tick(Save(v), gate, elapsed)

(* _last_round_id: the running pass, else the last one that has rows. *)
LastRound(w) ==
  LET begun == {i \in Rounds : w.tasks[<<i, 1>>] # "none"}
  IN  IF InPass(w) THEN w.current
      ELSE IF begun = {} THEN 0
      ELSE CHOOSE i \in begun : \A j \in begun : j <= i

(* _recount_finished_rounds *)
Recount(w) ==
  [w EXCEPT !.rounds = [i \in Rounds |->
     IF i # w.current /\ w.rounds[i] \in {"done", "partial", "failed"}
       THEN Verdict(w, i) ELSE w.rounds[i]]]

(* apply() of _reconcile_files: `wanted` are the rows that were uncertain when the
   listing began, with the request their record names; `verdict` what the files found
   amount to (a whole recording or a short one).                                   *)
OnFilesChecked(w, wanted, verdict) ==
  LET found(t) == \E n \in recorded[t] : <<t, n>> \in wanted
      v == [w EXCEPT !.tasks = [t \in Keys |->
              CASE t \notin UncertainKeys(w) -> w.tasks[t]
                [] t \in UncertainKeys(w) /\ found(t) -> verdict
                [] OTHER -> "no_file"]]
  IN  Save(Recount(v))

(* _skip_uncertain of the panel calls skip_task for each uncertain row, looking it up in
   the running pass when there is one; a confirmed row is left alone.                *)
SkipUncertain(w) ==
  LET meant == {IF InPass(w) THEN <<w.current, t[2]>> ELSE t : t \in UncertainKeys(w)}
      skipped == {t \in meant : w.tasks[t] \notin Confirmed \cup {"none"}}
      v == [w EXCEPT !.tasks = [t \in Keys |-> IF t \in skipped THEN "skipped" ELSE w.tasks[t]]]
  IN  IF skipped = {} THEN w ELSE Save(v)

(* Mutant: the grace of a running application is applied to a closed one. *)
MarkMissedAfterGrace(w) ==
  [w EXCEPT !.rounds = [i \in Rounds |->
     IF w.rounds[i] \in Open /\ clock[i] = "late" THEN "missed" ELSE w.rounds[i]]]

(* _mark_missed_while_closed *)
MarkMissed(w) ==
  [w EXCEPT !.rounds = [i \in Rounds |->
     IF w.rounds[i] \in Open /\ clock[i] # "ahead" THEN "missed" ELSE w.rounds[i]]]

(* resume_after_restart ("Continue") refuses with an uncertain row, and without the
   sensor; a finished collection with downloads left only downloads them.          *)
CanContinue(w) == w.downloadsOnly \/ (UncertainKeys(w) = {} /\ CanReserve)

(* Mutant: Continue closes the interrupted pass whether or not rows are left. *)
ContinueClosesPass(w, gate, elapsed) ==
  LET marked == MarkMissed([w EXCEPT !.owned = TRUE, !.timer = TRUE, !.inFlight = FALSE])
  IN  Tick(Save(FinishRound(marked, FALSE)), gate, elapsed)

Continue(w, gate, elapsed) ==
  LET marked == MarkMissed([w EXCEPT !.owned = TRUE, !.timer = TRUE, !.inFlight = FALSE])
      on == [marked EXCEPT !.state = IF InPass(w) THEN "running" ELSE "waiting_schedule",
                           !.preflightDue = InPass(w)]
  IN  CASE w.downloadsOnly -> Save([w EXCEPT !.downloadsOnly = FALSE, !.state = "done"])
        [] ~w.downloadsOnly /\ InPass(w) /\ QueuedRows(w) = {} ->
             Tick(Save(FinishRound(marked, FALSE)), gate, elapsed)
        [] OTHER -> Tick(Save(on), gate, elapsed)

(* run_missed_round: a missed pass is due again; an interrupted collection first
   continues, a finished one takes the sensor again.                               *)
RunMissed(w, i, gate, elapsed) ==
  LET continued == IF w.state = "interrupted" THEN Continue(w, gate, elapsed) ELSE w
      rested == continued.state \in {"done", "idle"}
      v == [continued EXCEPT !.rounds[i] = "due",
                             !.owned = @ \/ rested,
                             !.timer = @ \/ rested,
                             !.state = IF rested THEN "waiting_schedule" ELSE @]
  IN  IF rested /\ ~CanReserve THEN continued ELSE Tick(Save(v), gate, elapsed)

SkipMissed(w, i) == Save([w EXCEPT !.rounds[i] = "skipped"])

(* Mutant: a row that was being recorded when the application ended is queued again. *)
LoadedRequeues(w, unfinished) ==
  [w EXCEPT !.state = "interrupted",
            !.tasks = [t \in Keys |-> IF w.tasks[t] = "submitting" THEN "queued"
                                       ELSE w.tasks[t]]]

(* __init__: what the session file says the collection was doing. *)
Loaded(w, unfinished) ==
  LET done == w.disk.state = "done"
      v == [w EXCEPT !.state = IF done /\ ~unfinished THEN "done" ELSE "interrupted",
                     !.downloadsOnly = done /\ unfinished]
  IN  IF done THEN v ELSE MarkMissed(v)

-----------------------------------------------------------------------------
(***************************************************************************)
(* The specification: one action per event                                 *)
(***************************************************************************)
NoCheck == [phase |-> "none", retry |-> 0, wanted |-> {}]
NoSession ==
  [state |-> "idle", current |-> 0, rounds |-> [i \in Rounds |-> "none"],
   tasks |-> [t \in Keys |-> "none"], attempts |-> [t \in Keys |-> 0],
   recordOf |-> [t \in Keys |-> 0]]

Init ==
  /\ state = "idle"
  /\ current = 0
  /\ rounds = NoSession.rounds
  /\ tasks = NoSession.tasks
  /\ attempts = NoSession.attempts
  /\ recordOf = NoSession.recordOf
  /\ disk = NoSession
  /\ inFlight = FALSE /\ preflightDue = FALSE /\ preflightPending = FALSE
  /\ storageSettled = FALSE /\ settlePending = FALSE
  /\ idleCheck = None /\ idleRetries = 0 /\ downloadsOnly = FALSE /\ timer = FALSE
  /\ checks = [c \in 1 .. MaxChecks |-> NoCheck]
  /\ owned = FALSE /\ manual = FALSE /\ capture = NoCapture
  /\ clock = [i \in Rounds |-> IF Mode = "now" /\ i = 1 THEN "passed" ELSE "ahead"]
  /\ posts = [t \in Keys |-> 0]
  /\ reached = [t \in Keys |-> 0]
  /\ recorded = [t \in Keys |-> {}]
  /\ crashes = 0
  /\ permits = [t \in Keys |-> 0]
  /\ wish = "halt" /\ asked = {} /\ checked = FALSE /\ slept = {}

Up == state # "closed"
session == <<state, current, rounds, tasks, attempts, recordOf>>
attributes == <<inFlight, preflightDue, preflightPending, storageSettled,
                settlePending, idleCheck, idleRetries, downloadsOnly, timer>>
outside == <<manual, clock, reached, recorded, crashes>>
history == <<wish, asked, slept>>

(* Events of the program itself *)
TimerTick(gate, elapsed) ==
  /\ Up /\ timer
  /\ Become(Tick(World, gate, elapsed))
  /\ UNCHANGED <<outside, history, checks>>

PreflightAnswered(blocking, gate) ==
  /\ Up /\ preflightPending
  /\ Become(OnPreflight(World, blocking, gate))
  /\ UNCHANGED <<outside, history, checks>>

StorageSettleAnswered(gate) ==
  /\ Up /\ settlePending
  /\ Become(OnStorageSettled(World, gate))
  /\ UNCHANGED <<outside, history, checks>>

(* Bound: once the collection paused for a busy sensor, it is not found busy again. *)
IdleCheckAnswered(idle, answer, gate) ==
  /\ Up /\ idleCheck # None
  /\ idle \/ idleRetries <= IdleRetries
  /\ Become(OnIdleResult(World, idle, answer, gate))
  /\ UNCHANGED <<outside, history, checks>>

CaptureFinished(gate) ==
  /\ Up /\ capture.phase = "reported"
  /\ Become(OnCaptureFinished(World, gate))
  /\ UNCHANGED <<outside, history, checks>>

(* The capture as the main window and the sensor see it (external). *)
RequestReaches ==
  /\ capture.phase = "sent"
  /\ capture' = [capture EXCEPT !.phase = "reached"]
  /\ reached' = [reached EXCEPT ![capture.key] = @ + 1]
  /\ UNCHANGED <<session, attributes, history, disk, checks, owned, manual, clock,
                 posts, recorded, crashes, permits, checked>>

(* capture_finished is emitted: only a request the sensor received has an answer of
   the sensor or a file, and only one it did not receive is reported not sent.     *)
CaptureReports(outcome, file) ==
  LET t == capture.key
  IN  /\ capture.phase \in {"sent", "reached"}
      /\ outcome = "not_sent" => capture.phase = "sent"
      /\ outcome \in Confirmed \cup {"sensor_error"} => capture.phase = "reached"
      /\ CASE outcome \in Confirmed -> file
           [] outcome = "unknown" -> file => capture.phase = "reached"
           [] OTHER -> ~file
      /\ capture' = [capture EXCEPT !.phase = "reported", !.outcome = outcome]
      /\ recorded' = [recorded EXCEPT ![t] = IF file THEN @ \cup {posts[t]} ELSE @]
      /\ UNCHANGED <<session, attributes, history, disk, checks, owned, manual, clock,
                     posts, reached, crashes, permits, checked>>

(* File checks: the mission list, then the listing; "Retry failed rows" goes on with
   the rows that may be retried however the check ended.  A listing answers with what
   the recordings it finds amount to, or fails.                                    *)
Retried(w, i, gate, elapsed) ==
  /\ Become(Retry(w, i, gate, elapsed))
  /\ IF RetryRefused(w, i) \/ ~AtRest(w)
       THEN UNCHANGED <<wish, asked>>
       ELSE wish' = "retry" /\ asked' = RetryableKeys(w, i)
  /\ UNCHANGED slept

AfterCheck(job, w, gate, elapsed) ==
  IF job.retry = 0 THEN Become(w) /\ UNCHANGED history
                   ELSE Retried(w, job.retry, gate, elapsed)

Clear(c) == checks' = [checks EXCEPT ![c] = NoCheck]

MissionListRead(c, idle, gate, elapsed) ==
  LET job == checks[c]
      wanted == {<<t, recordOf[t]>> : t \in UncertainKeys(World)}
  IN  /\ Up /\ job.phase = "mission"
      /\ IF idle /\ wanted # {}
           THEN /\ checks' = [checks EXCEPT ![c].phase = "files", ![c].wanted = wanted]
                /\ Become(World)
                /\ UNCHANGED history
           ELSE Clear(c) /\ AfterCheck(job, World, gate, elapsed)
      /\ UNCHANGED outside

FilesListed(c, answer, gate, elapsed) ==
  LET job == checks[c]
  IN  /\ Up /\ job.phase = "files"
      /\ Clear(c)
      /\ AfterCheck(job, IF answer = "failed" THEN World
                         ELSE OnFilesChecked(World, job.wanted, answer), gate, elapsed)
      /\ UNCHANGED outside

(* Commands of the operator, as the panel enables them; without "act_in_check" the
   operator lets a file check end before acting on its rows.                      *)
NoCheckRuns == "act_in_check" \in Commands \/ \A c \in 1 .. MaxChecks : checks[c] = NoCheck

Command(c, newWish) ==
  /\ Up /\ c \in Commands
  /\ wish' = newWish
  /\ UNCHANGED <<outside, asked>>

Start(gate, elapsed) ==
  /\ state = "idle" /\ CanReserve
  /\ Become(StartSession(World, gate, elapsed))
  /\ wish' = "go"
  /\ UNCHANGED <<outside, asked, slept, checks>>

PauseCommand ==
  /\ state \in {"running", "waiting", "waiting_schedule", "paused_backlog"}
  /\ Command("pause", "halt")
  /\ Become(Pause(World))
  /\ UNCHANGED <<slept, checks>>

ResumeCommand(gate, elapsed) ==
  /\ state \in {"paused", "paused_backlog", "pause_requested"}
  /\ Up
  /\ wish' = "go"
  /\ Become(Resume(World, gate, elapsed))
  /\ UNCHANGED <<outside, asked, slept, checks>>

StopCommand ==
  /\ Active(World)
  /\ Command(IF preflightPending THEN "stop_in_preflight" ELSE "stop", "halt")
  /\ Become(Stop(World))
  /\ UNCHANGED <<slept, checks>>

(* "Check with the sensor" and "Retry failed rows" start a file check. *)
BeginCheck(i) ==
  \E c \in 1 .. MaxChecks :
    /\ checks[c] = NoCheck /\ \A d \in 1 .. c - 1 : checks[d] # NoCheck
    /\ checks' = [checks EXCEPT ![c] = [NoCheck EXCEPT !.phase = "mission", !.retry = i]]

CheckWithSensor ==
  /\ state = "interrupted" /\ ~downloadsOnly /\ UncertainKeys(World) # {} /\ NoCheckRuns
  /\ Command("check", wish)
  /\ BeginCheck(0)
  /\ Become(World)
  /\ UNCHANGED slept

RetryFailed(gate, elapsed) ==
  LET i == LastRound(World)
  IN  /\ Up /\ ~Active(World) /\ ~InPass(World) /\ i # 0 /\ NoCheckRuns
      /\ (IF checked THEN "retry" ELSE "retry_after_restart") \in Commands
      /\ \A t \in Keys : t[1] = i /\ tasks[t] \notin Confirmed => permits[t] < MaxAsks
      /\ UNCHANGED outside
      /\ IF \E t \in UncertainKeys(World) : t[1] = i
           THEN BeginCheck(i) /\ Become(World) /\ UNCHANGED history
           ELSE /\ Retried(World, i, gate, elapsed)
                /\ UNCHANGED checks

SkipUncertainCommand ==
  /\ NoCheckRuns
  /\ state = "interrupted" /\ ~downloadsOnly /\ UncertainKeys(World) # {}
  /\ Command("skip", wish)
  /\ Become(SkipUncertain(World))
  /\ UNCHANGED <<slept, checks>>

ContinueCommand(gate, elapsed) ==
  /\ NoCheckRuns
  /\ state = "interrupted" /\ CanContinue(World)
  /\ Become(Continue([World EXCEPT !.checked = FALSE], gate, elapsed))
  /\ wish' = IF downloadsOnly THEN wish ELSE "go"
  /\ UNCHANGED <<outside, asked, slept, checks>>

RunMissedCommand(i, gate, elapsed) ==
  /\ NoCheckRuns
  /\ rounds[i] = "missed"
  /\ state = "interrupted" => ~InPass(World) /\ CanContinue(World) /\ UncertainKeys(World) = {}
  /\ state \in {"done", "idle"} => CanReserve
  /\ Command("run_missed", IF state \in {"paused", "pause_requested", "stop_requested"}
                             THEN wish ELSE "go")
  /\ Become(RunMissed(World, i, gate, elapsed))
  /\ slept' = slept \ {i}
  /\ UNCHANGED checks

SkipMissedCommand(i) ==
  /\ rounds[i] = "missed"
  /\ Command("skip_missed", wish)
  /\ Become(SkipMissed(World, i))
  /\ UNCHANGED <<slept, checks>>

(* A manual recording of the other tab starts or ends (external): its Start is held
   while a feature reserves the sensor or a capture runs.                          *)
ManualRecording ==
  /\ Up /\ "manual" \in Commands
  /\ ~manual => ~owned /\ capture.phase \notin {"sent", "reached"}
  /\ manual' = ~manual
  /\ Become(World)
  /\ UNCHANGED <<history, checks, clock, reached, recorded, crashes>>

-----------------------------------------------------------------------------
(***************************************************************************)
(* Closing, restarting, and the clock                                      *)
(***************************************************************************)

(* SessionState.from_dict: the lists and counters as the session file has them. *)
RestoredRows(w) ==
  [w EXCEPT !.tasks = w.disk.tasks, !.attempts = w.disk.attempts,
            !.recordOf = w.disk.recordOf]
Restored(w) ==
  [RestoredRows(w) EXCEPT !.current = w.disk.current, !.rounds = w.disk.rounds]

(* The fields a new runner begins with. *)
Forgotten(w) ==
  [w EXCEPT !.inFlight = FALSE, !.preflightDue = FALSE, !.preflightPending = FALSE,
            !.storageSettled = FALSE, !.settlePending = FALSE, !.downloadsOnly = FALSE]

(* The tick timer ends, and the recorder's receiver belongs to nobody. *)
Released(w) ==
  [w EXCEPT !.timer = FALSE, !.owned = FALSE, !.checked = FALSE, !.idleRetries = 0]

(* The application ends: what is left is the session file. *)
Closed(w) ==
  [Released(Forgotten(Restored(w))) EXCEPT !.state = "closed", !.idleCheck = None,
                                           !.capture = NoCapture]

(* What becomes of a request on its way when the application ends: it may still reach
   the sensor, which records it or not.                                            *)
LeftBehind(t, phase, arrives, file) ==
  /\ arrives => phase = "sent"
  /\ file => phase = "reached" \/ arrives
  /\ reached' = IF arrives THEN [reached EXCEPT ![t] = @ + 1] ELSE reached
  /\ recorded' = IF file THEN [recorded EXCEPT ![t] = @ \cup {posts'[t]}] ELSE recorded

Ended ==
  /\ crashes < MaxCrashes
  /\ crashes' = crashes + 1
  /\ checks' = [c \in 1 .. MaxChecks |-> NoCheck]
  /\ manual' = FALSE /\ wish' = "halt"
  /\ UNCHANGED <<clock, asked, slept>>

Close(arrives, file) ==
  /\ state \notin {"idle", "closed"}
  /\ (IF inFlight THEN "recording" ELSE "quiet") \in CrashPoints
  /\ Become(Closed(World))
  /\ LeftBehind(capture.key, capture.phase, arrives, file)
  /\ Ended

(* ... inside on_result, after start_capture and before _submit_task saves. *)
CrashInSubmit(arrives, file) ==
  LET t == idleCheck
  IN  /\ "submit" \in CrashPoints
      /\ t # None /\ state = "running" /\ ~inFlight /\ ~HostBusy(World)
      /\ tasks[t] = "queued" /\ current = t[1]
      /\ Become(Closed([World EXCEPT !.posts[t] = @ + 1]))
      /\ LeftBehind(t, "sent", arrives, file)
      /\ Ended

(* The application starts again and loads the session. *)
Restart(unfinished) ==
  /\ state = "closed"
  /\ Become(Loaded(World, unfinished))
  /\ UNCHANGED <<outside, history, checks>>

(* A pass's time comes, and is later missed: passes come in the order of their times. *)
TimePasses(i) ==
  /\ rounds[i] # "none" /\ clock[i] # "late"
  /\ \A j \in 1 .. i - 1 : clock[j] = "late" \/ (clock[i] = "ahead" /\ clock[j] = "passed")
  /\ clock' = [clock EXCEPT ![i] = IF @ = "ahead" THEN "passed" ELSE "late"]
  /\ slept' = IF clock[i] = "ahead" /\ rounds[i] \in Open
                  /\ ((state = "interrupted" /\ ~downloadsOnly) \/ (state = "closed" /\ disk.state # "done"))
                THEN slept \cup {i} ELSE slept
  /\ Become(World)
  /\ UNCHANGED <<checks, manual, reached, recorded, crashes, wish, asked>>

(* A collection that is done rests: its timer is off until the operator acts again.  A
   state of any other kind in which nothing can happen is a deadlock.              *)
Terminating == state = "done" /\ UNCHANGED vars

-----------------------------------------------------------------------------
Next ==
  \/ \E gate \in Gates :
       \/ \E elapsed \in BOOLEAN :
            \/ TimerTick(gate, elapsed)
            \/ Start(gate, elapsed)
            \/ ResumeCommand(gate, elapsed)
            \/ RetryFailed(gate, elapsed)
            \/ ContinueCommand(gate, elapsed)
            \/ \E i \in Rounds : RunMissedCommand(i, gate, elapsed)
            \/ \E c \in 1 .. MaxChecks :
                 \/ \E idle \in BOOLEAN : MissionListRead(c, idle, gate, elapsed)
                 \/ \E answer \in (Outcomes \cap Confirmed) \cup {"failed"} :
                      FilesListed(c, answer, gate, elapsed)
       \/ \E blocking \in BOOLEAN : PreflightAnswered(blocking, gate)
       \/ StorageSettleAnswered(gate)
       \/ \E idle \in BOOLEAN, answer \in Answers : IdleCheckAnswered(idle, answer, gate)
       \/ CaptureFinished(gate)
  \/ RequestReaches
  \/ \E outcome \in Outcomes, file \in BOOLEAN : CaptureReports(outcome, file)
  \/ PauseCommand
  \/ StopCommand
  \/ CheckWithSensor
  \/ SkipUncertainCommand
  \/ \E i \in Rounds : SkipMissedCommand(i)
  \/ ManualRecording
  \/ \E arrives, file \in BOOLEAN : Close(arrives, file) \/ CrashInSubmit(arrives, file)
  \/ \E unfinished \in BOOLEAN : Restart(unfinished)
  \/ \E i \in Rounds : TimePasses(i)
  \/ Terminating

Spec == Init /\ [][Next]_vars

-----------------------------------------------------------------------------
(***************************************************************************)
(* Fairness.  The timer fires again and again, and the gates it looks at   *)
(* are not closed for ever: downloads end or are given up, space is freed, *)
(* a wait has a deadline.  A job handed to a worker answers, a capture     *)
(* ends (its watcher has deadlines) and its queued signal is delivered,    *)
(* and time passes.  The answer of the idle check is dropped when it finds *)
(* the collection held back by its downloads, and it may find the sensor   *)
(* busy or full; not every answer does: strong fairness.  Nothing is       *)
(* assumed of the operator.                                                *)
(***************************************************************************)
Fairness ==
  /\ WF_vars(TimerTick("clear", TRUE))
  /\ WF_vars(\E gate \in Gates, blocking \in BOOLEAN : PreflightAnswered(blocking, gate))
  /\ WF_vars(\E gate \in Gates : StorageSettleAnswered(gate))
  /\ SF_vars(\E gate \in Gates, answer \in Answers \ {"storage"} :
               state = "running" /\ IdleCheckAnswered(TRUE, answer, gate))
  /\ WF_vars(\E outcome \in Outcomes, file \in BOOLEAN : CaptureReports(outcome, file))
  /\ WF_vars(\E gate \in Gates : CaptureFinished(gate))
  /\ WF_vars(\E i \in Rounds : TimePasses(i))

FairSpec == Spec /\ Fairness

-----------------------------------------------------------------------------
(***************************************************************************)
(* Properties                                                              *)
(***************************************************************************)

(* Every variable keeps to the values its attribute can have. *)
TypeOK ==
  /\ state \in States
  /\ current \in 0 .. NRounds
  /\ rounds \in [Rounds -> RoundStates]
  /\ tasks \in [Keys -> Statuses]
  /\ attempts \in [Keys -> Nat]
  /\ recordOf \in [Keys -> Nat]
  /\ disk \in [state: States, current: 0 .. NRounds, rounds: [Rounds -> RoundStates],
                tasks: [Keys -> Statuses], attempts: [Keys -> Nat],
                recordOf: [Keys -> Nat]]
  /\ {inFlight, preflightDue, preflightPending, storageSettled, settlePending,
      downloadsOnly, timer, owned, manual, checked} \subseteq BOOLEAN
  /\ idleCheck \in Keys \cup {None}
  /\ idleRetries \in Nat
  /\ checks \in [1 .. MaxChecks ->
                 [phase: {"none", "mission", "files"}, retry: 0 .. NRounds,
                  wanted: SUBSET (Keys \X Nat)]]
  /\ capture \in [key: Keys \cup {None}, phase: {"idle", "sent", "reached", "reported"},
                  outcome: AllOutcomes \cup {"open"}]
  /\ clock \in [Rounds -> Times]
  /\ posts \in [Keys -> Nat]
  /\ reached \in [Keys -> Nat]
  /\ recorded \in [Keys -> SUBSET Nat]
  /\ crashes \in 0 .. MaxCrashes
  /\ permits \in [Keys -> Nat]
  /\ wish \in {"go", "halt", "retry"}
  /\ asked \in SUBSET Keys
  /\ slept \in SUBSET Rounds

(* "Anything that may have reached the sensor is never resent automatically": for no row
   does the sensor receive more requests than the schedule and the operator asked for.
   It takes the automatic second attempt, a retry, a restart and a stale answer of the
   idle check to break it.                                                          *)
NoBlindResend == \A t \in Keys : reached[t] <= permits[t]

(* The same, as an implementation of what SensorRequests promises: every step of the
   controller asks, sends one request that is owed, or leaves the requests alone.    *)
Requests == INSTANCE SensorRequests WITH
  Row <- Keys, NoRow <- None, asks <- permits, received <- reached,
  out <- IF capture.phase = "sent" THEN capture.key ELSE None
ImplementsSensorRequests == Requests!Spec

(* The state file names the row whose request is out, as one that may have reached the
   sensor: a crash at any moment of a recording leaves it to be checked, not resent. *)
RequestIsOnRecord ==
  capture.phase \in {"sent", "reached"} => disk.tasks[capture.key] \in Uncertain

(* A row of which the sensor holds a recording is never sent again: the file check of
   "Retry failed rows" and of the recovery counts it instead.                       *)
RecordedRowNotSentAgain ==
  [][\A t \in Keys : posts'[t] # posts[t] => recorded[t] = {}]_vars

(* A row that a file check says has no file on the sensor (it may be retried then) has
   no recording there.                                                              *)
NoFileMeansNoRecording == \A t \in Keys : tasks[t] = "no_file" => recorded[t] = {}

(* "The runner owns the sensor for the whole session": while a request of the collection
   is out, the manual tab is locked and records nothing.                            *)
SensorHeldWhileRecording == capture.phase # "idle" => owned /\ ~manual

(* After Pause, Stop or the end of the application nothing is sent until the operator
   resumes, continues or retries, whatever answers are still on their way.          *)
NothingSentAfterPauseOrStop == [][posts' # posts => wish # "halt"]_vars

(* No request before the pre-collection check of its pass has passed, and passed again
   after a restart.                                                                 *)
CheckedBeforeRequest == [][posts' # posts => checked \/ ~Up']_vars

(* A pass whose time went by while the application was closed or the collection was
   interrupted starts only when the operator runs it.                               *)
SleptPassWaitsForOperator ==
  [][\A i \in Rounds : rounds[i] # "running" /\ rounds'[i] = "running" => i \notin slept']_vars

(* A pass counted as done, partial or failed has an outcome for every row. *)
FinishedPassIsComplete ==
  \A i \in Rounds : rounds[i] \in {"done", "partial", "failed"} =>
    \A k \in Rows : tasks[<<i, k>>] \notin {"none", "queued", "submitting"}

(* The pass the session names as current is the one that is marked running. *)
OneRunningPass == \A i \in Rounds : rounds[i] = "running" <=> current = i

(* Whatever instant the application ends at, the session file has the rows, their
   attempts and the running pass as they are, and tells a finished collection from an
   interrupted one; it may only be behind on how a waiting pass is classified.      *)
SessionFileIsCurrent ==
  Up => /\ disk.tasks = tasks /\ disk.current = current
        /\ disk.attempts = attempts /\ disk.recordOf = recordOf
        /\ \A i \in Rounds : \/ rounds[i] = disk.rounds[i]
                             \/ {rounds[i], disk.rounds[i]} \subseteq Open \cup {"missed"}
        /\ state = "interrupted" \/ ((state = "done") <=> (disk.state = "done"))

(* "Retry failed rows" at the end of a collection sends the failed rows and no other. *)
RetrySendsOnlyFailedRows ==
  [][\A t \in Keys : posts'[t] # posts[t] /\ wish = "retry" => t \in asked]_vars

(* A run-now collection with a repeat count begins no more passes than that. *)
RepeatHonoured ==
  Mode = "now" /\ Repeat > 0 =>
    Cardinality({i \in Rounds : tasks[<<i, 1>>] # "none"}) <= Repeat

(* A collection that goes on comes to its end, or to a point where only the operator can
   take it further: it is paused or interrupted, the application is closed, or nothing
   but missed passes is left.                                                       *)
WaitsForOperator ==
  \/ state \in {"done", "paused", "interrupted", "closed"}
  \/ state = "waiting_schedule" /\ SomeMissed(World) /\ Due(World) = {} /\ ~SomePending(World)
CollectionEnds == (state # "idle") ~> WaitsForOperator

(* Stop lets the current recording finish and then ends the collection; an operator's
   Pause that is pending takes effect as well, unless it is withdrawn.              *)
StopTakesEffect == (state = "stop_requested") ~> (state = "done")

(* What a retry, a file check and a restart may send: a failed row that was asked for, and
   never one whose recording the sensor holds.                                           *)
RetryIsSafe == RecordedRowNotSentAgain /\ RetrySendsOnlyFailedRows

(* The session file can be believed after the application ends at any moment: it has the
   rows and the running pass as they are, and names the request that is out.             *)
SessionFileIsTrue == SessionFileIsCurrent /\ RequestIsOnRecord

(* Passes are marked, closed and taken up again right: one runs, it is the one the session
   names, and none is counted before each of its rows has an outcome.                     *)
PassesAreInOrder == OneRunningPass /\ FinishedPassIsComplete

(* A pass begins with the operator's leave when its time was slept over, and sends nothing
   before its check has passed, whatever restarts and commands come in between.           *)
PassBeginsChecked == CheckedBeforeRequest /\ SleptPassWaitsForOperator
=============================================================================
