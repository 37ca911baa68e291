-------------------------------- MODULE PreCheck --------------------------------
(***************************************************************************)
(* The pre-collection check (cellular_preflight.py, pre_run_checks() of    *)
(* cellular_quality.py): a worker reads the sensor's identity, its clock   *)
(* and its storage and the state of the workbook, one after the other, and *)
(* then judges them with the plan and the computer's disk.  Meanwhile the  *)
(* sensor may go away or another may answer, and the disk and the workbook *)
(* change.  The same worker serves "Check readiness".                      *)
(*                                                                         *)
(* "" is an unknown model or serial.  The computer's own clock is taken to *)
(* be plausible.  A check is <<name, level>>.                              *)
(***************************************************************************)
EXTENDS Integers

CONSTANTS
  Worlds,     \* [sensor: NoSensor or [model, serial], clock, storage, local, writable, book, excel]
  Collections,\* [expected, previous: [model, serial], plan, loaded, results: the workbook takes results]
  NoSensor,
  Estimate,   \* estimated_bytes of the plan
  Margin,     \* of needed_bytes_with_margin()
  Reserve,    \* local_reserve_bytes
  MaxChanges

ASSUME PreCheckAssumption ==
  /\ {Estimate, Margin, Reserve, MaxChanges} \subseteq Nat
  /\ Worlds \subseteq [sensor : {NoSensor} \cup [model : STRING, serial : STRING],
                       clock : {"agrees", "drifts", "far", "impossible", "unread"}, storage : Nat, local : Int,
                       writable : BOOLEAN, book : BOOLEAN, excel : {"closed", "open", "busy", "cannot tell"}]
  /\ Collections \subseteq [expected : [model : STRING, serial : STRING], previous : [model : STRING, serial : STRING],
                            plan : {"valid", "invalid rows", "errors", "none"}, loaded : BOOLEAN, results : BOOLEAN]

VARIABLES
  world,
  collection,
  step,     \* what the worker reads next: "info", "clock", "storage", "book", "judge", or "done"
  readings, \* [raised: those that failed, info: [connected, model, serial], clock, storage, book]
  checks,   \* PreflightResult.checks
  changes

precheck_vars == <<world, collection, step, readings, checks, changes>>

Unknown == -1 \* bytes free that cannot be told
Identity(sensor) == [connected |-> TRUE, model |-> sensor.model, serial |-> sensor.serial]
NoAnswer == [connected |-> FALSE, model |-> "", serial |-> ""]
NoReadings == [raised |-> {}, info |-> NoAnswer, clock |-> "unread", storage |-> Unknown, book |-> "unread"]

----------------------------------------------------------------------------
(* pre_run_checks() *)

(* The fields of which both are known and that differ *)
Differ(a, b) == {k \in {"model", "serial"} : a[k] # "" /\ b[k] # "" /\ a[k] # b[k]}

IdentityChecks(i, c) ==
  {IF i.connected THEN <<"identity", IF i.model = "" /\ i.serial = "" THEN "warning" ELSE "ok">> ELSE <<"connection", "error">>}
  \cup (IF i.connected THEN {<<"identity_match", IF Differ(c.expected, i) = {} THEN "ok" ELSE "error">>} ELSE {})
  \cup (IF Differ(c.previous, i) = {} THEN {} ELSE {<<"identity", "warning">>})

ClockCheck(clock) ==
  <<"sensor_clock", CASE clock = "unread" -> "info"
                      [] clock \in {"impossible", "far"} -> "error"
                      [] clock = "drifts" -> "warning"
                      [] OTHER -> "ok">>

Needed == Estimate + Margin
StorageCheckTrusting(s, needed) == \* MUTANT a reading that failed is no reason to warn
  <<"sensor_storage", IF s # Unknown /\ s < needed THEN "error" ELSE IF s # Unknown /\ s < 2 * needed THEN "warning" ELSE "ok">>
StorageCheck(s, needed) ==
  <<"sensor_storage", IF s = Unknown THEN "warning" ELSE IF s < needed THEN "error" ELSE IF s < 2 * needed THEN "warning" ELSE "ok">>

LocalChecks(w, estimate) ==
  {<<"local_storage", IF w.local = Unknown THEN "warning" ELSE IF w.local < estimate + Reserve THEN "error" ELSE "ok">>,
   <<"destination", IF w.writable THEN "ok" ELSE "error">>}

(* A workbook that is not there, or busy, never stops a plan that is loaded *)
BookCheck(there, state, loaded) ==
  <<"workbook", IF ~there \/ state = "missing" THEN (IF loaded THEN "warning" ELSE "error")
                ELSE IF state = "busy" THEN "warning" ELSE "ok">>

PlanCheck(plan) == <<"plan", IF plan = "valid" THEN "ok" ELSE "error">> \* none, with errors, or with rows that are invalid

PreRunChecks(r, w, c) ==
  LET estimate == IF c.plan = "none" THEN 0 ELSE Estimate
  IN IdentityChecks(r.info, c) \cup LocalChecks(w, estimate) \cup
     {<<"computer_clock", "ok">>, <<"gnss", "info">>, ClockCheck(r.clock), PlanCheck(c.plan),
      StorageCheck(r.storage, IF c.plan = "none" THEN Margin ELSE Needed)} \cup
     (IF c.results THEN {BookCheck(w.book, r.book, c.loaded)} ELSE {})

(* What gather_preflight() noted of the readings that raised *)
Notes(r) ==
  {n \in {<<"connection", "error">>, <<"sensor_clock", "info">>, <<"sensor_storage", "warning">>} :
     \/ n[1] = "connection" /\ "info" \in r.raised
     \/ n[1] = "sensor_clock" /\ "clock" \in r.raised
     \/ n[1] = "sensor_storage" /\ "storage" \in r.raised}

(* A reading that failed replaces the check made from its absence *)
Judged(r, w, c) ==
  LET names == {n[1] : n \in Notes(r)}
  IN Notes(r) \cup {k \in PreRunChecks(r, w, c) : k[1] \notin names}

Blocking == {"connection", "identity_match", "sensor_storage", "local_storage", "destination", "plan"} \* BLOCKING_CHECKS
BlockingChecks(k) == {x \in k : x[2] = "error" /\ x[1] \in Blocking}

(* readiness_check() takes a sensor whose serial is not known for any, and no earlier identity *)
Readiness(c) ==
  [c EXCEPT !.expected = IF @.serial = "" THEN [model |-> "", serial |-> ""] ELSE @,
            !.previous = [model |-> "", serial |-> ""]]

----------------------------------------------------------------------------
PreCheckInit ==
  /\ world \in Worlds /\ collection \in Collections
  /\ step = "info" /\ readings = NoReadings /\ checks = {} /\ changes = 0

Reads(what, values, next) ==
  /\ \E v \in values : readings' = [readings EXCEPT ![what] = v]
  /\ step' = next
  /\ UNCHANGED <<world, collection, checks, changes>>

Raises(what, next) ==
  /\ readings' = [readings EXCEPT !.raised = @ \cup {what}] /\ step' = next
  /\ UNCHANGED <<world, collection, checks, changes>>

(* FetchInfoWaiting is the mutant of FetchInfo that waits for the answer without a limit. *)
FetchInfoWaiting ==
  step = "info" /\ world.sensor # NoSensor /\ Reads("info", {Identity(world.sensor)}, "clock")

(* fetch_sensor_info() answers, raises, or says that it is not connected *)
FetchInfo ==
  /\ step = "info"
  /\ \/ world.sensor # NoSensor /\ Reads("info", {Identity(world.sensor)}, "clock")
     \/ world.sensor = NoSensor /\ (Raises("info", "clock") \/ Reads("info", {NoAnswer}, "clock"))

(* fetch_sensor_clock(): only of a sensor that answered *)
FetchClock ==
  /\ step = "clock"
  /\ \/ ~readings.info.connected /\ Reads("clock", {"unread"}, "storage")
     \/ readings.info.connected /\ world.sensor = NoSensor /\ (Raises("clock", "storage") \/ Reads("clock", {"unread"}, "storage"))
     \/ readings.info.connected /\ world.sensor # NoSensor /\ Reads("clock", {world.clock}, "storage")

(* query_iq_storage() over a connection of its own; a reading that is not ok tells nothing *)
FetchStorage ==
  /\ step = "storage"
  /\ \/ ~readings.info.connected /\ Reads("storage", {Unknown}, "book")
     \/ readings.info.connected /\ world.sensor = NoSensor /\ Raises("storage", "book")
     \/ readings.info.connected /\ world.sensor # NoSensor /\ Reads("storage", {world.storage, Unknown}, "book")

(* Excel that cannot be asked counts as busy *)
ReadBook ==
  /\ step = "book"
  /\ Reads("book", {CASE ~collection.results -> "unread"
                      [] collection.results /\ ~world.book -> "missing"
                      [] OTHER -> IF world.excel = "cannot tell" THEN "busy" ELSE world.excel}, "judge")

Judge ==
  /\ step = "judge"
  /\ checks' = Judged(readings, world, collection) /\ step' = "done"
  /\ UNCHANGED <<world, collection, readings, changes>>

(* Outside the program *)
WorldChanges ==
  /\ step # "done" /\ changes < MaxChanges
  /\ \E w \in Worlds : w # world /\ world' = w
  /\ changes' = changes + 1
  /\ UNCHANGED <<collection, step, readings, checks>>

PreCheckStep == FetchInfo \/ FetchClock \/ FetchStorage \/ ReadBook \/ Judge
PreCheckNext == PreCheckStep \/ WorldChanges
PreCheckSpec == PreCheckInit /\ [][PreCheckNext]_precheck_vars

----------------------------------------------------------------------------
Level(name) == {k[2] : k \in {x \in checks : x[1] = name}}

(* A pass starts after its check only when the sensor answered and is not known to be another than the collection's,
   the disk of the computer as it was then takes the pass, the plan is valid, and the sensor's storage takes the pass
   whenever it could be read - whatever changed, or failed to answer, while the check ran. *)
PassedIsReady ==
  (step = "done" /\ BlockingChecks(checks) = {}) =>
    /\ readings.info.connected /\ Differ(collection.expected, readings.info) = {}
    /\ collection.plan = "valid" /\ world.writable
    /\ world.local # Unknown => world.local >= Estimate + Reserve
    /\ readings.storage # Unknown => readings.storage >= Estimate + Margin

(* What could not be read is never reported as well: no check of it has the level ok. *)
UnreadIsNeverOk ==
  step = "done" =>
    /\ readings.storage = Unknown => "ok" \notin Level("sensor_storage")
    /\ readings.clock = "unread" => "ok" \notin Level("sensor_clock")
    /\ world.local = Unknown => "ok" \notin Level("local_storage")
    /\ readings.info.model = "" /\ readings.info.serial = "" => "ok" \notin Level("identity")

(* The workbook - gone, busy, or back while the check runs - makes no difference to whether a pass starts. *)
ExcelNeverStopsAPass ==
  step = "done" =>
    \A there \in BOOLEAN, state \in {"missing", "busy", "open", "closed"} :
      BlockingChecks(checks) =
        BlockingChecks(Judged([readings EXCEPT !.book = state], [world EXCEPT !.book = there], collection))

(* "Check readiness" that says not ready foretells that Start pauses at once, the readings being the same; and it
   finds everything Start would when the serial of the collection's sensor is known. *)
ReadinessForetells ==
  step = "done" =>
    LET ready == BlockingChecks(Judged(readings, world, Readiness(collection)))
    IN ready \subseteq BlockingChecks(checks) /\ (collection.expected.serial # "" => ready = BlockingChecks(checks))

(* The documented promise that everything that cannot be read says unknown, for the identity: a sensor of which
   neither the model nor the serial could be read is not reported as the one of the collection.  It does not
   hold (README). *)
UnreadIsNoMatch ==
  (step = "done" /\ readings.info.model = "" /\ readings.info.serial = "") => "ok" \notin Level("identity_match")

(* A check that has begun ends with a judgement, whatever fails meanwhile: the pass is started or paused. *)
CheckIsMade == step = "info" ~> step = "done"

(* The answer of the check can be acted upon, although the world may change under it. *)
CheckIsReliable == PassedIsReady /\ UnreadIsNeverOk /\ ExcelNeverStopsAPass /\ ReadinessForetells
=============================================================================
