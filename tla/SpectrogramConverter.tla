------------------------- MODULE SpectrogramConverter ------------------------
(***************************************************************************)
(* The window of the IQ Spectrogram Converter (iq_gui.py) and the          *)
(* conversion of each file up to the move of its PNG (process_file(),      *)
(* _save_spectrogram_png()).  The Tk thread owns the fields and the        *)
(* status; one worker thread converts a batch, and short-lived ones        *)
(* inspect the chosen file; both tell the Tk thread through a queue that   *)
(* it drains.  The worker's settings are fields of the window that it      *)
(* reads at every file.                                                    *)
(*                                                                         *)
(* A name without its extension is a sequence: <<"a">>, and <<"a", 2>> is  *)
(* "a (2)".  A WAV is <<folder, stem>>.                                    *)
(***************************************************************************)
EXTENDS Naturals, Sequences, SequencesExt, FiniteSets, FiniteSetsExt

CONSTANTS
  Batches,    \* sequences of WAVs that may be given to it
  Jobs,       \* bound: conversions started
  Values,     \* what the fields may hold: file, RBW and markers; 0 when no file is chosen
  Changes,    \* bound: changes of the fields
  Troubles    \* bound: files that fail

IsName(stem) == Len(stem) \in Nat \ {0} /\ stem = [i \in 1 .. Len(stem) |-> stem[i]]

ASSUME ConverterAssumption ==
  /\ Jobs \in Nat \ {0} /\ {Changes, Troubles} \subseteq Nat
  /\ Values \subseteq Nat /\ 0 \in Values
  /\ \A batch \in Batches :
       Len(batch) \in Nat \ {0} /\ DOMAIN batch = 1 .. Len(batch) /\ \A k \in DOMAIN batch : IsName(batch[k][2])

VARIABLES
  fields, changes,  \* what the operator chose
  token,            \* _inspect_token
  inspecting,       \* the inspections under way: [token, of]
  info,             \* file_info_var: [kind: "hint", "reading", "shown", of: the fields it is about]
  converting, cancel_requested, closing, job_id,
  job_settings,     \* _job_cmap and the others
  status,
  worker,           \* the threads of _convert_worker, by job
  cancels,          \* jobs whose cancel event is set
  ui_queue,
  png,              \* the PNGs: [of, made_with] by name; a name without one is missing
  temps,            \* jobs with a temporary file in the output folder
  reported,         \* the last report: [ok, failed, cancelled] of a job
  troubles,
  chosen,           \* history: the fields when each job was started
  placed_late       \* history: PNGs moved into place after Cancel

inspection == <<token, inspecting, info>>
window == <<converting, cancel_requested, closing, job_id, job_settings, status>>
files == <<png, temps>>
converter_vars == <<fields, changes, inspection, window, worker, cancels, ui_queue, files, reported,
                    troubles, chosen, placed_late>>

NoReport == [job |-> 0, ok |-> {}, failed |-> {}, cancelled |-> FALSE]
Hint == [kind |-> "hint", of |-> 0]
Steps == {"next", "convert", "check", "replace", "end"}

(* The types. *)
ConverterTypeOK ==
  /\ fields \in Values /\ token \in Nat /\ info \in [kind : {"hint", "reading", "shown"}, of : Values]
  /\ inspecting \subseteq [token : Nat, of : Values \ {0}]
  /\ {converting, cancel_requested, closing} \subseteq BOOLEAN
  /\ job_settings \in Values
  /\ status \in {"ready", "converting", "cancelling", "cancelled",
                 "saved", "partly_saved", "failed"}
  /\ DOMAIN worker \subseteq 1 .. Jobs /\ \A j \in DOMAIN worker : worker[j].step \in Steps
  /\ cancels \subseteq 1 .. Jobs /\ temps \subseteq 1 .. Jobs
  /\ Cardinality(DOMAIN worker) <= 1
  /\ \A p \in DOMAIN png : png[p].made_with \in Values

ConverterInit ==
  /\ fields = 0 /\ changes = 0 /\ token = 1 /\ inspecting = {} /\ info = Hint
  /\ converting = FALSE /\ cancel_requested = FALSE /\ closing = FALSE /\ job_id = 0
  /\ job_settings = 0 /\ status = "ready"
  /\ worker = <<>> /\ cancels = {}
  /\ ui_queue = <<>> /\ png = <<>> /\ temps = {} /\ reported = NoReport
  /\ troubles = 0 /\ chosen = <<>> /\ placed_late = <<>>

Trouble == troubles < Troubles /\ troubles' = troubles + 1

(* unique_output_names() *)
OutputNames(batch) ==
  LET Earlier(k) == Cardinality({i \in 1 .. k - 1 : batch[i][2] = batch[k][2]})
  IN [k \in DOMAIN batch |-> IF Earlier(k) = 0 THEN batch[k][2] ELSE Append(batch[k][2], Earlier(k) + 1)]

With(f, x, y) == [i \in DOMAIN f \cup {x} |-> IF i = x THEN y ELSE f[i]]

-----------------------------------------------------------------------------
(* The chosen file. *)

(* _schedule_inspect() with the fields f *)
ScheduleInspect(f) ==
  /\ token' = token + 1
  /\ IF f = 0 THEN info' = Hint /\ UNCHANGED inspecting
     ELSE info' = [kind |-> "reading", of |-> f] /\ inspecting' = inspecting \cup {[token |-> token + 1, of |-> f]}

(* The operator chooses another file, RBW or option; the controls are disabled during a conversion *)
ChangeFields(f) ==
  /\ ~converting /\ ~closing /\ changes < Changes /\ f # fields
  /\ fields' = f /\ changes' = changes + 1
  /\ ScheduleInspect(f)
  /\ status' = "ready"
  /\ UNCHANGED <<converting, cancel_requested, closing, job_id, job_settings, worker, cancels, ui_queue,
                 files, reported, troubles, chosen, placed_late>>

(* _on_inspect_done() drops what was overtaken *)
IsAwaited(answer) == answer.token = token /\ ~converting /\ answer.of = fields

(* _inspect_worker() and, on the Tk thread, _on_inspect_done(): the thread and the queue may take
   any time *)
Inspected(i) ==
  /\ i \in inspecting /\ inspecting' = inspecting \ {i} /\ ~closing
  /\ info' = IF IsAwaited(i) THEN [kind |-> "shown", of |-> i.of] ELSE info
  /\ UNCHANGED <<fields, changes, token, window, worker, cancels, ui_queue, files, reported, troubles,
                 chosen, placed_late>>

-----------------------------------------------------------------------------
(* Starting, cancelling, closing. *)

(* _start_jobs() returns at once otherwise; files, RBW and folder are checked before it goes on *)
MayStart == ~converting /\ ~closing

StartJobs(batch) ==
  /\ MayStart /\ job_id < Jobs
  /\ LET job == job_id + 1
     IN /\ job_id' = job
        /\ worker' = With(worker, job, [jobs |-> batch, names |-> OutputNames(batch), at |-> 1, step |-> "next",
                                        ok |-> {}, failed |-> {}, cancelled |-> FALSE, made_with |-> 0])
        /\ chosen' = Append(chosen, fields) /\ placed_late' = Append(placed_late, 0)
  /\ converting' = TRUE /\ cancel_requested' = FALSE /\ job_settings' = fields /\ status' = "converting"
  /\ UNCHANGED <<fields, changes, inspection, closing, cancels, ui_queue, files, reported, troubles>>

(* cancel_conversion() *)
CancelConversion ==
  /\ converting /\ ~cancel_requested /\ ~closing
  /\ cancel_requested' = TRUE /\ cancels' = cancels \cup {job_id} /\ status' = "cancelling"
  /\ UNCHANGED <<fields, changes, inspection, converting, closing, job_id, job_settings, worker,
                 ui_queue, files, reported, troubles, chosen, placed_late>>

(* _tick_timer() *)
Tick ==
  /\ converting /\ ~closing /\ ~cancel_requested /\ status' = "converting"
  /\ UNCHANGED <<fields, changes, inspection, converting, cancel_requested, closing, job_id, job_settings,
                 worker, cancels, ui_queue, files, reported, troubles, chosen, placed_late>>

(* _on_close(); the daemon threads run on until the process is gone *)
OnClose ==
  /\ ~closing /\ closing' = TRUE /\ converting' = FALSE
  /\ job_id' = job_id + 1 /\ token' = token + 1
  /\ cancels' = cancels \cup ({job_id} \ {0})
  /\ UNCHANGED <<fields, changes, inspecting, info, cancel_requested, job_settings, status, worker,
                 ui_queue, files, reported, troubles, chosen, placed_late>>

ProcessEnds ==
  /\ closing /\ (worker # <<>> \/ inspecting # {})
  /\ worker' = <<>> /\ inspecting' = {}
  /\ UNCHANGED <<fields, changes, token, info, window, cancels, ui_queue, files, reported, troubles,
                 chosen, placed_late>>

-----------------------------------------------------------------------------
(* _convert_worker() of job j: one file after the other. *)

Gone(j) == [i \in DOMAIN worker \ {j} |-> worker[i]]
Orphaned(j) == closing \/ j # job_id
Current(j) == <<j, worker[j].at>>

WorkerRest == <<fields, changes, inspection, window, cancels, reported, chosen>>

NextFile(j) ==
  /\ worker[j].step = "next"
  /\ IF Orphaned(j) /\ worker[j].at <= Len(worker[j].jobs) THEN worker' = Gone(j)
     ELSE worker' = [worker EXCEPT ![j] =
            IF @.at > Len(@.jobs) THEN [@ EXCEPT !.step = "end"]
            ELSE IF j \in cancels THEN [@ EXCEPT !.step = "end", !.cancelled = TRUE]
            ELSE [@ EXCEPT !.step = "convert"]]
  /\ UNCHANGED <<WorkerRest, ui_queue, files, troubles, placed_late>>

(* The file is done: the worker goes on with w *)
EndsFile(j, w) == worker' = [worker EXCEPT ![j] = [w EXCEPT !.at = @ + 1, !.step = "next"]]

(* ConversionCancelled: the worker stops *)
Cancelled(j) == worker' = [worker EXCEPT ![j].step = "end", ![j].cancelled = TRUE]

Fails(j) == EndsFile(j, [worker[j] EXCEPT !.failed = @ \cup {worker[j].at}])

(* process_file() with the settings of the moment, up to the temporary file; it looks at the cancel
   event at every chunk *)
Convert(j) ==
  /\ worker[j].step = "convert"
  /\ \/ worker' = [worker EXCEPT ![j].step = "check", ![j].made_with = job_settings] /\ temps' = temps \cup {j} /\ UNCHANGED troubles
     \/ j \in cancels /\ Cancelled(j) /\ UNCHANGED <<temps, troubles>>
     \/ Trouble /\ Fails(j) /\ UNCHANGED temps
  /\ UNCHANGED <<WorkerRest, ui_queue, png, placed_late>>

(* Mutant of CheckCancel: the temporary file of a cancelled one stays. *)
CheckCancelKeeping(j) ==
  /\ worker[j].step = "check"
  /\ IF j \in cancels THEN Cancelled(j) ELSE worker' = [worker EXCEPT ![j].step = "replace"]
  /\ UNCHANGED <<WorkerRest, ui_queue, files, troubles, placed_late>>

(* _save_spectrogram_png(): the image is in the temporary file *)
CheckCancel(j) ==
  /\ worker[j].step = "check"
  /\ IF j \in cancels THEN Cancelled(j) /\ temps' = temps \ {j}
     ELSE worker' = [worker EXCEPT ![j].step = "replace"] /\ UNCHANGED temps
  /\ UNCHANGED <<WorkerRest, ui_queue, png, troubles, placed_late>>

(* ... and is moved, or the PNG is open elsewhere *)
ReplacePng(j) ==
  /\ worker[j].step = "replace" /\ temps' = temps \ {j}
  /\ LET w == worker[j]
     IN \/ /\ png' = With(png, w.names[w.at], [of |-> Current(j), made_with |-> w.made_with])
           /\ EndsFile(j, [w EXCEPT !.ok = @ \cup {w.at}])
           /\ placed_late' = IF j = job_id /\ cancel_requested THEN [placed_late EXCEPT ![j] = @ + 1] ELSE placed_late
           /\ UNCHANGED troubles
        \/ Trouble /\ Fails(j) /\ UNCHANGED <<png, placed_late>>
  /\ UNCHANGED <<WorkerRest, ui_queue>>

(* Mutant of TellsEnd: nothing is told of a cancelled job. *)
TellsEndUncancelled(j) == ~Orphaned(j) /\ ~worker[j].cancelled

TellsEnd(j) == ~Orphaned(j)

(* _safe_after() from the worker thread; its progress is left out *)
Tell(messages) == ui_queue' = IF closing THEN ui_queue ELSE ui_queue \o messages

WorkerEnds(j) ==
  /\ worker[j].step = "end" /\ worker' = Gone(j)
  /\ Tell(IF TellsEnd(j) THEN <<[job |-> j, ok |-> worker[j].ok, names |-> worker[j].names,
                                 failed |-> worker[j].failed, cancelled |-> worker[j].cancelled]>> ELSE <<>>)
  /\ UNCHANGED <<WorkerRest, files, troubles, placed_late>>

-----------------------------------------------------------------------------
(* _pump_ui_queue() on the Tk thread. *)

(* The header and the estimate of the chosen file, now that the controls are enabled again *)
AfterJob == ScheduleInspect(fields)

OutcomeOf(m) ==
  IF m.cancelled THEN "cancelled"
  ELSE IF m.failed = {} THEN "saved" ELSE IF m.ok # {} THEN "partly_saved" ELSE "failed"

(* _conversion_finished() *)
ConversionFinished(m) ==
  /\ converting' = FALSE /\ cancel_requested' = FALSE /\ status' = OutcomeOf(m) /\ reported' = m
  /\ AfterJob
  /\ UNCHANGED <<closing, job_id, job_settings>>

PumpQueue ==
  /\ ~closing /\ ui_queue # <<>> /\ ui_queue' = Tail(ui_queue)
  /\ ConversionFinished(Head(ui_queue))
  /\ UNCHANGED <<fields, changes, worker, cancels, files, troubles, chosen, placed_late>>

WorkerStep ==
  \E j \in DOMAIN worker : NextFile(j) \/ Convert(j) \/ CheckCancel(j) \/ ReplacePng(j) \/ WorkerEnds(j)
Inspects == \E i \in inspecting : Inspected(i)

ConverterNext ==
  \/ \E f \in Values : ChangeFields(f)
  \/ \E batch \in Batches : StartJobs(batch)
  \/ CancelConversion \/ Tick \/ OnClose \/ ProcessEnds
  \/ Inspects \/ WorkerStep \/ PumpQueue

ConverterSpec == ConverterInit /\ [][ConverterNext]_converter_vars

(* The threads run, and the Tk thread polls its queue *)
ConverterFairness ==
  WF_converter_vars(WorkerStep) /\ WF_converter_vars(Inspects) /\ WF_converter_vars(PumpQueue)

-----------------------------------------------------------------------------
(* Each PNG was made with the settings its job was started with: the worker reads them from the
   window, which must not change them while it runs (process_file() call in _convert_worker()). *)
MadeAsChosen == \A p \in DOMAIN png : png[p].made_with = chosen[png[p].of[1]]

(* A file that is reported as saved has its own image under its name, until a later job writes it
   ("so two inputs with the same name do not overwrite each other", iq_data.py:1051), unless
   another file of the batch is called like the numbered name it got. *)
SavedIsItsOwn ==
  \A k \in reported.ok :
    LET name == reported.names[k]
    IN \/ name \in DOMAIN png /\ (png[name].of = <<reported.job, k>> \/ png[name].of[1] > reported.job)
       \/ \E i \in reported.ok : i # k /\ reported.names[i] = name /\ Len(name) > 1

(* Also when it was cancelled or failed: what a job did not save is as it was before. *)
UnsavedIsUntouched ==
  \A p \in DOMAIN png :
    png[p].of[1] = reported.job /\ ~converting /\ ~closing => png[p].of[2] \in reported.ok

(* After Cancel at most the file that is being moved is still saved. *)
CancelStopsTheBatch == \A j \in DOMAIN placed_late : placed_late[j] <= 1

(* A temporary file is that of a running job, or of one the process ended. *)
TempsAreRemoved == \A j \in temps : j \in DOMAIN worker \/ closing

(* The line under the file is about the file and the options that are chosen. *)
InfoIsCurrent == info.kind = "shown" => info.of = fields

(* A conversion ends for the operator, cancelled or not. *)
ConversionEnds == converting ~> ~converting

(* The chosen file's line does not stay at "Reading WAV header". *)
InfoArrives == info.kind = "reading" /\ ~converting ~> info.kind # "reading" \/ converting \/ closing

(* An image is that of its own file and settings or none, whatever is cancelled, closed or fails. *)
ImagesAreRight ==
  /\ ConverterTypeOK /\ MadeAsChosen /\ SavedIsItsOwn /\ UnsavedIsUntouched
  /\ CancelStopsTheBatch /\ TempsAreRemoved /\ InfoIsCurrent
==============================================================================
