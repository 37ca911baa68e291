------------------------------ MODULE ExcelLog -------------------------------
(***************************************************************************)
(* The log of recordings in a workbook (excel_log.py, excel_writer.py,     *)
(* append_rows_com(), cellular_excel.py): each file of a recording is      *)
(* queued once, a worker writes the queued files, all files of a recording *)
(* into one row.  Recordings of the collection need the results sheet,     *)
(* which is created when Excel lets it; until then they are tried again,   *)
(* while the timer of the collection runs.  The application may be killed  *)
(* at any step, the saves of the workbook included: it is saved in place,  *)
(* and a save that is cut off leaves a file that no one can open.          *)
(*                                                                         *)
(* A file is <<g, k>>, part k of recording g; file names differ.           *)
(***************************************************************************)
EXTENDS Naturals, Sequences, SequencesExt, FiniteSets, FiniteSetsExt

CONSTANTS
  Manual,     \* recordings of the Manual tab
  Collected,  \* recordings of the collection
  Beside,     \* those with a file that is not queued: a sidecar, or one the sensor listed late
  Parts,      \* the parts of a recording are 1 .. Parts
  Faults      \* bound: crashes, writes that fail, a busy Excel, and sessions that end

Groups == Manual \cup Collected
LogFiles == Groups \X (1 .. Parts)
ASSUME ExcelLogAssumption == Manual \cap Collected = {} /\ Beside \subseteq Collected
                             /\ Parts \in Nat \ {0} /\ Faults \in Nat

VARIABLES
  queue, logged,        \* the store in memory
  known,                \* the store in memory: the files of each recording (groups)
  stored,               \* the store on disk: [queue, logged, known]
  torn,                 \* a save of the workbook was cut off: it cannot be opened
  results_sheet,        \* the workbook has the results sheet
  rows,                 \* the worksheet: the file names of each row
  job,                  \* the flush: "idle", "reconciled", "written"
  done, todo,           \* its files that are logged, and those to write
  status,               \* excel_status of the collection's recordings
  retry,                \* _excel_retry: in memory
  timer,                \* the timer of the collection runs (_timer)
  found,                \* files of manual recordings handed to the store
  faults,
  gone,                 \* history: what was logged when the workbook was torn
  unsaved               \* history: recordings that a crash found in _excel_retry or handed over in
                        \* part, or that were not saved yet when a new session began

store_vars == <<queue, logged, known, stored>>
book_vars == <<torn, results_sheet, rows, gone>>
flush_vars == <<job, done, todo>>
shown_vars == <<status, retry, timer>>
log_vars == <<store_vars, book_vars, flush_vars, shown_vars, found, faults, unsaved>>

Files(g) == {f \in LogFiles : f[1] = g}
Store(q, l, k) == [queue |-> q, logged |-> l, known |-> k]

(* The types; a file is queued once. *)
LogTypeOK ==
  /\ queue \in Seq(LogFiles) /\ IsInjective(queue)
  /\ logged \subseteq LogFiles /\ known \in [Groups -> SUBSET LogFiles]
  /\ stored.queue \in Seq(LogFiles) /\ stored.logged \subseteq LogFiles
  /\ {torn, results_sheet, timer} \subseteq BOOLEAN
  /\ rows \in Seq(SUBSET LogFiles)
  /\ job \in {"idle", "reconciled", "written"} /\ done \subseteq LogFiles /\ todo \in Seq(LogFiles)
  /\ status \in [Collected -> {"none", "deferred", "queued", "already_logged", "saved"}]
  /\ retry \subseteq Collected /\ unsaved \subseteq Groups /\ found \cup gone \subseteq LogFiles

LogInit ==
  /\ queue = <<>> /\ logged = {} /\ known = [g \in Groups |-> {}] /\ stored = Store(queue, logged, known)
  /\ torn = FALSE /\ results_sheet = FALSE /\ rows = <<>> /\ gone = {}
  /\ job = "idle" /\ done = {} /\ todo = <<>>
  /\ status = [g \in Collected |-> "none"] /\ retry = {} /\ timer = TRUE /\ found = {}
  /\ faults = 0 /\ unsaved = {}

Fault == faults < Faults /\ faults' = faults + 1

(* What a save in place leaves when it is cut off *)
Tears == torn' = TRUE /\ gone' = gone \cup logged \cup stored.logged

-----------------------------------------------------------------------------
(* The queue. *)

(* enqueue(): not what is logged or queued already *)
Wanted(f) == f \notin logged /\ f \notin ToSet(queue)

(* enqueue() of each of these files; the store is saved *)
EnqueueFiles(fs) ==
  LET new == SetToSortSeq({f \in fs : Wanted(f)}, LAMBDA a, b : a[2] < b[2])
  IN /\ queue' = queue \o new
     /\ stored' = IF new = <<>> THEN stored ELSE Store(queue \o new, logged, known)

(* _log_pending_iq_files(): the parts of a manual recording, one by one, each with a flush; the
   watch of a later recording may have taken a file of this one for its own and offer it again *)
LogManual(g, f) ==
  LET next == <<g, Cardinality(Files(g) \cap found) + 1>>
  IN /\ g \in Manual \ unsaved /\ f \in Files(g) \cap (found \cup {next})
     /\ found' = found \cup {f} /\ EnqueueFiles({f})
     /\ UNCHANGED <<logged, known, book_vars, flush_vars, shown_vars, faults, unsaved>>

Deferred(g) == retry \cup {g}

(* _queue_excel(): the sheet first (ensure_results_sheet()), then all files of the recording *)
QueueExcel(g, free) ==
  IF results_sheet \/ free
  THEN /\ results_sheet' = TRUE /\ EnqueueFiles(Files(g))
       /\ status' = [status EXCEPT ![g] = IF \E f \in Files(g) : Wanted(f) THEN "queued" ELSE "already_logged"]
       /\ retry' = retry \ {g}
  ELSE /\ status' = [status EXCEPT ![g] = "deferred"] /\ retry' = Deferred(g)
       /\ UNCHANGED <<results_sheet, queue, stored>>

(* _on_capture_done() of a confirmed recording; ensure_results_sheet() opens the workbook, and
   what it raises of a torn one is handled nowhere                                            *)
CollectionRecords(g, free) ==
  /\ g \in Collected /\ status[g] = "none" /\ timer /\ ~torn
  /\ QueueExcel(g, free)
  /\ IF results_sheet \/ free THEN UNCHANGED faults ELSE Fault
  /\ UNCHANGED <<logged, known, torn, rows, gone, flush_vars, timer, found, unsaved>>

(* _refresh_excel_status(), of _tick(): the recordings that wait are tried again ... *)
RetryDeferred(g) ==
  /\ timer /\ g \in retry /\ ~torn
  /\ QueueExcel(g, TRUE)
  /\ UNCHANGED <<logged, known, torn, rows, gone, flush_vars, timer, found, faults, unsaved>>

(* ... and those whose files are all logged are saved: all of state.files, while
   queue_capture_rows() passes over sidecars, and nothing queues what the sensor listed late   *)
RefreshStatus(g) ==
  /\ timer /\ g \in Collected \ (Beside \cup unsaved) /\ status[g] = "queued" /\ Files(g) \subseteq logged
  /\ status' = [status EXCEPT ![g] = "saved"]
  /\ UNCHANGED <<store_vars, book_vars, flush_vars, retry, timer, found, faults, unsaved>>

(* _finish_session(), or the end of the last download after it *)
SessionEnds ==
  /\ timer /\ timer' = FALSE /\ Fault
  /\ UNCHANGED <<store_vars, book_vars, flush_vars, status, retry, found, unsaved>>

(* Continue, downloads that are resumed or wanted again, rows that are tried again, a missed pass *)
SessionGoesOn ==
  /\ ~timer /\ timer' = TRUE
  /\ UNCHANGED <<store_vars, book_vars, flush_vars, status, retry, found, faults, unsaved>>

(* start_session(): _refresh_excel_status() looks at the recordings of the session only, and
   discards what is in _excel_retry of another one                                           *)
NewSession ==
  /\ ~timer /\ timer' = TRUE
  /\ unsaved' = unsaved \cup {g \in Collected : status[g] \in {"deferred", "queued"}} /\ retry' = {}
  /\ UNCHANGED <<store_vars, book_vars, flush_vars, status, found, faults>>

-----------------------------------------------------------------------------
(* flush_excel_queue(), on the worker. *)

InSheet(f) == ~torn /\ \E r \in ToSet(rows) : f \in r

(* The store or the workbook has it already (workbook_has_iq_filename(), what it raises is ignored) *)
Reconciled(f) == f \in logged \/ InSheet(f)

(* _remember_group() *)
Remember(fs) == [g \in Groups |-> known[g] \cup (Files(g) \cap fs)]

(* _flush_excel(), after each file, by the timer or at the end of a flush: the snapshot, and what of it is logged already *)
Reconcile ==
  /\ job = "idle" /\ queue # <<>>
  /\ done' = {f \in ToSet(queue) : Reconciled(f)} /\ todo' = SelectSeq(queue, LAMBDA f : ~Reconciled(f))
  /\ logged' = logged \cup done' /\ known' = Remember({f \in done' : f \notin logged})
  /\ job' = "reconciled"
  /\ UNCHANGED <<queue, stored, book_vars, shown_vars, found, faults, unsaved>>

(* find_row_with_iq_names(): the rows with one of the names; the first of them is used *)
RowFor(sheet, names) == {k \in DOMAIN sheet : sheet[k] \cap names # {}}

(* append_iq_row(): the row of the recording is filled up, or a new one appended *)
AppendRow(sheet, names) ==
  IF RowFor(sheet, names) = {} THEN Append(sheet, names)
  ELSE [sheet EXCEPT ![Min(RowFor(sheet, names))] = @ \cup names]

(* _merged_group_row() *)
MergedRow(g) == known[g] \cup (Files(g) \cap ToSet(todo))

(* The recordings to write, one row each *)
Pending == SetToSeq({f[1] : f \in ToSet(todo)})
Written(k) == FoldLeft(AppendRow, rows, [n \in 1 .. k |-> MergedRow(Pending[n])])

(* write_excel_rows() *)
WriteRows ==
  /\ job = "reconciled" /\ job' = "written"
  /\ ~torn \/ todo = <<>>
  /\ rows' = Written(Len(Pending)) /\ done' = done \cup ToSet(todo)
  /\ UNCHANGED <<store_vars, torn, results_sheet, gone, todo, shown_vars, found, faults, unsaved>>

(* It raises: of the rows for the open Excel some may be in the workbook, which openpyxl, when
   its save in place is what failed, leaves torn                                              *)
WriteFails ==
  /\ job = "reconciled" /\ job' = "written" /\ todo # <<>>
  /\ ~torn /\ Fault
  /\ \/ rows' \in {Written(k) : k \in 0 .. Len(Pending)} /\ UNCHANGED <<torn, gone>>
     \/ Tears /\ UNCHANGED rows
  /\ UNCHANGED <<store_vars, results_sheet, done, todo, shown_vars, found, unsaved>>

(* ... as it does each time of a workbook that is torn *)
WriteToTorn ==
  /\ job = "reconciled" /\ job' = "written" /\ todo # <<>>
  /\ torn
  /\ UNCHANGED <<store_vars, book_vars, done, todo, shown_vars, found, faults, unsaved>>

(* Mutant of Left: the queue is emptied, with what came meanwhile. *)
LeftNothing == <<>>

(* drop_from_queue(): what was queued meanwhile stays *)
Left == SelectSeq(queue, LAMBDA f : f \notin done)

Settled == done

(* mark_logged(), _remember_group(), drop_from_queue(), _show_excel_flush() *)
Drop ==
  /\ job = "written" /\ job' = "idle"
  /\ logged' = logged \cup Settled /\ known' = Remember(Settled)
  /\ queue' = Left /\ stored' = Store(queue', logged', known')
  /\ done' = {} /\ todo' = <<>>
  /\ UNCHANGED <<book_vars, shown_vars, found, faults, unsaved>>

(* A save of the workbook may be under way: of rows, or of the results sheet *)
Saving ==
  \/ job = "reconciled" /\ todo # <<>>
  \/ timer /\ ~results_sheet /\ (retry # {} \/ \E g \in Collected : status[g] = "none")

(* The application is killed and started again: load(); the timer of the collection waits for the
   user                                                                                        *)
LogCrash ==
  /\ Fault
  /\ queue' = stored.queue /\ logged' = stored.logged /\ known' = stored.known
  /\ job' = "idle" /\ done' = {} /\ todo' = <<>>
  /\ unsaved' = unsaved \cup retry \cup {g \in Manual : Files(g) \cap found \notin {{}, Files(g)}} /\ retry' = {}
  /\ timer' = FALSE
  /\ UNCHANGED <<torn, gone>> \/ (Saving /\ ~torn /\ Tears)
  /\ UNCHANGED <<stored, results_sheet, rows, status, found>>

LogWork ==
  \/ Reconcile \/ WriteRows \/ WriteToTorn \/ Drop
  \/ \E g \in Collected : RetryDeferred(g) \/ RefreshStatus(g)

LogNext ==
  \/ LogWork \/ WriteFails \/ LogCrash
  \/ SessionEnds \/ SessionGoesOn \/ NewSession
  \/ \E g \in Manual, f \in LogFiles : LogManual(g, f)
  \/ \E g \in Collected, free \in BOOLEAN : CollectionRecords(g, free)

LogFairness == WF_log_vars(LogWork)

-----------------------------------------------------------------------------
(* What the store has as logged is in the worksheet (mark_logged() after the rows are saved); of
   a workbook that a save tore, only what was logged before is missing, and all that is queued
   later stays queued.                                                                         *)
LoggedIsInSheet == \A f \in logged \cup stored.logged : InSheet(f) \/ (torn /\ f \in gone)

(* All files of a recording are in one row, no other recording's are with them, and none is twice
   in the sheet, also after a kill between the save of the workbook and that of the store. *)
OneRowForRecording ==
  /\ \A k, n \in DOMAIN rows : k # n => {f[1] : f \in rows[k]} \cap {f[1] : f \in rows[n]} = {}
  /\ \A k \in DOMAIN rows : Cardinality({f[1] : f \in rows[k]}) = 1

(* A file of a recording that was queued once is queued or logged, also on disk. *)
NoFileForgotten ==
  \A f \in LogFiles : f \in found \/ (f[1] \in Collected /\ status[f[1]] \in {"queued", "saved"}) =>
    /\ f \in ToSet(queue) \cup logged
    /\ f \in ToSet(stored.queue) \cup stored.logged

(* A recording shown as waiting for Excel waits in _excel_retry, unless the process was started
   again since, or a new session began: that set is not saved, and is of one session. *)
DeferredWaits == \A g \in Collected : status[g] = "deferred" => g \in retry \cup unsaved

(* "Excel deferred: ... The row stays queued." (cellular_runner.py:2681) *)
DeferredStaysQueued == \A g \in Collected : status[g] = "deferred" => g \in retry

(* While the timer of the collection runs every recording is shown as saved in the end, unless a
   restart or a new session forgot it, the sensor listed files for it that are not queued, or no
   one can open the workbook.                                                                   *)
CollectedIsSaved ==
  \A g \in Collected :
    status[g] # "none" ~> \/ status[g] \in {"saved", "already_logged"} \/ g \in unsaved \cup Beside
                          \/ ~timer \/ torn

(* What is queued is logged in the end, whether or not a session goes on (_excel_timer is the
   application's own), unless no one can open the workbook.                                  *)
QueuedIsLogged == queue # <<>> ~> queue = <<>> \/ torn

(* The log of recordings has or will have every file, each recording in one row. *)
LogIsComplete == LogTypeOK /\ LoggedIsInSheet /\ OneRowForRecording /\ NoFileForgotten /\ DeferredWaits
==============================================================================
