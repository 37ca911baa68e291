# Verification of the CRFS IQ Recorder

This directory holds TLA+ models of the CRFS IQ Recorder and of its companion, the IQ
Spectrogram Converter: what is recorded and when, how recordings are watched, downloaded,
merged and checked, and what is written of them in workbooks and reports. TLC checks the
models on small instances; TLAPS proves what matters most for every instance.

Paths below are relative to `src/crfs_iq_recorder/crfs_iq_recorder/` unless they start with
`src/`. `PROJECT.json` lists the runs, the source lines each definition stands for, the
hazards each property is about, the findings and the theorems.

## The system

Two programs share the repository. The **Recorder** (PySide6) makes a CRFS sensor
record IQ data over HTTP, watches its files over SFTP, downloads them and keeps
workbooks up to date. The **Converter** (`src/iq_gui.py`, `src/iq_data.py`, Tk) turns a file
into a picture; of the Recorder it reads the manifest and the history only.

| component | state it keeps | operations | talks to |
| --- | --- | --- | --- |
| Collection controller (`cellular_runner.py`) | session (passes, rows, attempts), runner state, pending flags, downloads, `session.json` | start, tick, pause, resume, stop, end of a capture, restart, check, skip, continue, retry, missed passes | main window (calls, `capture_finished`), workers (`_start_job`), panel |
| Scheduler (`cellular_scheduler.py`) | the passes with their times and statuses | make, extend by a day, classify, next due | the controller |
| Panel (`cellular_panel.py`) | form fields; which buttons are enabled | the operator's commands | the controller |
| Main window (`gui.py`) | recording phase, who reserves the sensor, the open capture | start a capture, watch files, report once, reserve and release | controller, EMP and SFTP workers |
| Link, identity and storage (`gui.py`, `connection_monitor.py`, `sensor_storage.py`) | answers with the token of the settings they were asked under | poll, answer, save settings, close | worker threads |
| Download queue (in `cellular_runner.py`) | pending, active, waiting transfers; retries; checksums; quality jobs | queue, drain, finish, fail, requeue | SFTP workers |
| SFTP window, preview and workers (`sftp_window.py`, `sftp_client.py`) | a browsed tree, transfers, a small cache, connect pacing | list, download, delete, preview | the sensor |
| Workbook queue (`cellular_excel.py`, `cellular_workbook.py`) | a persistent queue of row results | queue, flush, retry | a worker, the workbook |
| Excel log (`excel_log.py`) | pending entries of recordings | queue, flush | a worker |
| Recording history (`recording_history.py`) | entries pending, recorded, uncertain | add, resolve, match files | main window, file checks |
| JSON files (`json_store.py`) | files replaced atomically | read, write | everything that persists |
| Merge controller (`merge_controller.py`, `iq_merge.py`) | queue, one job, registry, sidecars | request, merge, cancel, switch off, clean up | a worker |
| Pre-collection check (`cellular_preflight.py`, `cellular_quality.py`) | what was read so far | read sensor, clock, storage, workbook; judge | controller |
| Protocol and plan (`cellular_protocol.py`, `cellular_plan.py`) | worksheet rows, plan | import, re-import | panel, workbook queue |
| Manifests and reports (`cellular_manifest.py`, `cellular_runner.py`) | counts, manifests, handover summary | update at every result | controller |
| Converter (`src/iq_gui.py`, `src/iq_data.py`, `src/iq_metadata.py`) | chosen files, batch, inspection | convert, cancel, inspect, close | worker threads, `queue.Queue` |

All handlers of the controller, the panel and the main window run on the UI thread, one
at a time. Workers run a function on a thread of their own and hand the result back to
the UI thread, where a callback applies it - to whatever the state is by then. The
end of a capture is a queued signal. What is hard is therefore not a data race but
*order*: an answer that arrives after Pause, Stop or another command; a crash between
two steps of a handler; commands given in an order nobody tried; and a rule that must
hold through all of it, stated in `docs/CELLULAR_COLLECTION.md`: *anything that may have
reached the sensor is never resent automatically*.

## The modules

| module | models |
| --- | --- |
| `CollectionRunner` | the controller: passes, requests, recovery |
| `SensorRequests` | what the controller promises about its requests, as a specification of its own |
| `PassSchedule` | the times of passes over days, clock changes, sleep and restarts |
| `DownloadQueue` | transfers, checksums and quality checks taking turns with captures |
| `Reports` | counts, manifests and the handover summary of a collection |
| `CaptureWindow` | one recording after another by the main window, from request to report |
| `SensorLink` | link, identity and storage reads while settings change |
| `SensorFiles`, `PreviewPane` | the Sensor Files window; the preview in it |
| `ConnectPacer` | opening SSH connections: handshake gate, pacer, second try |
| `MergeQueue`, `PartFiles` | merges and their restarts; the check and the merge of the files themselves |
| `PreCheck` | the check before a pass |
| `WorkbookQueue`, `ExcelLog`, `JsonStore` | the protocol workbook, the log of recordings, the state files |
| `ProtocolRow`, `ProtocolSheet` | a row of the protocol; the sheet and the plan over time |
| `SpectrogramConverter`, `StftChunks`, `FrequencyFacts` | the Converter's window and jobs; its chunk loop; the frequencies it marks |
| `CollectionRunnerProofs`, `CollectionConductProofs`, `CaptureProofs`, `SensorFilesProofs`, `DownloadProofs`, `BackgroundProofs`, `ScheduleProofs`, `ConverterProofs` | theorems and their proofs |
| `MC*` | instances for TLC: named choices of constants, and which parts are explored together |

Operators named as a variant of another one and defined just before it (`AcquireTogether` before
`Acquire`) are mutations: what the code would do with a plausible slip, kept to show
that a property notices it.

A run may cover several parts that share no state in the code. Its MC module then has a
variable `part`, chosen in the initial state: one part moves, the others stay in a
state of rest. What is explored is the union of the parts, not their product, which is
all there is to see as they do not interact.

### Collection controller (`CollectionRunner`)

A handler of `CellularRunner` calls others synchronously (`_tick` calls `_start_round`
calls `_start_next_task` ...). `CollectionRunner` keeps that shape: each method is an
operator from one *world* (a record of the state handlers read and write) to the next,
a call is function application, and an action is one event of the UI thread's queue:
`Become(Handler(World))`. Nothing a handler does is left to a later step.

| state | in the code |
| --- | --- |
| `state`, `current`, `rounds`, `tasks`, `attempts`, `recordOf` | `runner.state`; the session's `current_round_id`, `rounds`, and of each task `status`, `attempts`, `record_id` |
| `disk` | `session.json` |
| `inFlight`, `preflightDue`, `preflightPending`, `storageSettled`, `settlePending`, `idleCheck`, `idleRetries`, `downloadsOnly`, `timer` | the runner's attributes of those names; `idleCheck` is `None` or the row the pending mission-list answer is for |
| `checks` | outstanding calls of `reconcile()`: waiting for the mission list, or for the listing of `wanted` |
| `owned`, `manual`, `capture` | the main window: `_external_owner`, a manual recording, the capture on its way (sent, reached the sensor, reported) |
| `clock` | each pass's time: ahead, passed, passed by more than `MISSED_AFTER_S` |
| `posts`, `reached`, `recorded` | requests sent, requests the sensor received, recordings it holds (by number of the request) |
| `permits`, `wish`, `asked`, `checked`, `slept`, `crashes` | history variables the properties speak of |

Task statuses follow `T_...`, with two refinements the code makes by other fields:
`partial` is confirmed and short, `no_file` is unknown with the reason *no file on the
sensor* (the reason `retryable_tasks` looks at).

Events: `TimerTick`; the answers `PreflightAnswered`, `StorageSettleAnswered`,
`IdleCheckAnswered`, `MissionListRead`, `FilesListed`; the end of a capture in three steps
(`RequestReaches`, `CaptureReports`, `CaptureFinished`); the operator's commands with the
guards of the panel; `ManualRecording`; `Close` and `CrashInSubmit` (the application ends
between two events, or between `start_capture` and the save in `_submit_task`), `Restart`;
`TimePasses`. What happens to a request that is out when the application ends is
`LeftBehind`: it may arrive or not, and be recorded or not.

Abstractions. The gates before a request (`_backlog_reason`, downloads reading the sensor,
local space) are one input, `gate`, chosen freely at every step; `DownloadQueue` has what is
behind it. Whether a wait has `elapsed` is free, and restricted only by fairness. A pass has
the same rows as every other; row content, texts, notes, manifests and workbooks are left
out. The file of a capture whose outcome is unknown is there when the capture is reported
or when the application ends, not later. Saves succeed. One collection per life of the
session file: dismissing it and starting another is not modelled; neither are plans saved
by older versions, the demo mode, and the paths for hosts without workers. Once a session
is done the timer is off; that it runs on for downloads only is left out.

`SensorRequests` says what all this is for: rows are asked for, a request goes out only
for a row that has been received less often than asked for, one at a time, and it arrives
or is lost. The refinement is `Requests!Spec` at the end of `CollectionRunner`: `asks` are
the permits, `received` what the sensor received, `out` the capture that is sent.

### Schedule, downloads and reports

`PassSchedule` counts ticks instead of minutes: `DayLength` ticks a day, an `Horizon` of days
that the daily extension keeps filled (the code has 14), `MissedAfter` ticks of grace. A pass
is under way or over; a pause and a backlog both are "held"; the computer sleeps, the
clock jumps by a change of the time zone, the program ends and restarts. Stop is not in it.

`DownloadQueue` has one `file` record of each local copy (its state in `_downloads`, its
`.part`, the worker with the signals in its mailbox) and the captures' gates. A worker runs on
its own thread: each of its steps (`Connect`, `Cut`, `Hash`, ...) is an action, and `Deliver`
is the handler of the oldest of its signals with every call it makes.

`Reports` has one file for each row and makes a capture one step; transfers succeed or are
given up; failed writes of a manifest are left out, and a restart happens only while the
collection is active.

### Main window, Sensor Files and connections

`CaptureWindow`: `mail` is the queue of the stream's signals, each with the number of its
capture (`_record_gen`); the watch of the sensor's folder, the header reads, the history entry,
the repeat series, the wait between recordings and the owner of the sensor are variables
of the same names as in the code. The bytes of headers are not modelled: a part is absent,
growing, or whole, and `HeaderFaults` chooses whether a header may be unreadable.

`SensorLink` abstracts a token to what it tells: a job is current until the token is raised.
`SensorFiles` has one worker and one connection for each file of a batch. When the window is closed its transfers go
on, and so do the handshakes under way, which look at the cancel event only; a worker that waits between two tries
gives up. The new window's transfer of the same file opens the same `.part` and empties it: `cut` remembers it of
the older one, and `holed` which copies may have a hole for it. What Windows does with a file that is open - it is neither
moved nor deleted - is in `Complete`.
`PreviewPane` has one job at a time, the newest selection waiting for the end of an aborted
one. `ConnectPacer` counts time in ticks. A user is a thread that connects; `starts` are the
ages of `_starts`, `blocked` what is left until `_blocked_until`, `cool` the length of the last
cool-down (0 when `_timeouts` is 0, from which the code computes it), and `Tick` lets a connect
last no longer than its three timeouts together (TCP, banner, login: 8 s each), which is longer than the
first cool-down (20 s). `begun`, `probes` and `outlived` are history.

### Background jobs

`MergeQueue` has the stages of one merge on its thread (copying into `.partial`, moved,
sidecar written) with a cancel, a failure or the end of the program at each of them, the
registry and the sidecars from which a later run knows what was merged. `PartFiles` is data: what
is read of a part, what `validate_capture()` makes of it, and the bytes a merge writes, for 18
recordings (complete, clipped, grown, a part missing, doubled, out of time, of another one).
`PreCheck` takes one reading after another - sensor, clock, storage, workbook - each of which
may raise, while the world changes; then the checks are judged.

### Workbooks, protocol and Converter

`WorkbookQueue` has a flush in the steps in which it can be interrupted: snapshot, probe of
Excel, backup, block, write, record, mark. `ExcelLog` likewise for the log of recordings, whose workbook is
saved in place: a save that is cut off by a kill or an error leaves it `torn`. What is shown of a recording is
brought up to date by the collection's `timer`, which stops with the session; the flush has a timer of its
own. `Beside` are the recordings with a file that is not queued.
`JsonStore` has the steps of `write_json()` - temporary file, flush, replace with its
retries, fallback - with a kill at each. `ProtocolRow` reads every combination of a row's cells;
`ProtocolSheet` imports the sheet, writes results into it, lets the operator edit it and imports
it again.

`SpectrogramConverter`: the Tk thread, one worker for a batch and short-lived ones that
inspect, with the queue between them; `StftChunks` the loop over the blocks of a file, sample by
sample; `FrequencyFacts` the decision what is marked.

## Properties and runs

A property of a run is a conjunction of named parts where they are about the same
thing; each part has its comment in the module. Every run but the two that expect a violation
passes, and every property has a mutant of the code that breaks it (`PROJECT.json`).

| run | instance | what it checks |
| --- | --- | --- |
| `PauseAndStop` | run-now, up to 3 passes of 1 row, repeat 2; every outcome, answer and gate; pause, resume, stop, manual recordings | `TypeOK`; `SensorHeldWhileRecording`: the manual tab is locked while a request is out; `RepeatHonoured`: no more passes than asked for; `NothingSentAfterPauseOrStop`: whatever is still on its way, nothing is sent; `StopTakesEffect` |
| `RetryAndSchedule` | 1 pass of 2 rows, four outcomes, one retry with its file check; and the schedule: 7 settings, 3 ticks a day, 1 day ahead, 1 interruption | `RetryIsSafe`: a row with a recording is not sent again, Retry failed rows sends those rows only; `NoFileMeansNoRecording`; `PassesAreScheduled`: a pass begins at an hour of the schedule or not at all, and none is dropped unseen |
| `RestartRecovery` | 1 pass of 2 rows, 1 end of the application (at rest or while recording), check, skip, continue, retry, pause | `NoBlindResend`; `SessionFileIsTrue`: `session.json` has rows, attempts and running pass as they are, and names the row of a request that is out; `ImplementsSensorRequests` |
| `ScheduleRecovery` | 2 scheduled passes, 1 end of the application at any moment, missed passes run and skipped | `PassesAreInOrder`: one running pass, finished passes complete; `PassBeginsChecked`: no request before the check of its pass, and a pass slept through waits for the operator; `CollectionEnds` |
| `Downloads` | a part and its header, 2 rows, 1 download at a time, 1 retry, backlog of 2, 2 faults, 1 restart, 1 retry by the operator | `DownloadsAreSafe`: no file forgotten, one writer of a file, verified means whole; `VerifiedIsFinal`; `DownloadsGoOn`: files settle, every row is checked, captures go on |
| `Captures` | a part and a neighbour's file, 0 or 1 repeats, 2 captures, 1 fault | `CapturesAreSafe`: confirmed means whole, "not sent" is true, one user of the sensor; `RecordingsTakeTurns`: each recording is reported before the next, the stream is held while the sensor writes; `EveryRecordingReported` |
| `SensorFiles` | 2 files, 1 connection, 1 command, 1 reopening, deletions until one succeeds; 3 previews with a cache of 1; 2 hosts, 2 changes of the settings | `AnswersAreOfTheSettings`; `WindowsAreRight`: files offered are there in the listed sizes, the preview shows the selected file, one storage read; `TransfersAreSafe`: only files of the sensor's size are kept, with a hole only if two windows wrote one, a cancel stops; `WindowsGoOn` |
| `Background` | 2 groups of parts (one broken), 1 restart; 3 users of 2 connections, connects of up to 3 ticks and cool-downs of 2; 18 recordings; the check with 1 change of the world | `MergeIsSafe`; `ConnectsArePaced`; `PartsAreJudgedRight`; `CheckIsReliable`; `BackgroundGoesOn` |
| `Workbook` | 2 passes of 2 rows, 2 edits, 1 trouble; a log of 3 recordings of 2 parts with 2 faults; 3 documents; 2 sheets; 5 campaigns | `ResultsAreSafe`, `LogIsComplete`, `StoreIsSound`, `PlanIsAsWritten`, `ReportsAreTrue`, `NothingOverwritten`, `QueuesDrain` |
| `Converter` | 2 jobs of 3 files, 2 changes of the choice, 1 trouble; files of up to 14 samples, 4 bins | `ImagesAreRight`, `SpectrumIsWhole`, `MarksAreRight`, `ConverterGoesOn` |
| `CrashWhileSubmitting` | 1 pass of 2 rows, the application may end inside `_submit_task` | finds `NoBlindResend` violated |
| `BlocksBecomeInstructions` | the protocol with blocks of results above its rows | finds `BlocksAreNoInstructions` violated |

What the names of the last runs hide: `MergeIsSafe` - each recording is merged once, nothing
half merged is left, an automatic merge only of what was asked for; `ConnectsArePaced` - no
more connects in a window than allowed, and one probe after a timeout, but for those during which an older connect
ended; `LogIsComplete` - what is logged is in the sheet, each recording in one row, and nothing queued is
forgotten; `QueuesDrain` - what is queued is written in the end, also when no session goes on, and shown as saved while
one does; `PartsAreJudgedRight` -
a recording is merged if and only if it is whole, in whatever order its parts are listed, and a
merged file reads back as one recording; `CheckIsReliable` - a pass that begins found
the sensor ready when it was read, what was not read is never ok, Excel alone stops no
pass; `ResultsAreSafe` - each row of the workbook holds its own result, none is lost,
backups come first; `PlanIsAsWritten` - the rows to record are those the sheet has, with the
frequencies and durations it gives; `ReportsAreTrue` and `NothingOverwritten` - counts
and manifests are those of the rows and the files, what was typed by hand stays;
`ImagesAreRight` - a picture is of its file, made as chosen, and an old picture is replaced
only by a whole one; `SpectrumIsWhole` - no sample left out or counted twice at the seams of
blocks; `MarksAreRight` - the marked frequency is the one asked for, and only if the file
covers it.

### Bounds

Two rows are needed for "the other row is queued", two passes for "one is running and one
pending", and a third one for the repeat count to be exceeded. `MaxAsks = 2` is the pass and
one retry; by then every status a row can reach has been retried once. One end of the
application reaches each recovery path; a second one starts from states the first one also
leaves (the invariants behind the theorems were checked with two). `MaxChecks = 1` is one file check
at a time. `IdleRetries` is 0 or 1 where the code has 3: what matters is the step below the
bound and the step over it. `NRounds` also ends a collection that repeats until stopped, which no
run uses.

The schedule needs a day, the next one and what was missed before: `LastTick = 9` is three days of
three ticks. Two files of a row (the part and its header) take all orders of transfer, failure
and retry, the second row is the capture that must go on meanwhile. `Faults` and
`Troubles` bound how often the outside fails, as each failure leads back to a state of a
shorter behaviour with one try less; two are needed where a retry of a retry is at
stake. A cache of one entry is full after one preview and three files fill it twice. Three
users of two slots with two connects a window are the least that compete for a slot, for
the window and for the probe. Files of 14 samples cover fewer and more samples than one
block, and every remainder at the seams.

### Fairness

Liveness is checked under the fairness the code's scheduling gives, stated in each module:

* `CollectionRunner` (`Fairness`). The timer is a `QTimer` that is on as long as the
  session is active, and the gate is clear at some tick because downloads end or are given
  up and waits have a deadline: weak fairness of `TimerTick("clear", TRUE)`. Worker jobs answer,
  captures are ended by the deadlines of the file watch, queued signals are delivered, time
  passes: weak fairness. The answer of the mission list is dropped when it arrives while the
  collection is held back by its downloads; as their number only falls while nothing is
  recorded, it cannot be dropped for ever: strong fairness. Nothing is assumed of the operator,
  so a paused collection and one with only missed passes left are legitimate ends. A job that
  raises never calls back (`gui.py`, `_job_failed`); that none does is the assumption in "worker
  jobs answer".
* `DownloadQueue`: weak fairness of the controller's own steps, of each row's listing, of time,
  and of each file's retry delay, signals and worker; a worker's steps have timeouts of the
  SSH library. `CaptureWindow`: of time, polls, listings, header reads, the delivery of signals
  and the ends of HTTP requests, all with deadlines.
* `SensorFiles`, `PreviewPane`, `SensorLink`, `MergeQueue`, `PreCheck`, `SpectrogramConverter`: weak
  fairness of each worker's next step and of the delivery of its result. A download worker may be refused and try again only
  while its patience lasts, 10 minutes: strong fairness of its connecting or giving up. `ConnectPacer`: of its
  threads' next steps; a connect has a timeout, and a thread gives up after `PATIENCE`.
* `WorkbookQueue`: a flush goes on whenever one can; of the operator it is assumed that
  Excel's user leaves the cell being edited at some time. `ExcelLog`: of the flush, whose
  timer is the application's own, and of `_refresh_excel_status()`, but only while the collection's timer runs.

Deadlock is checked in the five runs of `CollectionRunner` (a finished collection rests in
`Terminating`). The other configurations say `CHECK_DEADLOCK FALSE`: their parts really come to rest
when nothing is asked of them.

## Where the code and its documentation disagree

Two runs look for a counterexample and find one:

| run | what happens | against |
| --- | --- | --- |
| `CrashWhileSubmitting` | the application ends after `start_capture` and before the save: the row is still queued and Continue sends it again | "never resent automatically" (`docs/CELLULAR_COLLECTION.md:54`) |
| `BlocksBecomeInstructions` | a row of the plan is edited after a pass: its copy in the block of results is then the first with its key (`cellular_protocol.py:1165`), is imported as an allocation, and would be recorded | "never become instructions" (`docs/CELLULAR_COLLECTION.md:145`) |

The following differences were met while modelling. They have no run of their own; where a
model reaches one, the run that would meet it excludes the command that leads to it, by the
constants named here.

Collection controller (`cellular_runner.py`):

* The application ends during a recording: the row names no history entry (1568), so the check
  with the sensor calls it one without a file (3127, 3208), which makes it retryable
  (`CrashPoints` with `"recording"` and `NoFileMeansNoRecording`).
* A row becomes uncertain while a file listing is out; the answer marks it without having looked
  for it (3155), and the retry sends it again (`"act_in_check"`).
* Stop, then the blocking answer of the pass check pauses the stopped session (1364); Resume records
  without a reservation (`"stop_in_preflight"`).
* Stop in the middle of a pass, then Retry failed rows: the rows left queued go too (3541); after a
  Stop *between* passes the retry adds a pass to the repeat count (`Commands` with both
  `"stop"` and `"retry"`).
* A run-now pass that was missed while the one before it ran on is skipped (3595) and the collection is done; Retry
  failed rows then adds a pass and records its rows too, because the count is not full (948)
  (`Commands` with both `"skip_missed"` and `"retry"` and `Mode` `"now"`).
* Retry failed rows instead of Continue after a restart: no check of the pass (3548), and passes
  slept over are not marked as missed (`"retry_after_restart"`).
* An idle check that is out when its pass is stopped, answered during a retried pass whose own
  check is still due, sends before that check (`"stop"` and `"retry"`).
* Skip uncertain with a running pass skips that pass's row of the same key and leaves the uncertain one
  (`cellular_panel.py:1652`), so that Continue is refused for ever.
* A request can meet a download that reads the sensor's disk: refused workers connect during the
  idle check (1185, 1958).
* "Retry downloads" in the interrupted state, then Continue: two workers write one `.part` (2376, 3400).
* With checksums off, a copy that is already there is verified at once, without quality check and
  merge (2014). Transfers and checksums are matched by file name (2216), the newest row
  first.
* The handover summary lags after the last checksum or a check with the sensor (2508, 3211) and after a skipped row
  of a finished pass (3434), until the next event recounts.
* `_excel_retry` lives in memory only (2681). A session that cannot be saved is only logged (752).
* A daily schedule whose calendar is not read for longer than the 14-day horizon loses
  those days unseen (`PassSchedule`: `lapsed`); in the hour a clock change leaves out, two listed
  times are one pass.

Main window and sensor (`gui.py`, `api_client.py`):

* `_cancel_wait` shows *confirmed* whenever there is a final file, also after a partial recording (3456).
* A neighbour's file can be confirmed as the recording's own (3068); a failed header read closes
  the stream while the sensor writes; a reset connection is reported as "not sent"
  although the request may have arrived (`api_client.py:955`); a listing that never
  succeeds leaves the recording in *finalizing* (3046).
* Stop between `singleShot(0)` and `_on_start` does not stop the next recording (1527).
* The failed signal of an aborted download clears `_manual_download` of a newer job (2070, 2142); the
  Sensor Files window, a card and the collection may write the same `.part`.
* The window closed during a handshake: the transfer begins nevertheless (`sftp_window.py:491`, 1018), and the new
  window may transfer the same file into the same `.part`. If one of the two ends early, the other leaves a file
  of the right size with a hole, and `finalize_download()` compares sizes only (`download_util.py:50`). `SensorFiles`
  reaches it (`holed`).
* A connect may take 8 s each for TCP, banner and login (`sftp_client.py:569`), longer than the cool-down of 20 s. Begun
  before another one timed out, it can end while a later one is the probe, and its end clears `_probing`
  (248, 257): a second probe starts, against "then one at a time until one gets through"
  (`docs/CELLULAR_COLLECTION.md:110`). `ConnectPacer` reaches it (`outlived`).
* Storage of another sensor stays on display as outdated after a failed read (1765).
* A cancelled batch leaves its cell "Queued" (`sftp_window.py:1686`).
* "Try today's folder" does not look at whether the window is busy (`sftp_window.py:991`): with two
  listings out, the second can arrive during a transfer, and a part is shown "Verified" with the size of the
  earlier one. The invariants of the window were checked with two listings in flight as well; the run has one, because of
  its liveness.
* An automatic merge from a listing that is out of date misses later parts; the end of the program
  between the rename and the sidecar makes it merge twice.

Workbooks and state files:

* `record_blocks` comes after the save: a kill between the two, or a Save that Excel
  refuses, makes the next flush write a second block (`cellular_workbook.py:1240`). `mark_done`
  removes a newer result of the same row (1099).
* A row inserted above the plan's rows makes later passes copy rows with wrong keys. With the
  in-place layout, a duplicated template row that holds a result is read as one.
* The workbook of the log is saved in place (`excel_writer.py:307`, `cellular_excel.py:127`), where the protocol workbook is
  replaced by a temporary file: a kill during the save, or an error of the disk, tears it, and only the
  backup, made once, has the earlier rows. Each later write fails, and the queue waits. `ensure_results_sheet()` raises on
  a torn workbook what nobody handles: out of `_on_capture_done()`, and out of every `_tick()` while a
  recording is in `_excel_retry`, so that the collection stands still. `ExcelLog` has no step for these handlers then;
  `CollectionRunner` has no Excel log.
* Recordings are shown as saved by `_refresh_excel_status()`, which only `_tick()` calls (`cellular_runner.py:1043`), and
  the timer stops when the session is done (1789) or its last download is (2420): what is deferred or queued then is
  neither tried again nor shown as saved until the session goes on, and a new session never looks at it. The files that
  are queued already are written all the same.
* A recording with an `.xdat` sidecar (`cellular_excel.py:164`), or with a file the sensor listed late (1911), is never
  shown as saved: these files are not queued, and all of `state.files` have to be logged (2732).
* `ExcelLog`: a failed backup is ignored; a write through the open Excel that fails may leave a half-filled row in the
  unsaved book, which is not modelled; files are matched by name; an edit between load and replace is
  overwritten. `json_store`: the plain-write fallback leaves an old `.bak`.
* The pre-check calls an unread identity a match (`cellular_quality.py:837`) and skips the model
  when the serial is unknown; a copy that lost its trailer is a warning of level ok.

Converter: two pictures may take the same numbered name (`iq_gui.py:218`); a temporary picture is left
when the window closes during a save; an exception other than `TclError` in a callback ends
`_pump_ui_queue` (1268); a truncated WAV gives a blank tail without a message.

## What is proved

The proof modules extend the models they are about, so a theorem names the very definition a run
checks. Each theorem holds for every value of the constants that satisfies the module's named
assumptions: any number of passes, rows, files, users, restarts and so on. `tlapm` checks them to the last leaf.

| theorem | establishes | condition |
| --- | --- | --- |
| `TypeCorrect` | `Spec => []TypeOK` | |
| `NoResend` | `NoBlindResend` | `SavesFirst`: the application does not end between `start_capture` and the save |
| `RequestsImplemented` | `Spec` implements `SensorRequests` | `SavesFirst` |
| `PassesInOrder` | `PassesAreInOrder` | |
| `SessionFileCurrent` | `SessionFileIsCurrent` | |
| `SensorHeld` | `SensorHeldWhileRecording` | `Orderly` |
| `SessionFileTrue` | `SessionFileIsTrue` | `Orderly` |
| `NothingUnbidden` | `NothingSentAfterPauseOrStop` | `Orderly` |
| `PassesChecked` | `PassBeginsChecked` | `Orderly` |
| `RepeatKept` | `RepeatHonoured` | `Orderly` |
| `FilesFound` | `NoFileMeansNoRecording` | `Orderly`, `QuietEnds` |
| `RetrySafe` | `RetryIsSafe` | `Orderly`, `QuietEnds`, and no pass of a run-now collection is skipped |
| `WindowsRight`, `TransfersSafe`, `AnswersTimely` | the three safety properties of `SensorFiles` | |
| `DownloadsSafe`, `VerifiedFinal` | `DownloadsAreSafe`, `VerifiedIsFinal` | `ContinuesFirst` |
| `ConfirmedWhole` | `TypeOK`, `ConfirmedIsWhole` and `OneUserAtATime` of `CaptureWindow` | |
| `CapturesSafe` | `CapturesAreSafe` | `ResetsAreEarly` |
| `OneAfterAnother` | `ReportedBeforeNext` and `HeldSeriesPostsNothing` | |
| `TurnsTaken` | `RecordingsTakeTurns` | `HeadersAreReadable` |
| `MergeSafe` | `MergeIsSafe` | |
| `ConnectsPaced` | `ConnectsArePaced` | |
| `CheckReliable` | `CheckIsReliable` | |
| `PassesScheduled` | `PassesAreScheduled` | |
| `StoreSound` | `StoreIsSound` | |
| `ImagesRight` | `ImagesAreRight` | |
| `MarksRight` | `MarksAreRight` | |

**Requests (`CollectionRunnerProofs`).** `NoBlindResend` is not inductive: whether a row may be sent
depends on the requests still to come. `IInv` says that for each row

    received + on its way + queued <= permits

where a request is on its way if it is sent, or reported as not sent and not yet queued
again; that the session file has the rows as they are between two events (a restart loads it);
and that everything has its type. As handlers are functions on worlds, the
invariant is a predicate `Good(world, received)`, and the proof follows the call graph: one lemma for
each helper says that it takes a good world to a good one, one lemma for each group of
actions applies them, `NextKeeps` collects the actions. `SavesFirst` excludes only `CrashInSubmit`;
the run `CrashWhileSubmitting` shows that it cannot be left out. `LeastExists` and `GreatestExists`
(a non-empty set of naturals has a least element, a bounded one a greatest) justify the `CHOOSE`s.

**Refinement (`CollectionRunnerProofs`).** From the same invariant: each handler is one of
`AsksNone` (no row asked for, none sent), `AsksRows` (permits grow) or `Sends` (one request for a row that has
a queued permit left), and these are what `SensorRequests` allows or a stutter. Only the safety part is
meant: `SensorRequests` states no fairness.

**Order (`CollectionRunnerProofs`).** A pass is closed when no row of it is queued. That no row is on its
way either rests on what `inFlight` means in every state, so the invariant `OrderInv` adds to `IInv`
that the world is `Neat`: the passes in order (`Passes`), `inFlight` exactly while the window
has the capture (`Flight`), which states are at rest (`Steady`), and the file as it should be (`Filed`) - and once more for
the rows of a retry whose file check is out (`Asking`), because its answer acts on rows chosen
earlier. No condition on commands or crashes is needed.

**Conduct (`CollectionConductProofs`).** Who sends a request, and when, is decided by answers that were
asked for in an earlier state, so the four properties need to know which answers may be out and
what they are still good for. `ConductInv` adds to `OrderInv` two parts. `Conduct` is about the collection: the
check of a pass is out only while there is something to record and nothing is being recorded
(`CheckIsDue`); while a pass has to be checked, an idle check that is out is of another pass and
sends nothing (`IdleCheckIsStale`); a collection that goes on holds the sensor (`Reserved`); a pass
that need not be checked any more was checked since the application started (`Vouched`). `Around` is about the world
around it: the window gives the sensor to the collection or to a manual recording (`Locked`), what
goes on by itself was not halted by the operator (`Obeyed`), one file check is out at most and only in a
collection at rest (`OneCheck`), a pass slept over waits only while the collection does (`SleptWaits`), and the file says
of a finished collection which passes it had (`EndIsWritten`). Within a handler `StopIsPending`
may fail for a moment - the capture of a stopped collection has ended and the stop has not been
carried out - so its lemmas speak of `Loose` worlds. Handlers that send nothing are shown to be
`Obeys`; the few that send say in which state they may.

`Orderly` leaves out four things an operator can do: act while a file check runs (`"act_in_check"`), stop
during the check of a pass (`"stop_in_preflight"`), use Retry failed rows before Continue after a restart
(`"retry_after_restart"`), and use both Stop and Retry failed rows. The commands of all five runs of
`CollectionRunner` are orderly. The second cannot be left out: with it TLC finds the
recording without a reservation listed above (the other properties hold in the 419,251
states of that instance). The last two are the ways around the check of a pass listed above. For the
first no counterexample to the four is known (none in 733,770 states); it is there because
`OneCheck` fails without it. Not every theorem needs each of them: one invariant serves all.

**Passes and recordings (`CollectionConductProofs`, second half).** How many passes begin, and which rows
may be sent again, are questions about the whole of a collection. `StrideInv` adds to `ConductInv` a count and a
memory. The count is `Tally`: of a run-now collection one pass at most is left, no more are known than were asked for
(`Bounded`), and a collection that is done and was checked has none left and, if nothing cut it short, none to come
(`DoneIsOver`, `EndsRight`). The memory is `KeptIn(world, recorded)`: a row of which the sensor holds a recording is
counted or skipped, or it is uncertain and the request the program has on record is one of which there is a recording.
It survives a file check because the listing looks for every uncertain row (`Wanted`): the rows are chosen when the
mission list is read, and nothing becomes uncertain until the answer. `RetryFine` says that after Retry
failed rows nothing but the running pass is left (`Lasts`) and that every row that waits was asked for. What the
handlers do to these three is one relation between worlds, `Strides`, which is reflexive and transitive, so the lemmas
follow the call graph once more: a row that was sent and not in vain is left alone (`Spares`), the count stays
right, and once only the running pass is left no row is taken up that did not wait (`GoesNoFurther`). The
handlers that learn how a request ended (`OnCaptureFinished`, `OnFilesChecked`, `SkipUncertain`, `Closed`) and
the two that begin something (`StartSession`, `Retry`) have lemmas of their own. `QuietEnds` says that the application
does not end while a request is out; without it the row has no record, as listed above. `RetrySafe` also
leaves out skipping a missed pass of a run-now collection, after which TLC finds the added pass listed
above. Its two parts are separate in `Prudent`, what every step keeps: that a recorded row is not sent
again does not need this third condition.

**Sensor Files and the sensor's answers (`SensorFilesProofs`).** The window, the preview and the main window's
link share no state; each has its invariant. `WindowInv`: parts are written in turn, what was offered
to the merge is there in the sizes of the listing, what is called saved is there, a cancelled batch has nothing left to
start, and a "finished" signal in the mailbox is of a file that is there. For `TransfersSafe` it adds that
no two transfers have one file while no window was closed (`OneWindow`), and that a hole comes only of an open
transfer whose file another has emptied (`HolesCut`). `PreviewInv`: every letter and job
with the newest token is of the selected file (`Timely`). `LinkInv`: while the window is alive, a job
whose token was not raised is for the saved settings, or these have no sensor of their own,
and the storage read for these settings is the one in flight and the only one that was not
cancelled (`OneRead`). The attempt showed that an earlier form of `SavedIsThere` - a file
shown as verified is as long as the list says - is false with two listings in flight; see the
disagreements above.

**Downloads (`DownloadProofs`).** `QueueInv` ties the five things that know of a file together: its status, its
place in the queue, its two workers and the signals they have sent that were not handled yet. `Fits` says what a
status allows: a worker only writes a file that is called downloading and has not told its end; a worker's end or a
hash is the last thing in the mailbox (`LastWords`), and the hash is of the copy that is there.
`Tended` says the converse, that a file that is said to be worked on has somebody working on it; it holds only
while the collection lives, and `AtRest` says what is there after a restart until Continue. Each handler is
one lemma; those that end in `_drain_downloads` share `Drained`, the others `OneFile`. `Only`,
the selection from a list, is a recursive function: `OnlyLeaves` follows from a set of naturals
that has 0 and with each number the next (`Counting`). `ContinuesFirst` excludes only Retry downloads
between a restart and Continue, by which one file gets two workers (listed above).

**Captures (`CaptureProofs`).** The window judges a recording by what it has heard, and the sensor may be
ahead of it, so `CaptureInv` relates the two. `Mailbox`: the signals not handled yet are in order -
the end of the stream is the last of them, the end of the mission comes once and after the parts - and
every part the sensor has named is known or in the mail; once the window has heard that the mission is
finished it knows all files. `Radio`: a file is open only while the stream is. `Stages`: a recording is made,
watched or read until it is reported, one of the three at a time, and the stream runs only meanwhile.
`SeriesInv`: a series goes on by a posted start, a countdown or a pause, one of them, and only after a
report. `Watched`: when the headers are read, the files found are those the sensor named, or
nothing has changed for as long as the watch lasts. `Unsent`: no signal in the mail says "not sent" of a request the
sensor has. One lemma for each action shows both that `CaptureInv` is kept and what the step may
not do (`Conduct` in this module). Two conditions each exclude one disagreement listed above:
`ResetsAreEarly`, that no connection is reset after the sensor has the request, and
`HeadersAreReadable`, that no session fails while headers are read. Without either TLC finds the
counterexample; `ConfirmedWhole` and `OneAfterAnother` say what holds without them.

**Background jobs (`BackgroundProofs`).** `MergeInv`: one job; a waiting request is eligible, not made yet and
disjoint from the others; what a job has written so far fits its stage (`JobFine`). `PacerInv`: the
connects still remembered are exactly the newest of all that began, ages falling (`Paced`), and, with `Single` the probes
no older connect has ended beside, that there is one of them at most, that none of the connects under way was
begun after it (`ProbeAlone`), and that `_probing` is set while there is one (`ProbeKnown`). So what ends beside
such a probe is older than it, and makes it no longer `Single`; a probe can begin only when `_probing` is
cleared. The length of a connect does not matter. It needs that there are finitely many
users. `CheckInv`: each check is the judgement of what was read.

**Schedule (`ScheduleProofs`).** `ScheduleInv`: the pass that is under way is known as such, no status was judged
before its time had come (`Judged`), and the passes are those of the days from the first to the one the
calendar was last read on, the horizon included (`CalendarRead`). Reading on a later day extends that
(`CalendarGoesOn`) because the days join, unless it comes too late, and because the first n of a set that was cut to its
first n are still the first n when more is added (`FirstAgain`, by counting what comes before each
time). `TodayGrows` - a later moment is never on an earlier day, whatever the clock change - rests on the
definition of `WallAt` as the greatest wall time and needs no sign of the change; it assumes that the clock
change comes later than it is long (`ScheduleAssumption`). `TickKeeps` is the one lemma on `_tick()`; every action that ticks
cites it, with the pass the operator asked for exempt.

**State files (`ScheduleProofs`).** `JsonInv`: before the replace the temporary file is the whole new text, and a backup is
made only once the file itself is.

**Converter (`ConverterProofs`).** A report only repeats what the worker noted file by file, while later jobs go on
writing into the same folder. `Saved(j, ok, names, pictures)` says what a set of files of job `j` means for the
pictures that are there; `ConvInv` states it of the worker that runs, of its message in the queue and of the last report. A picture of
a later job keeps it (`SavedStays`), one of the job itself adds its file (`SavedMore`). That the message is of the newest
job, and that no worker runs when another is started, is `TurnFine`: while the window lives, either the
controls are enabled and nothing is out, or there is one worker or one message. `NamesApart` says of the names of a batch that only numbered ones
can meet: the count of earlier files of the same stem grows along the batch. It needs that a
stem is not empty (`IsName` in `ConverterAssumption`). For `MarksRight` the lookup is a function of
file and records, which no step changes; the proof is by the places a request can come from: chunk, manifest, history.

## Only model-checked, and why

* Liveness and deadlock (`StopTakesEffect`, `CollectionEnds`, `DownloadsGoOn`, `EveryRecordingReported`,
  `WindowsGoOn`, `BackgroundGoesOn`, `QueuesDrain`, `ConverterGoesOn`): fairness and `ENABLED` are beyond the prover.
* What a fold or a walk along a sequence computes: rows applied to a sheet (`ResultsAreSafe`, `LogIsComplete`), parts
  in time order (`PartsAreJudgedRight`), the plan (`PlanIsAsWritten`, `BlocksAreNoInstructions`), counts (`ReportsAreTrue`),
  the samples of a chunk loop (`SpectrumIsWhole`). They need induction over data.

## Not modelled

The components marked *not modelled* in `PROJECT.json` are pure functions of names and folders, keeping a reference to a
thread, and presentation. Of the others these are left out: dismissing a session and plans of older
versions; the demo modes; parsing of times and names; cell formats, layouts and wording; the bytes
of samples and headers; the values of the spectrum, of levels and of quality figures; the SFTP, SSH and HTTP
libraries beyond what the code sees of them; the catalogue of the history; the file tree and its
context menus; installers and signing. The notes of the components say so one by one.
