---------------------------- MODULE CaptureWindow ----------------------------
(***************************************************************************)
(* One recording after another by the main window (gui.py): the POST with  *)
(* the sensor's event stream on a worker thread (api_client.py), the watch *)
(* of the sensor's folder (file_watch.py), the reading of the headers      *)
(* (capture_measure.py), the history entry the files are matched to        *)
(* (recording_history.py), the repeat series, and the feature that may     *)
(* hold the sensor instead of the manual tab.                              *)
(*                                                                         *)
(* Signals of the stream's thread wait in mail, oldest first, until the UI *)
(* thread handles them.  Those of an earlier capture carry an older number *)
(* (_record_gen) and change nothing: a launch drops them.                  *)
(***************************************************************************)
EXTENDS Naturals, Sequences

CONSTANTS
  Parts,        \* the files the sensor writes for a recording
  Neighbour,    \* files of another client that the folder may hold
  Rounds,       \* the numbers of recordings a series may be set to; 0: until stopped
  Captures,     \* bound: recordings launched
  Faults,       \* bound: listings that fail, headers that are not read, errors of the sensor
  Outcomes,     \* how the POST may end without a stream: "not sent", "rejected", "no reply", "reset"
  StreamEnds,   \* how the stream may end by itself: "lost", "budget", "closed"
  SilentFinish, \* whether the sensor may finish without naming a file
  HeaderFaults  \* whether the session may fail while headers are read

Files == Parts \cup Neighbour

ASSUME CaptureAssumption ==
  /\ Parts \cap Neighbour = {}
  /\ Rounds \subseteq Nat /\ Captures \in Nat /\ Faults \in Nat
  /\ Outcomes \subseteq {"not sent", "rejected", "no reply", "reset"}
  /\ StreamEnds \subseteq {"lost", "budget", "closed"}
  /\ SilentFinish \in BOOLEAN /\ HeaderFaults \in BOOLEAN

VARIABLES
  phase,      \* _record_phase
  active,     \* _recording_active; the record timer runs with it
  http,       \* _http_in_flight
  client,     \* whether _record_client is set: the stream is held
  watching, measuring,
  named,      \* _sensor_parts
  finished, error, lost,  \* _sensor_finished, _sensor_error, _stream_lost
  watch,      \* what the watch knows of a file: "unseen", "empty", "seen", "final"
  pin,        \* the entry's iq_stem: "none", "own", "neighbour"
  quiet, since,  \* time since the listing changed and since the recording time elapsed:
                 \* 0, 1 (SETTLE_S and NO_FILE_GRACE_S have passed), 2 (MAX_WATCH_AFTER_ELAPSED_S)
  listing,    \* the folder listing on a worker: "none", "current", "stale"
  series,     \* [on, left, stop, pause, paused]: _series_active, _series_remaining, ...
  waiting,    \* _waiting
  queued,     \* _on_start is posted
  owner,      \* _external_owner
  request,    \* whose recording this is: "none", "manual", "external"
  mail, stream,  \* the stream's signals; [st, parts, finished, error] as its thread has it
  radio,      \* the sensor: "off", "on", "done"; its mission is open while it is not off
  disk,       \* a file at the sensor: "absent", "open", "full", "short"
  fresh,      \* files that have grown since the last listing
  got,        \* the sensor has the request
  captures,   \* recordings launched, of them in this series
  reported,   \* the current capture was reported (_summary_emitted)
  outcome,    \* the result reported last
  faults

watch_vars == <<watching, measuring, watch, pin, quiet, since, listing>>
told_vars == <<named, finished, error, lost>>
series_vars == <<series, waiting, queued>>
owner_vars == <<owner, request>>
sensor_vars == <<radio, disk, fresh, got>>
count_vars == <<captures, reported, outcome>>
vars == <<phase, active, http, client, watch_vars, told_vars, series_vars, owner_vars, mail,
          stream, sensor_vars, count_vars, faults>>

Phases == {"idle", "recording", "finalizing", "confirmed", "partial", "unknown", "failed", "waiting"}
Ended == {"lost", "budget", "closed", "cancelled"}
Signals == [kind : {"finished", "error", "lost", "budget", "closed", "cancelled",
                    "not sent", "rejected", "no reply", "reset", "sensor error"}]
           \cup [kind : {"part"}, file : Parts]
NoSeries == [on |-> FALSE, left |-> 0, stop |-> FALSE, pause |-> FALSE, paused |-> FALSE]
Endless == 0
Silent == [st |-> "none", parts |-> {}, finished |-> FALSE, error |-> FALSE]

TypeOK ==
  /\ phase \in Phases /\ active \in BOOLEAN /\ http \in BOOLEAN /\ client \in BOOLEAN
  /\ watching \in BOOLEAN /\ measuring \in BOOLEAN
  /\ named \subseteq Parts /\ finished \in BOOLEAN /\ error \in BOOLEAN /\ lost \in BOOLEAN
  /\ watch \in [Files -> {"unseen", "empty", "seen", "final"}]
  /\ pin \in {"none", "own", "neighbour"}
  /\ quiet \in 0 .. 2 /\ since \in 0 .. 2 /\ listing \in {"none", "current", "stale"}
  /\ series \in [on : BOOLEAN, left : Nat, stop : BOOLEAN, pause : BOOLEAN, paused : BOOLEAN]
  /\ waiting \in BOOLEAN /\ queued \in BOOLEAN
  /\ owner \in {"none", "collection"} /\ request \in {"none", "manual", "external"}
  /\ mail \in Seq(Signals)
  /\ stream \in [st : {"none", "posting", "open", "ended"}, parts : SUBSET Parts,
                 finished : BOOLEAN, error : BOOLEAN]
  /\ radio \in {"off", "on", "done"} /\ disk \in [Files -> {"absent", "open", "full", "short"}]
  /\ fresh \subseteq Files /\ got \in BOOLEAN
  /\ captures \in 0 .. Captures /\ reported \in BOOLEAN
  /\ outcome \in {"none", "confirmed", "partial", "unknown", "failed", "not sent", "rejected"}
  /\ faults \in 0 .. Faults

Init ==
  /\ phase = "idle" /\ active = FALSE /\ http = FALSE /\ client = FALSE
  /\ watching = FALSE /\ measuring = FALSE /\ watch = [f \in Files |-> "unseen"]
  /\ pin = "none" /\ quiet = 0 /\ since = 0 /\ listing = "none"
  /\ named = {} /\ finished = FALSE /\ error = FALSE /\ lost = FALSE
  /\ series = NoSeries /\ waiting = FALSE /\ queued = FALSE
  /\ owner = "none" /\ request = "none"
  /\ mail = <<>> /\ stream = Silent
  /\ radio = "off" /\ got = FALSE /\ fresh = {}
  /\ disk = [f \in Files |-> IF f \in Neighbour THEN "full" ELSE "absent"]
  /\ captures = 0 /\ reported = TRUE /\ outcome = "none" /\ faults = 0

-----------------------------------------------------------------------------
(* The sensor ends its mission when its client disconnects: a file it still writes is
   closed at what it holds.                                                            *)
Disconnected(d) == [f \in Files |-> IF f \in Parts /\ d[f] = "open" THEN "short" ELSE d[f]]

(* _abort_record_stream(), in a handler that leaves the signals m unhandled. *)
Abort(m) ==
  LET running == client /\ stream.st \in {"posting", "open"}
  IN  /\ client' = FALSE
      /\ radio' = IF running THEN "off" ELSE radio
      /\ disk' = IF running THEN Disconnected(disk) ELSE disk
      /\ stream' = IF running THEN [stream EXCEPT !.st = "ended"] ELSE stream
      /\ mail' = IF running THEN Append(m, [kind |-> "cancelled"]) ELSE m

(* capture_busy_reason() and manual_busy_reason() *)
Busy ==
  \/ active \/ http \/ watching \/ measuring \/ phase \in {"recording", "finalizing"}
  \/ series.on \/ waiting

(* _launch_capture(): the files of the last recording belong to another entry of the history *)
Launch(who) ==
  /\ captures < Captures /\ captures' = captures + 1
  /\ phase' = "recording" /\ active' = TRUE /\ http' = TRUE /\ client' = TRUE
  /\ named' = {} /\ finished' = FALSE /\ error' = FALSE /\ lost' = FALSE
  /\ measuring' = FALSE /\ pin' = "none" /\ reported' = FALSE /\ request' = who
  /\ watch' = [f \in Files |-> "unseen"] /\ quiet' = 0 /\ since' = 0
  /\ mail' = <<>> /\ stream' = [Silent EXCEPT !.st = "posting"]
  /\ radio' = "off" /\ got' = FALSE /\ fresh' = {}
  /\ disk' = [f \in Files |-> IF f \in Parts THEN "absent" ELSE disk[f]]
  /\ UNCHANGED <<watching, listing, owner, outcome, faults>>

(* _series_total(): a single recording is no series; the first of a series has begun *)
SeriesOf(rounds) ==
  IF rounds = 1 THEN series
  ELSE [NoSeries EXCEPT !.on = TRUE, !.left = IF rounds = Endless THEN Captures ELSE rounds - 1]

(* _on_start(), by the button or posted by the series *)
StartManual(rounds) ==
  /\ ~active /\ owner = "none" /\ ~watching /\ ~measuring /\ phase # "finalizing"
  /\ ~series.on /\ ~series.paused
  /\ series' = SeriesOf(rounds)
  /\ Launch("manual")
  /\ UNCHANGED <<waiting, queued>>

StartPosted ==
  /\ queued /\ queued' = FALSE
  /\ IF active \/ owner # "none" \/ watching \/ measuring \/ phase = "finalizing"
     THEN UNCHANGED <<phase, active, http, client, watch_vars, told_vars, series,
                      owner_vars, mail, stream, sensor_vars, count_vars, faults>>
     ELSE Launch("manual") /\ UNCHANGED series
  /\ UNCHANGED waiting

(* set_external_owner(), release_external_owner(), start_capture() *)
SetOwner ==
  /\ owner = "none" /\ ~Busy /\ ~series.paused
  /\ owner' = "collection"
  /\ UNCHANGED <<phase, active, http, client, watch_vars, told_vars, series_vars, request, mail,
                 stream, sensor_vars, count_vars, faults>>

ReleaseOwner ==
  /\ owner = "collection" /\ request # "external" /\ owner' = "none"
  /\ UNCHANGED <<phase, active, http, client, watch_vars, told_vars, series_vars, request, mail,
                 stream, sensor_vars, count_vars, faults>>

StartExternal ==
  /\ owner = "collection" /\ ~Busy
  /\ Launch("external")
  /\ UNCHANGED series_vars

-----------------------------------------------------------------------------
(* _end_series(), _start_next_now() and, with the wait w the operator has set or not,
   _maybe_start_next(): each gives the series, whether it waits and whether _on_start is posted. *)
SeriesEnded == series' = NoSeries /\ waiting' = FALSE /\ UNCHANGED queued
WatchDropped == watching' = FALSE /\ listing' = IF listing = "none" THEN "none" ELSE "stale"

StartNextNow ==
  IF ~series.on \/ series.stop \/ series.left = 0 THEN SeriesEnded
  ELSE /\ series' = [series EXCEPT !.left = @ - 1, !.paused = FALSE]
       /\ waiting' = FALSE /\ queued' = TRUE

MaybeStartNext(w) ==
  \/ (~series.on \/ series.stop \/ series.left = 0) /\ SeriesEnded
  \/ /\ series.on /\ ~series.stop /\ series.left > 0
     /\ IF series.pause
        THEN series' = [series EXCEPT !.paused = TRUE, !.pause = FALSE] /\ UNCHANGED <<waiting, queued>>
        ELSE IF w THEN waiting' = TRUE /\ UNCHANGED <<series, queued>> ELSE StartNextNow

(* classify() and _result_message(): the verdict from the headers and the sensor's word. *)
Verdict(found, measured) ==
  IF found = {} THEN IF error /\ named = {} THEN "failed" ELSE "unknown"
  ELSE IF ~measured THEN IF named \ found # {} \/ error THEN "partial" ELSE "unknown"
  ELSE IF /\ named \subseteq found /\ ~error
          /\ (found \cap Neighbour # {}) \/ \A f \in Parts : f \in found /\ disk[f] = "full"
       THEN "confirmed" ELSE "partial"

(* what the end of a capture changes besides the watch *)
ending_vars == <<phase, client, series, waiting, queued, request, mail, stream, radio, disk,
                 reported, outcome>>

(* _release_capture_stream() and _complete_capture() with the files the watch w found final *)
Final(w) == {f \in Files : w[f] = "final"}
Complete(w, measured, m) ==
  LET verdict == Verdict(Final(w), measured)
  IN  /\ Abort(m)
      /\ outcome' = verdict
      /\ reported' = TRUE /\ request' = "none"
      /\ watching' = FALSE /\ measuring' = FALSE
      /\ \E wait \in BOOLEAN : MaybeStartNext(wait)
      /\ phase' = IF waiting' THEN "waiting" ELSE IF series'.paused THEN "idle" ELSE verdict

-----------------------------------------------------------------------------
(* _poll_collection_files() *)
Polled == IF listing = "none" THEN "current" ELSE listing

(* _on_recording_time_elapsed(), with the stream in flight (h) or not *)
Elapse(h) ==
  /\ phase' = "finalizing" /\ active' = FALSE
  /\ watching' = TRUE /\ watch' = [f \in Files |-> "unseen"] /\ quiet' = 0 /\ since' = 0
  /\ listing' = Polled
  /\ http' = h /\ client' = (h /\ client)

TimeElapsed ==
  /\ active
  /\ Elapse(http /\ client)
  /\ UNCHANGED <<measuring, pin, told_vars, series_vars, owner_vars, mail, stream, sensor_vars,
                 count_vars, faults>>

TimePasses ==
  /\ phase = "finalizing" /\ (quiet < 2 \/ since < 2)
  /\ quiet' = IF quiet = 2 THEN 2 ELSE quiet + 1
  /\ since' = IF since = 2 THEN 2 ELSE since + 1
  /\ UNCHANGED <<phase, active, http, client, watching, measuring, watch, pin, listing, told_vars,
                 series_vars, owner_vars, mail, stream, sensor_vars, count_vars, faults>>

Poll ==
  /\ watching /\ phase = "finalizing" /\ listing = "none"
  /\ listing' = "current"
  /\ UNCHANGED <<phase, active, http, client, watching, measuring, watch, pin, quiet, since,
                 told_vars, series_vars, owner_vars, mail, stream, sensor_vars, count_vars, faults>>

(* _show_watch_listing(): a listing of an earlier watch, or one that failed *)
ListingDropped ==
  /\ listing = "stale" \/ (listing = "current" /\ faults < Faults)
  /\ faults' = IF listing = "stale" THEN faults ELSE faults + 1
  /\ listing' = "none"
  /\ UNCHANGED <<phase, active, http, client, watching, measuring, watch, pin, quiet, since,
                 told_vars, series_vars, owner_vars, mail, stream, sensor_vars, count_vars>>

(* match_recordings_to_entries(): a group whose time fits, unless the entry is pinned to one *)
Matches(visible) ==
  {g \in {visible \cap Parts, visible \cap Neighbour} :
     g # {} /\ (pin # "none" => g = visible \cap (IF pin = "own" THEN Parts ELSE Neighbour))}

(* live_capture_files(): the files the sensor named, else those matched to the entry; none if
   the sensor has finished without naming one.                                              *)
Mine(visible) ==
  IF finished /\ named = {} /\ ~lost THEN {{}}
  ELSE IF named # {} THEN {visible \cap Parts}
  ELSE IF Matches(visible) = {} THEN {{}} ELSE Matches(visible)

(* persist_matched_stems(): the entry keeps the first group it was matched to *)
PinnedTo(mine) ==
  IF pin # "none" \/ mine = {} THEN pin ELSE IF mine \subseteq Parts THEN "own" ELSE "neighbour"

(* update_file_watch() after prune_file_watch() *)
Pruned == [f \in Files |-> IF named # {} /\ f \in Neighbour THEN "unseen" ELSE watch[f]]
Updated(w, mine, grew, empty) ==
  [f \in Files |->
     IF f \notin mine THEN w[f]
     ELSE IF w[f] = "unseen" THEN (IF f \in empty THEN "empty" ELSE "seen")
     ELSE IF f \in grew THEN "seen"
     ELSE IF w[f] = "seen" THEN "final" ELSE w[f]]

(* Mutant of Settled: without the bound on the watch. *)
SettledByFiles(w, q, s) ==
  /\ ~(http /\ client /\ ~finished)
  /\ Final(w) # {} /\ q >= 1 /\ \A f \in Files : w[f] # "seen"

(* capture_is_settled() *)
Settled(w, q, s) ==
  LET pending == {f \in Files : w[f] = "seen"}
      final == Final(w)
      expected == (final \cap Neighbour # {}) \/ \A f \in Parts : f \in final /\ disk[f] = "full"
  IN  IF http /\ client /\ ~finished THEN FALSE
      ELSE IF pending # {} THEN q = 2
      ELSE IF final = {} THEN s = 2
      ELSE IF ~(named \subseteq final) /\ finished THEN q = 2
      ELSE (finished /\ expected) \/ q >= 1

(* _finish_current_capture(): without a file the capture is over, else the headers are read *)
FinishCurrentCapture(w) ==
  IF Final(w) = {} THEN Complete(w, FALSE, mail)
  ELSE watching' = FALSE /\ measuring' = TRUE /\ UNCHANGED ending_vars

(* _apply_watch_listing(): the listing may be older than what the disk holds by now. *)
ListingRead ==
  \E visible \in SUBSET {f \in Files : disk[f] # "absent"}, grew \in SUBSET fresh :
  \E mine \in Mine(visible), empty \in SUBSET {f \in visible : disk[f] = "open"} :
    LET w == Updated(Pruned, mine, grew, empty)
        new == {f \in mine : Pruned[f] = "unseen"}
        q == IF new # {} \/ grew # {} THEN 0 ELSE quiet
        nothing == finished /\ named = {} /\ (\A f \in Files : w[f] = "unseen") /\ since >= 1
        done == nothing \/ Settled(w, q, since)
    IN  /\ listing = "current" /\ listing' = "none"
        /\ {f \in Files : watch[f] # "unseen"} \subseteq visible
        /\ grew \subseteq mine \ new /\ empty \subseteq new
        /\ watch' = w /\ quiet' = q
        /\ pin' = PinnedTo(mine)
        /\ IF done THEN FinishCurrentCapture(w)
           ELSE UNCHANGED <<watching, measuring, ending_vars>>
        /\ fresh' = fresh \ (grew \cup (new \ empty)) /\ UNCHANGED got
        /\ UNCHANGED <<active, http, since, told_vars, owner, captures, faults>>

(* Mutant of Unwritten: the sizes do not change any more. *)
UnwrittenBySize == {}

(* PartMeasurement.being_written: headers the sensor has not finished *)
Unwritten == {f \in Final(watch) : disk[f] = "open"}

(* _apply_measurement(): while the sensor still writes, the stream stays open and the watch goes on. *)
HeadersRead(read) ==
  LET writing == Unwritten
  IN  /\ measuring
      /\ read \/ (HeaderFaults /\ faults < Faults)
      /\ faults' = IF read THEN faults ELSE faults + 1
      /\ IF read /\ writing # {} /\ http /\ client
         THEN /\ measuring' = FALSE /\ watching' = TRUE
              /\ UNCHANGED ending_vars
         ELSE Complete(watch, read /\ writing = {}, mail)
      /\ UNCHANGED <<fresh, got>>
      /\ UNCHANGED <<active, http, watch, pin, quiet, since, listing, told_vars,
                     owner, captures>>

-----------------------------------------------------------------------------
(* Signals of the stream, handled on the UI thread. *)
MarkFinished(n) ==
  /\ named' = n /\ finished' = TRUE
  /\ listing' = IF phase = "finalizing" /\ watching THEN Polled ELSE listing
  /\ UNCHANGED <<error, lost>>

Pinned(n) == IF n # {} THEN "own" ELSE pin

OnEvent ==
  /\ mail # <<>> /\ mail' = Tail(mail)
  /\ LET signal == Head(mail)
     IN  \/ /\ signal.kind = "part"
            /\ named' = named \cup {signal.file} /\ pin' = "own"
            /\ UNCHANGED <<finished, error, lost, listing>>
         \/ signal.kind = "finished" /\ MarkFinished(named) /\ UNCHANGED pin
         \/ /\ signal.kind = "error" /\ error' = (error \/ ~finished)
            /\ UNCHANGED <<named, finished, lost, listing, pin>>
  /\ UNCHANGED <<phase, active, http, client, watching, measuring, watch, quiet, since, series_vars,
                 owner_vars, stream, sensor_vars, count_vars, faults>>

(* the recording ends with no file to wait for: not sent, or _end_rejected() *)
Refuse(how) ==
  /\ phase' = "failed" /\ active' = FALSE
  /\ WatchDropped /\ SeriesEnded
  /\ outcome' = IF reported THEN outcome ELSE how
  /\ reported' = TRUE /\ request' = "none"
  /\ UNCHANGED <<watch, quiet, since>>

(* Mutant of NotSent: a request that was not answered counts as well. *)
NotSentOrAnswered == {"not sent", "reset", "no reply"}

(* The errors start_recording() reports with request_sent false *)
NotSent == {"not sent", "reset"}

(* _show_recording_outcome(): no stream came of the POST *)
OnNoStream ==
  /\ mail # <<>> /\ mail' = Tail(mail)
  /\ http' = FALSE /\ client' = (client /\ active)
  /\ \/ Head(mail).kind \in NotSent /\ Refuse("not sent") /\ UNCHANGED told_vars
     \/ /\ Head(mail).kind = "rejected" /\ Refuse("rejected")
        /\ error' = TRUE /\ UNCHANGED <<named, finished, lost>>
     \/ /\ Head(mail).kind = "no reply" /\ Head(mail).kind \notin NotSent
        /\ UNCHANGED <<phase, active, watching, watch, quiet, since, listing, told_vars, series,
                       waiting, queued, request, reported, outcome>>
  /\ UNCHANGED <<measuring, pin, owner, stream, sensor_vars, captures, faults>>

(* _show_stream_outcome(): the stream has ended and is released *)
OnStreamEnded ==
  LET how == Head(mail).kind
      n == named \cup stream.parts
      failed == stream.error /\ ~stream.finished
      ordinary == <<phase, active, watching, watch, quiet, since, series, waiting, queued, request, reported, outcome>>
  IN  /\ mail # <<>> /\ mail' = Tail(mail)
      /\ how \in Ended \cup {"sensor error"}
      /\ http' = FALSE /\ client' = FALSE
      /\ pin' = Pinned(n)
      /\ \/ /\ failed /\ n = {} /\ Refuse("rejected")
            /\ named' = n /\ error' = TRUE /\ UNCHANGED <<finished, lost>>
         \/ /\ failed /\ n # {}
            /\ named' = n /\ error' = TRUE /\ UNCHANGED <<finished, lost>>
            /\ UNCHANGED <<series, waiting, queued, request, reported, outcome>>
            /\ IF active THEN Elapse(FALSE)
               ELSE UNCHANGED <<phase, active, watching, watch, quiet, since, listing>>
         \/ ~failed /\ stream.finished /\ MarkFinished(n) /\ UNCHANGED ordinary
         \/ /\ ~failed /\ ~stream.finished
            /\ named' = n /\ lost' = (lost \/ how = "lost")
            /\ UNCHANGED <<ordinary, listing, finished, error>>
      /\ UNCHANGED <<measuring, owner, stream, sensor_vars, captures, faults>>

-----------------------------------------------------------------------------
(* EmpClient.start_recording() on its thread, and the sensor. *)
window_vars == <<phase, active, http, client, watch_vars, told_vars, series_vars, owner_vars, count_vars>>
Tell(signal) == mail' = Append(mail, signal)

Accepted ==
  /\ stream.st = "posting" /\ stream' = [stream EXCEPT !.st = "open"]
  /\ radio' = "on" /\ got' = TRUE
  /\ UNCHANGED <<window_vars, mail, disk, fresh, faults>>

(* A request that reached the sensor whose client is gone may leave a short file. *)
PostEnds(how) ==
  /\ stream.st = "posting" /\ stream' = [stream EXCEPT !.st = "ended"]
  /\ Tell([kind |-> how])
  /\ got' \in CASE how = "reset" -> {TRUE} [] how = "no reply" -> BOOLEAN [] OTHER -> {FALSE}
  /\ \E left \in {{}} \cup (IF got' THEN {{f} : f \in Parts} ELSE {}) :
       disk' = [f \in Files |-> IF f \in left THEN "short" ELSE disk[f]]
  /\ UNCHANGED <<window_vars, radio, fresh, faults>>

FileOpened(f) ==
  /\ stream.st = "open" /\ radio = "on" /\ disk[f] = "absent"
  /\ disk' = [disk EXCEPT ![f] = "open"] /\ fresh' = fresh \cup {f}
  /\ stream' = [stream EXCEPT !.parts = @ \cup {f}]
  /\ Tell([kind |-> "part", file |-> f])
  /\ UNCHANGED <<window_vars, radio, got, faults>>

FileGrows(f) ==
  /\ disk[f] = "open" /\ f \notin fresh /\ fresh' = fresh \cup {f}
  /\ UNCHANGED <<window_vars, mail, stream, radio, disk, got, faults>>

FileClosed(f) ==
  /\ disk[f] = "open" /\ radio = "done"
  /\ disk' = [disk EXCEPT ![f] = "full"] /\ fresh' = fresh \cup {f}
  /\ UNCHANGED <<window_vars, mail, stream, radio, got, faults>>

RadioDone ==
  /\ stream.st = "open" /\ radio = "on" /\ ~stream.error
  /\ \/ \A f \in Parts : disk[f] # "absent"
     \/ SilentFinish /\ stream.parts = {}
  /\ radio' = "done"
  /\ stream' = [stream EXCEPT !.finished = TRUE]
  /\ Tell([kind |-> "finished"])
  /\ UNCHANGED <<window_vars, disk, fresh, got, faults>>

SensorError ==
  /\ stream.st = "open" /\ radio = "on" /\ ~stream.error
  /\ faults < Faults /\ faults' = faults + 1
  /\ stream' = [stream EXCEPT !.error = TRUE]
  /\ Tell([kind |-> "error"])
  /\ UNCHANGED <<window_vars, sensor_vars>>

(* lost, closed by the sensor, out of budget; or given up after an error *)
StreamEnd(how) ==
  /\ stream.st = "open" /\ (how = "sensor error" => stream.error)
  /\ stream' = [stream EXCEPT !.st = "ended"]
  /\ radio' = "off" /\ disk' = Disconnected(disk)
  /\ Tell([kind |-> how])
  /\ UNCHANGED <<window_vars, fresh, got, faults>>

-----------------------------------------------------------------------------
(* The operator: _on_pause_series(), _on_resume_series(), _on_stop_after_current(); the countdown *)
rest == <<active, http, client, measuring, watch, pin, quiet, since, told_vars,
          owner_vars, mail, stream, sensor_vars, count_vars, faults>>

Pause ==
  /\ series.on /\ ~series.paused /\ ~series.pause /\ ~series.stop
  /\ IF waiting THEN /\ waiting' = FALSE /\ phase' = "idle"
                     /\ series' = [series EXCEPT !.paused = TRUE]
     ELSE series' = [series EXCEPT !.pause = TRUE] /\ UNCHANGED <<waiting, phase>>
  /\ UNCHANGED <<queued, watching, listing, rest>>

Resume ==
  /\ series.paused
  /\ \/ /\ series' = [series EXCEPT !.paused = FALSE] /\ waiting' = TRUE /\ phase' = "waiting"
        /\ UNCHANGED queued
     \/ StartNextNow /\ UNCHANGED phase
  /\ UNCHANGED <<watching, listing, rest>>

Stop ==
  /\ series.on /\ ~series.stop
  /\ IF series.paused \/ waiting
     THEN /\ SeriesEnded /\ WatchDropped
          /\ phase' = IF waiting THEN (IF Final(watch) # {} THEN "confirmed" ELSE "idle") ELSE phase
     ELSE /\ series' = [series EXCEPT !.stop = TRUE]
          /\ UNCHANGED <<waiting, queued, phase, watching, listing>>
  /\ UNCHANGED rest

WaitOver ==
  /\ waiting
  /\ StartNextNow
  /\ UNCHANGED <<phase, watching, listing, rest>>

Start == \/ \E rounds \in Rounds : StartManual(rounds)
         \/ StartPosted \/ SetOwner \/ ReleaseOwner \/ StartExternal
Sensor ==
  \/ Accepted \/ RadioDone \/ SensorError
  \/ \E how \in Outcomes : PostEnds(how)
  \/ \E how \in StreamEnds \cup {"sensor error"} : StreamEnd(how)
  \/ \E f \in Parts : FileOpened(f) \/ FileGrows(f) \/ FileClosed(f)

Next ==
  \/ Start
  \/ TimeElapsed \/ TimePasses \/ Poll \/ ListingDropped \/ ListingRead
  \/ \E read \in BOOLEAN : HeadersRead(read)
  \/ OnEvent \/ OnNoStream \/ OnStreamEnded
  \/ Sensor
  \/ Pause \/ Resume \/ Stop \/ WaitOver

Spec == Init /\ [][Next]_vars

(* Timers fire, signals are handled, the folder and the headers can be read in the end; the
   stream ends at the latest when its budget is used up, the POST when it times out.       *)
FairSpec ==
  /\ Spec
  /\ WF_vars(TimeElapsed) /\ WF_vars(TimePasses) /\ WF_vars(Poll)
  /\ WF_vars(ListingRead \/ ListingDropped) /\ WF_vars(HeadersRead(TRUE))
  /\ WF_vars(OnEvent \/ OnNoStream \/ OnStreamEnded)
  /\ WF_vars(Accepted \/ \E how \in Outcomes : PostEnds(how))
  /\ WF_vars(StreamEnd("budget"))
  /\ WF_vars(StartPosted) /\ WF_vars(WaitOver)

-----------------------------------------------------------------------------
Launched == captures' > captures

(* Every recording that is started is reported in the end, whatever becomes of its stream. *)
EveryRecordingReported == (captures > 0 /\ ~reported) ~> reported

(* No recording is started while the one before it is not reported yet or still has the
   sensor: its files would go unconfirmed and its report to the next one's listener.     *)
ReportedBeforeNext == [][Launched => reported /\ radio = "off"]_vars

(* A recording of which the sensor has named the files is confirmed by all of them, whole,
   and by nobody else's.                                                                  *)
ConfirmedIsWhole ==
  outcome = "confirmed" /\ reported /\ named # {} =>
    /\ Final(watch) \cap Neighbour = {}
    /\ \A f \in Parts : watch[f] = "final" /\ disk[f] = "full"

(* The stream is held until the sensor has written its files: the application never cuts a
   file short unless nothing has changed on the sensor for as long as the watch lasts.      *)
StreamHeldWhileWriting ==
  [][\A f \in Parts : disk[f] = "open" /\ disk'[f] = "short" =>
       stream.st = "open" /\ (quiet = 2 \/ since = 2 \/ (mail' # mail /\ reported' = reported))]_vars

(* From Stop or Pause on the series posts no further recording, from a countdown, the end of a
   capture or otherwise, until it is resumed.                                               *)
HeldSeriesPostsNothing ==
  [][queued' /\ ~queued => ~series.stop /\ ~series.pause /\ (series.paused => ~series'.paused)]_vars

(* While a feature holds the sensor no manual recording or series is started, and while a
   manual recording or series goes on it cannot be taken.                                 *)
OneUserAtATime ==
  /\ owner = "collection" => request # "manual" /\ ~series.on /\ ~queued
  /\ request = "external" => owner = "collection"

(* When the countdown to the next recording is cancelled, the window shows the result of the
   last one again.  It does not hold of a partial or unconfirmed one (README).                *)
ShowsLastResult == phase = "confirmed" => outcome = "confirmed"

(* Not sent means that the sensor has not got the request. *)
NotSentIsTrue == outcome = "not sent" /\ reported => ~got

(* What is said of a recording is true of the sensor, and the sensor has one user. *)
CapturesAreSafe == TypeOK /\ ConfirmedIsWhole /\ NotSentIsTrue /\ OneUserAtATime

(* The sensor is one recording's until it is written and reported: no next one, posted by the
   series, the countdown or the collection, cuts it off or comes after Pause and Stop.        *)
RecordingsTakeTurns == ReportedBeforeNext /\ StreamHeldWhileWriting /\ HeldSeriesPostsNothing
=============================================================================
