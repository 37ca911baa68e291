---------------------------- MODULE DownloadQueue ----------------------------
(***************************************************************************)
(* The download queue of the collection controller (cellular_runner.py)    *)
(* and its workers (sftp_window.FileDownloadWorker, _ChecksumWorker,       *)
(* _QualityWorker), taking turns with the captures at the sensor's disk.   *)
(*                                                                         *)
(* A worker runs on a thread of its own and talks to the controller in     *)
(* queued signals: mail[f] holds those of file f's workers that the UI     *)
(* thread has not handled yet, oldest first.  Deliver(f) is a handler of   *)
(* the controller, with every call it makes.                               *)
(***************************************************************************)
EXTENDS Naturals, Sequences, FiniteSets

CONSTANTS
  FileSeq,       \* the files of the session in the order its rows hold them
  RowOf,         \* the row each file belongs to
  NRows,         \* bound: rows recorded one after the other
  Late,          \* files only the listing after the capture shows (headers, sidecars)
  MaxDownloads,  \* MAX_DOWNLOADS
  Retries,       \* DOWNLOAD_RETRIES
  BacklogLimit,  \* settings.backlog_limit
  Verify,        \* settings.verify_checksums
  Faults,        \* bound: transfers cut or damaged, refusals, failed listings, locked copies
  Restarts,      \* bound: times the application is closed or crashes
  OperatorRetries,         \* bound: presses of Retry downloads
  RetryWhileInterrupted    \* whether it is pressed before Continue

Files == {FileSeq[i] : i \in DOMAIN FileSeq}
Rows == 1 .. NRows
FilesOf(r) == {f \in Files : RowOf[f] = r}

ASSUME QueueAssumption ==
  /\ FileSeq \in Seq(Files)
  /\ \A i, j \in DOMAIN FileSeq : FileSeq[i] = FileSeq[j] => i = j
  /\ NRows \in Nat \ {0}
  /\ RowOf \in [Files -> Rows]
  /\ Late \subseteq Files
  /\ {MaxDownloads, Retries, BacklogLimit, Faults, Restarts, OperatorRetries} \subseteq Nat
  /\ MaxDownloads > 0
  /\ Verify \in BOOLEAN /\ RetryWhileInterrupted \in BOOLEAN

VARIABLES
  status,      \* item["download_status"]; "none": not on the session's list (yet)
  attempts,    \* item["attempts"]
  sha,         \* the sensor's digest of the file is at hand (item["remote_sha256"])
  compared,    \* verified files whose digests were compared and agree (stages[V_CHECKSUM])
  queue,       \* _downloads_pending
  delayed,     \* files whose _retry_at is ahead
  refused,     \* _downloads_refused
  refreshing,  \* rows with a listing outstanding (_refreshes)
  listed,      \* rows whose fresh listing was read (remote_size_stable is set)
  quality,     \* state.quality of each row
  checkQueue,  \* _quality_pending and the running _quality_jobs, the running one first
  session,     \* "running", "done", "interrupted", or "leftover" (_downloads_only)
  timer,       \* the tick timer runs
  settled,     \* _storage_settled
  capture,     \* "idle", "settling", "checking" (idle check), "capturing"
  row,         \* the row to be recorded next
  worker,      \* the download worker of a file: "none", "connecting", "transferring"
  sums,        \* its checksum worker: "none", "asking" (the sensor first), "hashing"
  mail,        \* signals not handled yet
  local,       \* the copy under the file's name: "absent", "good", "torn" (the
               \* structure check sees it), "corrupt" (only a checksum does)
  faults, restarts, presses

vars == <<status, attempts, sha, compared, queue, delayed, refused, refreshing, listed,
          quality, checkQueue, session, timer, settled, capture, row, worker, sums, mail,
          local, faults, restarts, presses>>
session_vars == <<session, settled, row, listed>>
check_vars == <<quality, checkQueue>>
budget == <<restarts, presses>>

Statuses == {"none", "pending", "downloading", "present", "verified", "failed"}
Signals == {"waiting", "connected", "unreachable", "failed", "finished", "ended",
            "digest of sensor", "no digest of sensor", "hash of good", "hash of torn",
            "hash of corrupt", "hash of absent"}
HashOf(content) == CASE content = "good" -> "hash of good" [] content = "torn" -> "hash of torn"
                     [] content = "corrupt" -> "hash of corrupt" [] OTHER -> "hash of absent"

TypeOK ==
  /\ status \in [Files -> Statuses]
  /\ attempts \in [Files -> 0 .. (Retries + 1 + Restarts)]   \* one more per transfer the end of the application cut
  /\ sha \in [Files -> BOOLEAN]
  /\ compared \subseteq Files /\ delayed \subseteq Files /\ refused \subseteq Files
  /\ queue \in Seq(Files)
  /\ refreshing \subseteq Rows /\ listed \subseteq Rows
  /\ quality \in [Rows -> {"none", "pending", "done"}]
  /\ checkQueue \in Seq(Rows)
  /\ session \in {"running", "done", "interrupted", "leftover"}
  /\ timer \in BOOLEAN /\ settled \in BOOLEAN
  /\ capture \in {"idle", "settling", "checking", "capturing"}
  /\ row \in 1 .. (NRows + 1)
  /\ worker \in [Files -> {"none", "connecting", "transferring"}]
  /\ sums \in [Files -> {"none", "asking", "hashing"}]
  /\ mail \in [Files -> Seq(Signals)]
  /\ local \in [Files -> {"absent", "good", "torn", "corrupt"}]
  /\ faults \in 0 .. Faults /\ restarts \in 0 .. Restarts /\ presses \in 0 .. OperatorRetries

Init ==
  /\ status = [f \in Files |-> "none"]
  /\ attempts = [f \in Files |-> 0]
  /\ sha = [f \in Files |-> FALSE]
  /\ compared = {} /\ queue = <<>> /\ delayed = {} /\ refused = {}
  /\ refreshing = {} /\ listed = {}
  /\ quality = [r \in Rows |-> "none"]
  /\ checkQueue = <<>>
  /\ session = "running" /\ timer = TRUE /\ settled = FALSE /\ capture = "idle" /\ row = 1
  /\ worker = [f \in Files |-> "none"]
  /\ sums = [f \in Files |-> "none"]
  /\ mail = [f \in Files |-> <<>>]
  /\ local = [f \in Files |-> "absent"]
  /\ faults = 0 /\ restarts = 0 /\ presses = 0

-----------------------------------------------------------------------------
(* The files of q that are in S, in the order of q. *)
Only(q, S) ==
  LET kept[n \in 0 .. Len(q)] ==
        IF n = 0 THEN <<>> ELSE IF q[n] \in S THEN Append(kept[n - 1], q[n]) ELSE kept[n - 1]
  IN  kept[Len(q)]

(* One entry of _downloads_active per thread whose end was not handled yet. *)
Threads(wk, mb) ==
  {<<f, 0>> : f \in {g \in Files : wk[g] # "none"}} \cup
  UNION {{<<f, i>> : i \in {j \in DOMAIN mb[f] : mb[f][j] = "ended"}} : f \in Files}

Active(wk, mb) == {t[1] : t \in Threads(wk, mb)}

(* _downloads_reading(): the downloads that read the sensor's disk. *)
Reading == Active(worker, mail) \ refused

(* background_jobs() = 0, of the queue q, the workers wk and their signals mb *)
NoBackgroundJobs(q, wk, mb, sm) ==
  /\ q = <<>> /\ Threads(wk, mb) = {} /\ refreshing = {} /\ checkQueue = <<>>
  /\ \A f \in Files : sm[f] = "none"

HasStorageToItself == capture \in {"capturing", "settling"}

(* already_saved() and a copy that passes _verify_local_copy. *)
Kept(f) == local[f] \in {"good", "corrupt"}

(***************************************************************************)
(* _drain_downloads() with _start_download() for each file it takes: from  *)
(* queue q, in which the files of d are not due, with statuses st and      *)
(* attempts att, while signals mb are unhandled.                           *)
(***************************************************************************)
Due(q, d) == Only(q, Files \ d)

Started(q, d, mb) ==
  LET due == Due(q, d)
      Busy(i) == Cardinality(Threads(worker, mb)) + Cardinality({j \in 1 .. (i - 1) : ~Kept(due[j])})
  IN  {due[i] : i \in {j \in DOMAIN due : Busy(j) < MaxDownloads}}

DrainFiles(blocked, q, d, st, att, mb) ==
  LET taken == IF blocked THEN {} ELSE Started(q, d, mb)
      kept == {f \in taken : Kept(f)}
      fetched == taken \ kept
  IN  /\ queue' = Only(q, Files \ taken)
      /\ delayed' = d \ taken
      /\ status' = [f \in Files |->
           IF f \in fetched THEN "downloading"
           ELSE IF f \in kept THEN (IF Verify THEN "present" ELSE "verified")
           ELSE st[f]]
      /\ attempts' = [f \in Files |-> IF f \in fetched THEN att[f] + 1 ELSE att[f]]
      /\ worker' = [f \in Files |-> IF f \in fetched THEN "connecting" ELSE worker[f]]
      /\ sha' = [f \in Files |-> IF f \in kept /\ Verify THEN FALSE ELSE sha[f]]
      /\ sums' = [f \in Files |-> IF f \in kept /\ Verify THEN "asking" ELSE sums[f]]
      /\ mail' = mb

Drain(q, d, st, att, mb) == DrainFiles(HasStorageToItself, q, d, st, att, mb)

(***************************************************************************)
(* _start_next_task(): the gates between a request and the downloads.  The *)
(* answer is where the capture stands afterwards.                          *)
(***************************************************************************)
NextCapture(downloads, listings, isSettled) ==
  IF listings # {} \/ downloads # {} THEN "idle"
  ELSE IF isSettled THEN "checking" ELSE "settling"

StartNextTask ==
  /\ session = "running" /\ capture = "idle" /\ row <= NRows
  /\ Len(queue) + Cardinality(Threads(worker, mail)) <= BacklogLimit
  /\ capture' = NextCapture(Reading, refreshing, settled)
  /\ capture' # "idle"
  /\ UNCHANGED <<status, attempts, sha, compared, queue, delayed, refused, refreshing,
                 check_vars, session_vars, timer, worker, sums, mail, local, faults, budget>>

(* _finish_session(), called by the last row's _finish_round() *)
FinishSession ==
  /\ session = "running" /\ capture = "idle" /\ row > NRows
  /\ session' = "done"
  /\ timer' = (queue # <<>> \/ Threads(worker, mail) # {})
  /\ UNCHANGED <<status, attempts, sha, compared, queue, delayed, refused, refreshing,
                 check_vars, settled, row, listed, capture, worker, sums, mail, local,
                 faults, budget>>

(* Mutant of StorageSettled: the flag is not set. *)
StorageSettledForgets ==
  /\ capture = "settling"
  /\ capture' = NextCapture(Reading, refreshing, settled)
  /\ UNCHANGED <<status, attempts, sha, compared, queue, delayed, refused, refreshing, listed, settled,
                 check_vars, session, row, timer, worker, sums, mail, local, faults, budget>>

(* apply() of _begin_storage_settle: the sensor has written its data out, or was given up on. *)
StorageSettled ==
  /\ capture = "settling"
  /\ settled' = TRUE
  /\ capture' = NextCapture(Reading, refreshing, TRUE)
  /\ UNCHANGED <<status, attempts, sha, compared, queue, delayed, refused, refreshing, listed,
                 check_vars, session, row, timer, worker, sums, mail, local, faults, budget>>

(* on_result() of the idle check: the request goes out, or the check is made again later. *)
SensorIdle(ok) ==
  /\ capture = "checking"
  /\ capture' = IF ok THEN "capturing" ELSE "idle"
  /\ settled' = (settled /\ ~ok)
  /\ ok \/ faults < Faults
  /\ faults' = IF ok THEN faults ELSE faults + 1
  /\ UNCHANGED <<status, attempts, sha, compared, queue, delayed, refused, refreshing, listed,
                 check_vars, session, row, timer, worker, sums, mail, local, budget>>

(* on_capture_finished(): a confirmed capture's files are listed again before they are
   downloaded (_schedule_download_refresh); the downloads held back meanwhile go on.    *)
CaptureFinished(confirmed) ==
  LET files == {f \in FilesOf(row) \ Late : confirmed}
  IN  /\ capture = "capturing"
      /\ confirmed => FilesOf(row) \ Late # {}
      /\ capture' = "idle"
      /\ row' = row + 1
      /\ refreshing' = IF confirmed THEN refreshing \cup {row} ELSE refreshing
      /\ DrainFiles(FALSE, queue, delayed,
                    [f \in Files |-> IF f \in files THEN "pending" ELSE status[f]], attempts, mail)
      /\ UNCHANGED <<compared, refused, listed, check_vars, session, settled, timer, local, faults, budget>>

(* apply() of _refresh_files_then_download(): the files the listing adds, and every file of
   the row that waits, join the queue; the next row may be asked for at once.              *)
FilesListed(r, ok) ==
  LET st == [f \in Files |-> IF ok /\ f \in FilesOf(r) /\ status[f] = "none" THEN "pending" ELSE status[f]]
      queued == {queue[i] : i \in DOMAIN queue}
      joining == Only(FileSeq, {f \in FilesOf(r) : st[f] = "pending"} \ queued)
  IN  /\ r \in refreshing
      /\ ok \/ faults < Faults
      /\ faults' = IF ok THEN faults ELSE faults + 1
      /\ refreshing' = refreshing \ {r}
      /\ listed' = IF ok THEN listed \cup {r} ELSE listed
      /\ Drain(queue \o joining, delayed, st, attempts, mail)
      /\ capture' \in {capture} \cup
           (IF session = "running" /\ capture = "idle" /\ row <= NRows
               /\ Len(queue') + Cardinality(Threads(worker', mail')) <= BacklogLimit
            THEN {NextCapture(Active(worker', mail') \ refused, refreshing', settled)} ELSE {})
      /\ UNCHANGED <<compared, refused, check_vars, session, settled, row, timer, local, budget>>

(* _tick() *)
Tick ==
  /\ timer
  /\ Drain(queue, delayed, status, attempts, mail)
  /\ UNCHANGED <<compared, refused, refreshing, check_vars, session_vars, timer, capture,
                 local, faults, budget>>

(* DOWNLOAD_RETRY_DELAY_S have passed: the single shot of _transfer_failed drains the queue. *)
RetryDelayOver(f) ==
  /\ f \in delayed
  /\ Drain(queue, delayed \ {f}, status, attempts, mail)
  /\ UNCHANGED <<compared, refused, refreshing, check_vars, session_vars, timer, capture,
                 local, faults, budget>>

-----------------------------------------------------------------------------
(* Signals of file f's workers, handled by the UI thread in the order they were sent. *)
Rest(f) == [mail EXCEPT ![f] = Tail(@)]
Receive(f, signal) == mail[f] # <<>> /\ Head(mail[f]) = signal
Send(f, signals) == mail' = [mail EXCEPT ![f] = @ \o signals]

(* _find_file(): the file a worker's signal is about *)
Awaited(f) == status[f] \in {"downloading", "present"}

(* Mutant of TransferFailed: the file is not queued again. *)
TransferFailedUnqueued(f) ==
  /\ status' = [status EXCEPT ![f] = IF attempts[f] <= Retries THEN "pending" ELSE "failed"]
  /\ UNCHANGED <<delayed, queue>>

(* _transfer_failed(): again later while attempts are left, else given up. *)
TransferFailed(f) ==
  IF attempts[f] <= Retries
  THEN /\ status' = [status EXCEPT ![f] = "pending"]
       /\ delayed' = delayed \cup {f}
       /\ queue' = Append(queue, f)
  ELSE /\ status' = [status EXCEPT ![f] = "failed"]
       /\ UNCHANGED <<delayed, queue>>

(* _after_file_verified(): the row's quality check once every file of it is verified. *)
AfterFileVerified(f) ==
  LET r == RowOf[f]
      wanted == /\ \A g \in FilesOf(r) : status'[g] \in {"verified", "none"}
                /\ quality[r] # "done" /\ status'[f] = "verified"
  IN  IF wanted THEN /\ quality' = [quality EXCEPT ![r] = "pending"]
                     /\ checkQueue' = Append(checkQueue, r)
      ELSE UNCHANGED check_vars

OnWaiting(f) ==
  /\ Receive(f, "waiting") /\ mail' = Rest(f)
  /\ refused' = refused \cup {f}
  /\ UNCHANGED <<status, attempts, sha, compared, queue, delayed, refreshing, check_vars,
                 session_vars, timer, capture, worker, sums, local, faults, budget>>

OnConnected(f) ==
  /\ Receive(f, "connected") /\ mail' = Rest(f)
  /\ refused' = refused \ {f}
  /\ UNCHANGED <<status, attempts, sha, compared, queue, delayed, refreshing, check_vars,
                 session_vars, timer, capture, worker, sums, local, faults, budget>>

(* _on_download_unreachable(): the file and the whole queue are given up; waiting for a
   connection was no attempt.                                                           *)
OnUnreachable(f) ==
  /\ Receive(f, "unreachable") /\ mail' = Rest(f)
  /\ IF Awaited(f)
     THEN LET givenUp == {f} \cup {queue[i] : i \in DOMAIN queue}
          IN  /\ status' = [g \in Files |-> IF g \in givenUp THEN "failed" ELSE status[g]]
              /\ attempts' = [attempts EXCEPT ![f] = IF @ = 0 THEN 0 ELSE @ - 1]
              /\ queue' = <<>> /\ delayed' = {}
     ELSE UNCHANGED <<status, attempts, queue, delayed>>
  /\ UNCHANGED <<sha, compared, refused, refreshing, check_vars, session_vars, timer, capture,
                 worker, sums, local, faults, budget>>

OnRemoteChecksum(f) ==
  /\ \E known \in BOOLEAN :
       /\ Receive(f, IF known THEN "digest of sensor" ELSE "no digest of sensor")
       /\ sha' = IF Awaited(f) THEN [sha EXCEPT ![f] = known] ELSE sha
  /\ mail' = Rest(f)
  /\ UNCHANGED <<status, attempts, compared, queue, delayed, refused, refreshing, check_vars,
                 session_vars, timer, capture, worker, sums, local, faults, budget>>

OnFailed(f) ==
  /\ Receive(f, "failed") /\ mail' = Rest(f)
  /\ IF Awaited(f) THEN TransferFailed(f) ELSE UNCHANGED <<status, delayed, queue>>
  /\ UNCHANGED <<attempts, sha, compared, refused, refreshing, check_vars, session_vars, timer,
                 capture, worker, sums, local, faults, budget>>

(* _on_download_finished(): the local check, then the checksum or, without it, verified. *)
OnFinished(f) ==
  /\ Receive(f, "finished") /\ mail' = Rest(f)
  /\ CASE ~Awaited(f) -> UNCHANGED <<status, delayed, queue, sums, check_vars>>
       [] Awaited(f) /\ ~Kept(f) -> TransferFailed(f) /\ UNCHANGED <<sums, check_vars>>
       [] OTHER ->
            /\ status' = [status EXCEPT ![f] = IF Verify THEN "present" ELSE "verified"]
            /\ sums' = IF Verify THEN [sums EXCEPT ![f] = "hashing"] ELSE sums
            /\ AfterFileVerified(f)
            /\ UNCHANGED <<delayed, queue>>
  /\ UNCHANGED <<attempts, sha, compared, refused, refreshing, session_vars, timer, capture,
                 worker, local, faults, budget>>

(* _on_checksum_done(): a copy whose digest differs from the sensor's is set aside
   (unless another program holds it) and fetched again; a digest that differs from nothing
   verifies the file.  The end of the thread, which only drops the entry, is part of it.   *)
OnChecksumDone(f) ==
  \E content \in {"good", "torn", "corrupt", "absent"}, locked \in BOOLEAN :
    /\ Receive(f, HashOf(content)) /\ mail' = Rest(f)
    /\ sums' = [sums EXCEPT ![f] = "none"]
    /\ LET differs == sha[f] /\ content \in {"torn", "corrupt"}
       IN  /\ locked => differs /\ faults < Faults
           /\ faults' = IF locked THEN faults + 1 ELSE faults
           /\ CASE differs ->
                     /\ local' = IF locked THEN local ELSE [local EXCEPT ![f] = "absent"]
                     /\ sha' = [sha EXCEPT ![f] = FALSE]
                     /\ TransferFailed(f)
                     /\ UNCHANGED <<compared, check_vars>>
                [] ~differs /\ content = "absent" ->
                     /\ status' = [status EXCEPT ![f] = "failed"]
                     /\ UNCHANGED <<compared, delayed, queue, local, sha, check_vars>>
                [] OTHER ->
                     /\ status' = [status EXCEPT ![f] = "verified"]
                     /\ compared' = IF sha[f] THEN compared \cup {f} ELSE compared
                     /\ AfterFileVerified(f)
                     /\ UNCHANGED <<delayed, queue, local, sha>>
    /\ UNCHANGED <<attempts, refused, refreshing, session_vars, timer, capture, worker, budget>>

(* _on_download_thread_finished() *)
OnThreadFinished(f) ==
  /\ Receive(f, "ended")
  /\ refused' = refused \ {f}
  /\ Drain(queue, delayed, status, attempts, Rest(f))
  /\ timer' = (timer /\ ~(session = "done" /\ NoBackgroundJobs(queue', worker', mail', sums')))
  /\ UNCHANGED <<compared, refreshing, check_vars, session_vars, capture, local, faults, budget>>

Deliver(f) ==
  \/ OnWaiting(f) \/ OnConnected(f) \/ OnUnreachable(f) \/ OnRemoteChecksum(f)
  \/ OnFailed(f) \/ OnFinished(f) \/ OnChecksumDone(f) \/ OnThreadFinished(f)

-----------------------------------------------------------------------------
(* FileDownloadWorker.run() and _connect(), _ChecksumWorker.run(), on their own threads. *)
worker_vars == <<status, attempts, compared, queue, delayed, refused, refreshing, check_vars,
                 session_vars, timer, capture, sha, budget>>

Connect(f) ==
  /\ worker[f] = "connecting"
  /\ worker' = [worker EXCEPT ![f] = "transferring"]
  /\ Send(f, <<"connected">>)
  /\ UNCHANGED <<worker_vars, sums, local, faults>>

Refused(f) ==
  /\ worker[f] = "connecting" /\ f \notin refused /\ mail[f] = <<>>
  /\ faults < Faults /\ faults' = faults + 1
  /\ Send(f, <<"waiting">>)
  /\ UNCHANGED <<worker_vars, worker, sums, local>>

(* CONNECT_PATIENCE_S without a connection *)
GiveUp(f) ==
  /\ worker[f] = "connecting" /\ f \in refused
  /\ worker' = [worker EXCEPT ![f] = "none"]
  /\ Send(f, <<"unreachable", "ended">>)
  /\ UNCHANGED <<worker_vars, sums, local, faults>>

(* The whole file arrived, under .part, and was renamed; with a checksum wanted the sensor
   is asked for its own over the same session (it may have none).                         *)
Transferred(f, content) ==
  /\ worker[f] = "transferring"
  /\ content = "good" \/ faults < Faults
  /\ faults' = IF content = "good" THEN faults ELSE faults + 1
  /\ worker' = [worker EXCEPT ![f] = "none"]
  /\ local' = [local EXCEPT ![f] = content]
  /\ \E digest \in IF Verify THEN {<<"digest of sensor">>, <<"no digest of sensor">>} ELSE {<<>>} :
       Send(f, digest \o <<"finished", "ended">>)
  /\ UNCHANGED <<worker_vars, sums>>

(* The transfer was cut or short: its .part is removed, an older copy stays. *)
Cut(f) ==
  /\ worker[f] = "transferring"
  /\ faults < Faults /\ faults' = faults + 1
  /\ worker' = [worker EXCEPT ![f] = "none"]
  /\ Send(f, <<"failed", "ended">>)
  /\ UNCHANGED <<worker_vars, sums, local>>

Hash(f) ==
  /\ sums[f] \in {"asking", "hashing"}
  /\ ~\E i \in DOMAIN mail[f] : mail[f][i] = HashOf(local[f])
  /\ \E digest \in IF sums[f] = "asking" THEN {<<"digest of sensor">>, <<"no digest of sensor">>} ELSE {<<>>} :
       Send(f, digest \o <<HashOf(local[f])>>)
  /\ UNCHANGED <<worker_vars, worker, sums, local, faults>>

(* _QualityWorker and _on_quality_done, _on_quality_thread_finished, _pump_quality *)
CheckQuality ==
  /\ checkQueue # <<>>
  /\ quality' = [quality EXCEPT ![Head(checkQueue)] = "done"]
  /\ checkQueue' = Tail(checkQueue)
  /\ UNCHANGED <<status, attempts, sha, compared, queue, delayed, refused, refreshing,
                 session_vars, timer, capture, worker, sums, mail, local, faults, budget>>

-----------------------------------------------------------------------------

(* retry_failed_downloads(), offered while no download is pending or running *)
RetryDownloads ==
  LET again == Only(FileSeq, {f \in Files : status[f] = "failed"})
  IN  /\ presses < OperatorRetries /\ presses' = presses + 1
      /\ again # <<>> /\ queue = <<>> /\ Threads(worker, mail) = {}
      /\ session \in {"running", "done"} \/ RetryWhileInterrupted
      /\ timer' = TRUE
      /\ Drain(again, {}, [f \in Files |-> IF status[f] = "failed" THEN "pending" ELSE status[f]],
               [f \in Files |-> IF status[f] = "failed" THEN 0 ELSE attempts[f]], mail)
      /\ UNCHANGED <<compared, refused, refreshing, check_vars, session_vars, capture, local, faults, restarts>>

(* Mutant of Unfinished: a file given up counts as well. *)
UnfinishedOrFailed == {f \in Files : status[f] \in {"pending", "downloading", "present", "failed"}}

(* unfinished_downloads() *)
Unfinished == {f \in Files : status[f] \in {"pending", "downloading", "present"}}

(* The application is closed or crashes, and starts again with the saved session: no worker,
   queue or signal survives; a capture then in flight is uncertain, and left to the operator. *)
Restart ==
  /\ restarts < Restarts /\ restarts' = restarts + 1
  /\ session' = CASE session = "running" -> "interrupted"
                  [] session = "done" /\ Unfinished # {} -> "leftover"
                  [] OTHER -> session
  /\ row' = IF capture = "capturing" THEN row + 1 ELSE row
  /\ worker' = [f \in Files |-> "none"] /\ sums' = [f \in Files |-> "none"]
  /\ mail' = [f \in Files |-> <<>>] /\ sha' = [f \in Files |-> FALSE]
  /\ queue' = <<>> /\ delayed' = {} /\ refused' = {} /\ refreshing' = {} /\ checkQueue' = <<>>
  /\ timer' = FALSE /\ settled' = FALSE /\ capture' = "idle"
  /\ UNCHANGED <<status, attempts, compared, listed, quality, local, faults, presses>>

(* resume_after_restart() and _resume_downloads() with _requeue_unfinished_downloads() *)
Continue ==
  LET relisted == {r \in Rows : r \notin listed /\ \E f \in Unfinished : RowOf[f] = r}
      queued == {queue[i] : i \in DOMAIN queue}
      joining == Only(FileSeq, {f \in Unfinished : RowOf[f] \notin relisted} \ queued)
  IN  /\ session \in {"interrupted", "leftover"}
      /\ session' = IF session = "interrupted" THEN "running" ELSE "done"
      /\ timer' = TRUE
      /\ refreshing' = refreshing \cup relisted
      /\ Drain(queue \o joining, delayed,
               [f \in Files |-> IF f \in Unfinished /\ f \notin queued THEN "pending" ELSE status[f]], attempts, mail)
      /\ UNCHANGED <<compared, refused, check_vars, settled, row, listed, capture, local, faults, budget>>

-----------------------------------------------------------------------------
Worker(f) ==
  \/ Connect(f) \/ GiveUp(f) \/ Refused(f) \/ Cut(f) \/ Hash(f)
  \/ \E content \in {"good", "torn", "corrupt"} : Transferred(f, content)

Next ==
  \/ StartNextTask \/ FinishSession \/ StorageSettled
  \/ \E ok \in BOOLEAN : SensorIdle(ok) \/ CaptureFinished(ok)
  \/ \E r \in Rows, ok \in BOOLEAN : FilesListed(r, ok)
  \/ Tick
  \/ \E f \in Files : RetryDelayOver(f) \/ Deliver(f) \/ Worker(f)
  \/ CheckQuality \/ RetryDownloads \/ Restart \/ Continue

Spec == Init /\ [][Next]_vars

(* The UI thread handles what is posted to it and its timers fire; a worker ends; the sensor
   answers; the operator presses Continue.  No fault, restart or retry has to happen.       *)
FairSpec ==
  /\ Spec
  /\ WF_vars(StartNextTask \/ FinishSession \/ StorageSettled \/ SensorIdle(TRUE)
             \/ \E ok \in BOOLEAN : CaptureFinished(ok))
  /\ \A r \in Rows : WF_vars(\E ok \in BOOLEAN : FilesListed(r, ok))
  /\ WF_vars(Tick) /\ WF_vars(CheckQuality) /\ WF_vars(Continue)
  /\ \A f \in Files :
       /\ WF_vars(RetryDelayOver(f)) /\ WF_vars(Deliver(f))
       /\ WF_vars(Connect(f) \/ GiveUp(f) \/ Hash(f) \/ Cut(f)
                  \/ \E content \in {"good", "torn", "corrupt"} : Transferred(f, content))

-----------------------------------------------------------------------------
(* No file is lost between the queue, the workers and their signals: a file whose state says
   that something is under way is in the queue (once, and only when it waits), listed again,
   with a worker, or in a signal not handled yet; until Continue, after a restart, it is the
   session file that remembers it.                                                          *)
Waits(f) == Cardinality({i \in DOMAIN queue : queue[i] = f})
NoFileForgotten ==
  \A f \in Files :
    /\ Waits(f) <= 1
    /\ Waits(f) = 1 => status[f] = "pending"
    /\ session \in {"running", "done"} =>
         CASE status[f] = "pending" -> Waits(f) = 1 \/ RowOf[f] \in refreshing
           [] status[f] = "downloading" -> f \in Active(worker, mail)
           [] status[f] = "present" -> sums[f] # "none"
           [] OTHER -> TRUE

(* A file called verified is whole, and its bytes are the sensor's wherever their digests
   were compared.                                                                         *)
VerifiedIsWhole ==
  \A f \in Files :
    /\ status[f] = "verified" => local[f] \in {"good", "corrupt"}
    /\ f \in compared => local[f] = "good"

(* A file that a worker writes is not also queued for another worker. *)
WriterOwnsFile == \A f \in Files : worker[f] # "none" => status[f] = "downloading" /\ Waits(f) = 0

(* A file has one transfer at a time: its .part file has one writer.  It does not hold when the
   operator asks for the downloads of an interrupted collection, and continues it (README).     *)
OneWriterPerFile == [][\A f \in Files : worker[f] # "none" => attempts'[f] <= attempts[f]]_vars

(* The request of a capture goes out when no download reads the sensor's disk, and none
   starts to before the capture ends.  It does not hold of a refused worker, which may connect
   while the storage is checked (README).                                                      *)
CaptureHasStorage ==
  /\ [][capture' = "capturing" /\ capture # "capturing" => Reading = {}]_vars
  /\ [][capture = "capturing" => \A f \in Files : attempts'[f] <= attempts[f]]_vars

(* A verified file is never replaced, and a file given up stays so until the operator
   asks for it again.                                                                 *)
VerifiedIsFinal ==
  [][\A f \in Files :
       /\ status[f] = "verified" => status'[f] = "verified" /\ local'[f] = local[f]
       /\ status[f] = "failed" /\ presses' = presses => status'[f] = "failed"]_vars

(* Every file of a confirmed recording is in the end on this computer and verified, or
   given up and left on the sensor; the captures do not starve behind the downloads.   *)
FilesSettle == \A f \in Files : (status[f] # "none") ~> (status[f] \in {"verified", "failed"})
CapturesGoOn == <>(row > NRows)

(* A row whose files are all verified gets its quality check, unless the application ends first. *)
RowVerified(r) == \A f \in FilesOf(r) : status[f] = "verified"
EveryRowChecked ==
  \A r \in {RowOf[f] : f \in Files} : RowVerified(r) ~> (quality[r] = "done" \/ restarts > 0)

(* At every moment each file is in exactly one place - the queue, a worker, a signal, a list that
   is fetched - within the bounds of workers and attempts, and a verified one is whole.          *)
DownloadsAreSafe == TypeOK /\ NoFileForgotten /\ WriterOwnsFile /\ VerifiedIsWhole

(* Downloads and captures share the sensor and both get there: every file is settled, every row
   with verified files checked, and the captures end.                                            *)
DownloadsGoOn == FilesSettle /\ EveryRowChecked /\ CapturesGoOn
=============================================================================
