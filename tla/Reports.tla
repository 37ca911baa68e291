--------------------------------- MODULE Reports ---------------------------------
(***************************************************************************)
(* What a collection says of itself (cellular_runner.py and                *)
(* cellular_manifest.py): the counts of its passes, the manifest beside    *)
(* each recording and the handover summary, written at several points     *)
(* while the downloads, checksums, file checks and Excel writes of         *)
(* earlier rows are still under way, and after a check with the sensor, a  *)
(* retry, a skip or a restart.                                             *)
(*                                                                         *)
(* A row has one file and its capture is one step (CaptureWindow has its   *)
(* steps); a transfer either succeeds or is given up (DownloadQueue has    *)
(* its retries).                                                           *)
(***************************************************************************)
EXTENDS Naturals, FiniteSets

CONSTANTS
  Campaigns  \* [rows: the pass of each row, increasing; auto: auto_download; verify: verify_checksums;
               \*  checks: quality_checks; presses: bound on checks, retries, skips, Retry downloads and restarts]

VARIABLES
  kept,      \* the collection
  tasks,     \* TaskState: [status, result, attempts, copy, level]
  passes,    \* RoundRecord: [status, counts]
  current,   \* current_round_id, 0 for none
  stage,     \* "active", "done", "interrupted"
  listing,   \* rows whose files are listed again (_refreshes)
  fetch,     \* "none", "queued", "active", "ending": the transfer, until its thread's end is handled
  sum,       \* "none", "active", "ending": the checksum
  check,     \* "none", "waiting", "active", "ending": the file check
  flushing,  \* a write of the workbook is out (_workbook_flushing)
  handover,  \* the summary file, or NoHandover
  manifests, \* by row and name: what the file says
  named,     \* state.manifest_path
  presses,
  lags,      \* history: since the last handover, a checksum or a check with the sensor was the last thing to end
  skipped    \* history: rows of a finished pass that were skipped

(* SessionState, the background work of the controller, and the files written of it *)
session_vars == <<kept, tasks, passes, current, stage>>
job_vars == <<listing, fetch, sum, check, flushing>>
report_vars == <<session_vars, job_vars, handover, manifests, named, presses, lags, skipped>>

(* CampaignSettings: of its options the reports depend on these *)
Options == [auto : BOOLEAN, verify : BOOLEAN, checks : BOOLEAN]

ASSUME CampaignAssumption ==
  \A c \in Campaigns :
    /\ [auto |-> c.auto, verify |-> c.verify, checks |-> c.checks] \in Options
    /\ \A r, q \in DOMAIN c.rows : r < q => c.rows[r] <= c.rows[q]
    /\ c.presses \in Nat

TheRows == DOMAIN kept.rows
RowsIn(p) == {r \in TheRows : kept.rows[r] = p}
ThePasses == {kept.rows[r] : r \in TheRows}
Classes == {"completed", "partial", "failed", "uncertain", "not recorded"}
Untouched == [status |-> "absent", result |-> "", attempts |-> 0, copy |-> "none", level |-> ""]
NoCounts == [c \in Classes |-> 0]
NoHandover == [lists |-> <<>>, verified |-> {}, levels |-> <<>>, passes |-> <<>>]
NoName == <<"", 0>>
NoManifest == [status |-> "none", result |-> "", attempt |-> 0, copy |-> "none", level |-> ""]
Uncertain == {"unknown", "submitting"}

(* task_class(): an unmeasured recording is uncertain; skipped and pending rows count as not recorded *)
TaskClass(s) ==
  CASE s.status = "confirmed" -> IF s.result \in {"completed", "partial"} THEN s.result ELSE "uncertain"
    [] s.status \in {"not_sent", "sensor_error"} -> "failed"
    [] s.status \in Uncertain -> "uncertain"
    [] OTHER -> "not recorded"

PassCounts(rs, p) == [c \in Classes |-> Cardinality({r \in RowsIn(p) : TaskClass(rs[r]) = c})]

PassStatus(counts, p) ==
  IF counts["completed"] = Cardinality(RowsIn(p)) THEN "done"
  ELSE IF counts["completed"] + counts["partial"] > 0 THEN "partial" ELSE "failed"

Finished == {"done", "partial", "failed", "stopped"}

(* _recount_finished_rounds() *)
Recount(rs) ==
  [p \in ThePasses |->
     IF passes[p].status \notin Finished \/ p = current THEN passes[p]
     ELSE [counts |-> PassCounts(rs, p),
           status |-> IF passes[p].status = "stopped" THEN "stopped" ELSE PassStatus(PassCounts(rs, p), p)]]

(* build_handover(): the list a row of the session is put in, by its status as saved *)
HandoverList(s) ==
  CASE s.status = "confirmed" -> IF s.result \in {"completed", "partial"} THEN s.result ELSE "uncertain"
    [] s.status \in Uncertain -> "uncertain"
    [] s.status \in {"not_sent", "sensor_error"} -> "failed"
    [] OTHER -> "not recorded"

BuildHandover(rs, ps) ==
  [lists |-> [r \in TheRows |-> IF rs[r].status = "absent" THEN "absent" ELSE HandoverList(rs[r])],
   verified |-> {r \in TheRows : rs[r].status = "confirmed" /\ rs[r].copy = "verified"},
   levels |-> [r \in TheRows |-> IF rs[r].status = "confirmed" THEN rs[r].level ELSE ""],
   passes |-> ps]

(* build_capture_manifest() *)
BuildManifest(s) == [status |-> s.status, result |-> s.result, attempt |-> s.attempts, copy |-> s.copy, level |-> s.level]

(* manifest_path() and the name _write_task_manifest() falls back to; a recording's stem is its attempt's own *)
ManifestName(s) == <<IF s.status = "confirmed" THEN "stem" ELSE "row", IF s.attempts > 1 THEN s.attempts ELSE 1>>

ManifestsOf(rs, which) ==
  [r \in TheRows |-> IF r \in which THEN [manifests[r] EXCEPT ![ManifestName(rs[r])] = BuildManifest(rs[r])] ELSE manifests[r]]
WriteManifests(rs, which) ==
  /\ manifests' = ManifestsOf(rs, which)
  /\ named' = [r \in TheRows |-> IF r \in which THEN ManifestName(rs[r]) ELSE named[r]]

WriteHandover(rs, ps) == handover' = BuildHandover(rs, ps) /\ lags' = FALSE
KeepHandover == UNCHANGED <<handover, lags>>

(* background_jobs() = 0 *)
NoJobs(l, f, s, c, w) ==
  l = {} /\ ~w /\ \A r \in TheRows : f[r] = "none" /\ s[r] = "none" /\ c[r] = "none"

WhenLast(l, f, s, c, w) ==
  IF stage = "done" /\ NoJobs(l, f, s, c, w) THEN WriteHandover(tasks, passes) ELSE KeepHandover

MaxDownloads == 2
(* _drain_downloads() *)
Drained(f) ==
  LET queued == {r \in TheRows : f[r] = "queued"}
      free == MaxDownloads - Cardinality({r \in TheRows : f[r] \in {"active", "ending"}})
  IN [r \in TheRows |-> IF r \in queued /\ Cardinality({q \in queued : q < r}) < free THEN "active" ELSE f[r]]

(* _pump_quality(): one check at a time *)
Pumped(c) ==
  LET waiting == {r \in TheRows : c[r] = "waiting"}
  IN IF \E r \in TheRows : c[r] \in {"active", "ending"} THEN c
     ELSE [r \in TheRows |-> IF r \in waiting /\ \A q \in waiting : r <= q THEN "active" ELSE c[r]]

manifest_vars == <<manifests, named>>

----------------------------------------------------------------------------
ReportInit ==
  /\ kept \in Campaigns
  /\ tasks = [r \in TheRows |-> Untouched]
  /\ passes = [p \in ThePasses |-> [status |-> "pending", counts |-> NoCounts]]
  /\ current = 0 /\ stage = "active" /\ listing = {} /\ flushing = FALSE
  /\ fetch = [r \in TheRows |-> "none"] /\ sum = fetch /\ check = fetch
  /\ handover = NoHandover /\ presses = 0 /\ lags = FALSE /\ skipped = {}
  /\ manifests = [r \in TheRows |-> [n \in {"stem", "row"} \X (1 .. kept.presses + 2) |-> NoManifest]]
  /\ named = [r \in TheRows |-> NoName]

(* _start_round() *)
StartPass(p) ==
  /\ stage = "active" /\ current = 0 /\ passes[p].status = "pending"
  /\ \A q \in ThePasses : q < p => passes[q].status # "pending"
  /\ current' = p
  /\ passes' = [passes EXCEPT ![p].status = "running"]
  /\ tasks' = [r \in TheRows |-> IF kept.rows[r] = p THEN [Untouched EXCEPT !.status = "queued"] ELSE tasks[r]]
  /\ UNCHANGED <<kept, stage, job_vars, handover, manifest_vars, presses, lags, skipped>>

(* _finish_round(), of rows rs *)
Ended(rs, stopped) ==
  LET counts == PassCounts(rs, current)
  IN [passes EXCEPT ![current] = [counts |-> counts, status |-> IF stopped THEN "stopped" ELSE PassStatus(counts, current)]]

Confirmed(result) == [status |-> "confirmed", result |-> result]
Endings == {Confirmed("completed"), Confirmed("partial"), Confirmed("unconfirmed"),
            [status |-> "unknown", result |-> "unconfirmed"], [status |-> "sensor_error", result |-> "failed"]}

(* on_capture_finished() and _after_task() *)
Record(r) ==
  /\ stage = "active" /\ kept.rows[r] = current /\ tasks[r].status = "queued" /\ listing = {}
  /\ \A q \in RowsIn(current) : q < r => tasks[q].status # "queued"
  /\ \E e \in Endings :
       LET had == e.status = "confirmed"
           s == [tasks[r] EXCEPT !.status = e.status, !.result = e.result, !.attempts = @ + 1,
                                !.copy = IF ~had THEN "none" ELSE IF kept.auto THEN "pending" ELSE "not_requested", !.level = ""]
           rs == [tasks EXCEPT ![r] = s]
           ended == \A q \in RowsIn(current) : rs[q].status # "queued"
       IN /\ tasks' = rs /\ WriteManifests(rs, {r})
          /\ listing' = IF had /\ kept.auto THEN listing \cup {r} ELSE listing
          /\ flushing' = (flushing \/ had)
          /\ IF ended THEN passes' = Ended(rs, FALSE) /\ current' = 0 /\ WriteHandover(rs, passes')
             ELSE UNCHANGED <<passes, current>> /\ KeepHandover
  /\ fetch' = Drained(fetch)
  /\ UNCHANGED <<kept, stage, sum, check, presses, skipped>>

(* stop(), between two recordings *)
Stop ==
  /\ stage = "active"
  /\ passes' = IF current = 0 THEN passes ELSE Ended(tasks, TRUE)
  /\ current' = 0 /\ stage' = "done" /\ WriteHandover(tasks, passes')
  /\ UNCHANGED <<kept, tasks, job_vars, manifest_vars, presses, skipped>>

(* _finish_session() after the last pass *)
EndSession ==
  /\ stage = "active" /\ current = 0 /\ \A p \in ThePasses : passes[p].status \in Finished
  /\ stage' = "done" /\ WriteHandover(tasks, passes)
  /\ UNCHANGED <<kept, tasks, passes, current, job_vars, manifest_vars, presses, skipped>>

----------------------------------------------------------------------------
(* Background work.  Each handler is a step of the UI thread. *)
kept_by_jobs == <<kept, passes, current, stage, presses, skipped>>

(* apply() of _refresh_files_then_download() *)
Relisted(r) ==
  /\ r \in listing /\ listing' = listing \ {r}
  /\ fetch' = Drained(IF fetch[r] = "none" THEN [fetch EXCEPT ![r] = "queued"] ELSE fetch)
  /\ KeepHandover
  /\ UNCHANGED <<kept_by_jobs, tasks, sum, check, flushing, manifest_vars>>

(* _after_file_verified() *)
AfterVerified(rs, r) ==
  /\ WriteManifests([rs EXCEPT ![r].level = tasks[r].level], {r})
  /\ check' = IF rs[r].copy = "verified" /\ kept.checks /\ rs[r].level = "pending"
              THEN Pumped([check EXCEPT ![r] = "waiting"]) ELSE check

Copied(r, copy) ==
  [tasks EXCEPT ![r].copy = copy,
               ![r].level = IF copy = "verified" /\ kept.checks /\ @ \in {"", "pending"} THEN "pending" ELSE @]

(* _on_download_finished(), or the transfer is given up *)
Fetched(r) ==
  /\ fetch[r] = "active" /\ fetch' = [fetch EXCEPT ![r] = "ending"]
  /\ \/ /\ tasks' = Copied(r, "failed") /\ WriteManifests(tasks', {r}) /\ UNCHANGED <<sum, check>>
     \/ /\ kept.verify /\ tasks' = Copied(r, "present") /\ sum' = [sum EXCEPT ![r] = "active"]
        /\ UNCHANGED <<check, manifest_vars>>
     \/ /\ ~kept.verify /\ tasks' = Copied(r, "verified") /\ AfterVerified(tasks', r) /\ UNCHANGED sum
  /\ KeepHandover
  /\ UNCHANGED <<kept_by_jobs, listing, flushing>>

(* _on_download_thread_finished() *)
FetchEnded(r) ==
  /\ fetch[r] = "ending"
  /\ fetch' = Drained([fetch EXCEPT ![r] = "none"])
  /\ WhenLast(listing, fetch', sum, check, flushing)
  /\ UNCHANGED <<kept_by_jobs, tasks, listing, sum, check, flushing, manifest_vars>>

(* _on_checksum_done() *)
Hashed(r) ==
  /\ sum[r] = "active" /\ sum' = [sum EXCEPT ![r] = "ending"]
  /\ \E copy \in {"verified", "failed"} : tasks' = Copied(r, copy)
  /\ AfterVerified(tasks', r)
  /\ KeepHandover
  /\ UNCHANGED <<kept_by_jobs, listing, fetch, flushing>>

(* _on_checksum_thread_finished() writes no handover *)
HashEnded(r) ==
  /\ sum[r] = "ending" /\ sum' = [sum EXCEPT ![r] = "none"]
  /\ lags' = (lags \/ (stage = "done" /\ NoJobs(listing, fetch, sum', check, flushing)))
  /\ UNCHANGED <<kept_by_jobs, tasks, listing, fetch, check, flushing, handover, manifest_vars>>

(* _on_quality_done() *)
Checked(r) ==
  /\ check[r] = "active" /\ check' = [check EXCEPT ![r] = "ending"]
  /\ \E level \in {"ok", "error"} : tasks' = [tasks EXCEPT ![r].level = level]
  /\ WriteManifests(tasks', {r}) /\ KeepHandover
  /\ UNCHANGED <<kept_by_jobs, listing, fetch, sum, flushing>>

CheckEndedSilently(r) == \* MUTANT the end of the last file check writes no handover
  /\ check[r] = "ending" /\ check' = Pumped([check EXCEPT ![r] = "none"])
  /\ KeepHandover
  /\ UNCHANGED <<kept_by_jobs, tasks, listing, fetch, sum, flushing, manifest_vars>>
(* _on_quality_thread_finished() *)
CheckEnded(r) ==
  /\ check[r] = "ending" /\ check' = Pumped([check EXCEPT ![r] = "none"])
  /\ WhenLast(listing, fetch, sum, check', flushing)
  /\ UNCHANGED <<kept_by_jobs, tasks, listing, fetch, sum, flushing, manifest_vars>>

(* apply() of _flush_workbook() *)
Flushed ==
  /\ flushing /\ flushing' = FALSE
  /\ WhenLast(listing, fetch, sum, check, FALSE)
  /\ UNCHANGED <<kept_by_jobs, tasks, listing, fetch, sum, check, manifest_vars>>

----------------------------------------------------------------------------
(* The operator *)
Press == presses < kept.presses /\ presses' = presses + 1
UncertainRows == {r \in TheRows : tasks[r].status \in Uncertain}

NoneOut == current = 0 /\ \A r \in TheRows : fetch[r] = "none"

(* apply() of _reconcile_files(): rows whose file is found are counted, the others have none *)
Sought(seen, result) ==
  [r \in TheRows |->
     IF r \in seen THEN [tasks[r] EXCEPT !.status = "confirmed", !.result = result,
                                         !.copy = IF kept.auto THEN "pending" ELSE "not_requested"]
     ELSE IF r \in UncertainRows THEN [tasks[r] EXCEPT !.status = "unknown", !.result = "no file"] ELSE tasks[r]]

CheckApplied(rs, seen) ==
  /\ manifests' = ManifestsOf(rs, UncertainRows)
  /\ flushing' = (flushing \/ seen # {})
  /\ fetch' = Drained([r \in TheRows |-> IF kept.auto /\ r \in seen THEN "queued" ELSE fetch[r]])

Measured == {"completed", "partial", "unconfirmed"}

(* reconcile(), offered after a restart *)
CheckWithSensor ==
  /\ Press /\ stage = "interrupted" /\ UncertainRows # {}
  /\ \E seen \in SUBSET UncertainRows, result \in Measured :
       LET rs == Sought(seen, result)
       IN tasks' = rs /\ CheckApplied(rs, seen) /\ passes' = Recount(rs) /\ WriteManifests(rs, UncertainRows)
  /\ UNCHANGED <<kept, current, stage, listing, sum, check, handover, lags, skipped>>

(* retryable_tasks(): the failed rows of a pass, and those the check found no file of *)
Retryable(rs, p) ==
  {r \in RowsIn(p) : TaskClass(rs[r]) = "failed" \/ (rs[r].status = "unknown" /\ rs[r].result = "no file")}

(* _retry() *)
Retried(rs, p) ==
  [r \in TheRows |-> IF r \in Retryable(rs, p) THEN [Untouched EXCEPT !.status = "queued", !.attempts = rs[r].attempts] ELSE rs[r]]

LastPass(p) ==
  /\ \E r \in RowsIn(p) : tasks[r].status # "absent"
  /\ \A r \in TheRows : tasks[r].status # "absent" => kept.rows[r] <= p

CanRetry(p) == stage # "active" /\ current = 0 /\ LastPass(p)

(* retry_failed() of the last pass: no row of it is uncertain, or the check could not be made *)
RetryFailed(p) ==
  /\ Press /\ CanRetry(p) /\ Retryable(tasks, p) # {}
  /\ tasks' = Retried(tasks, p)
  /\ named' = [r \in TheRows |-> IF r \in Retryable(tasks, p) THEN NoName ELSE named[r]]
  /\ passes' = [passes EXCEPT ![p].status = "running"]
  /\ current' = p /\ stage' = "active"
  /\ UNCHANGED <<kept, job_vars, handover, manifests, lags, skipped>>

(* retry_failed() with an uncertain row: the check comes first, and the retry is the end of its apply() *)
CheckThenRetry(p) ==
  /\ Press /\ CanRetry(p) /\ RowsIn(p) \cap UncertainRows # {}
  /\ \E seen \in SUBSET UncertainRows, result \in Measured :
       LET rs == Sought(seen, result)
           again == Retryable(rs, p)
       IN /\ CheckApplied(rs, seen)
          /\ tasks' = Retried(rs, p)
          /\ named' = [r \in TheRows |-> IF r \in again THEN NoName ELSE IF r \in UncertainRows THEN ManifestName(rs[r]) ELSE named[r]]
          /\ passes' = IF again = {} THEN Recount(rs) ELSE [Recount(rs) EXCEPT ![p].status = "running"]
          /\ IF again = {} THEN UNCHANGED <<current, stage>> ELSE current' = p /\ stage' = "active"
          /\ lags' = (lags \/ (stage' = "done" /\ NoJobs(listing, fetch', sum, check, flushing')))
  /\ UNCHANGED <<kept, listing, sum, check, handover, skipped>>

(* retry_failed_downloads(), offered between passes when none is queued or runs *)
RetryDownloads ==
  /\ Press /\ NoneOut
  /\ LET given == {r \in TheRows : tasks[r].status = "confirmed" /\ tasks[r].copy = "failed"}
     IN /\ given # {}
        /\ tasks' = [r \in TheRows |-> IF r \in given THEN [tasks[r] EXCEPT !.copy = "pending"] ELSE tasks[r]]
        /\ fetch' = Drained([r \in TheRows |-> IF r \in given THEN "queued" ELSE fetch[r]])
  /\ UNCHANGED <<kept, passes, current, stage, listing, sum, check, flushing, handover, manifest_vars, lags, skipped>>

(* The row of the plan a row is for *)
PlanRow(r) == Cardinality({q \in RowsIn(kept.rows[r]) : q <= r})

(* _skip_uncertain() of the panel: it looks each uncertain row up in the running pass when there is one *)
SkipUncertain ==
  /\ Press /\ stage = "interrupted" /\ UncertainRows # {}
  /\ LET meant == IF current = 0 THEN UncertainRows
                  ELSE {q \in RowsIn(current) : \E r \in UncertainRows : PlanRow(q) = PlanRow(r)}
         which == {q \in meant : tasks[q].status # "confirmed"}
     IN /\ tasks' = [r \in TheRows |-> IF r \in which THEN [tasks[r] EXCEPT !.status = "skipped"] ELSE tasks[r]]
        /\ WriteManifests(tasks', which)
        /\ skipped' = IF current = 0 THEN skipped \cup which ELSE skipped
  /\ UNCHANGED <<kept, passes, current, stage, job_vars, handover, lags>>

----------------------------------------------------------------------------
(* The application ends, during a recording or not, and is started again *)
Restart ==
  /\ Press /\ stage = "active"
  /\ stage' = "interrupted" /\ listing' = {} /\ flushing' = FALSE
  /\ fetch' = [r \in TheRows |-> "none"] /\ sum' = fetch' /\ check' = fetch'
  /\ \E cut \in SUBSET {r \in RowsIn(current) : tasks[r].status = "queued"} :
       /\ Cardinality(cut) <= 1
       /\ \A r \in cut : \A q \in RowsIn(current) : q < r => tasks[q].status # "queued"
       /\ tasks' = [r \in TheRows |-> IF r \in cut THEN [tasks[r] EXCEPT !.status = "unknown", !.attempts = @ + 1] ELSE tasks[r]]
  /\ UNCHANGED <<kept, passes, current, handover, manifest_vars, lags, skipped>>

(* resume_after_restart(): unfinished downloads are queued again *)
Continue ==
  /\ stage = "interrupted" /\ UncertainRows = {} /\ stage' = "active"
  /\ LET again == {r \in TheRows : kept.auto /\ tasks[r].status = "confirmed" /\ tasks[r].copy \in {"pending", "present"} /\ fetch[r] = "none"}
     IN /\ tasks' = [r \in TheRows |-> IF r \in again THEN [tasks[r] EXCEPT !.copy = "pending"] ELSE tasks[r]]
        /\ fetch' = Drained([r \in TheRows |-> IF r \in again THEN "queued" ELSE fetch[r]])
  /\ IF current # 0 /\ \A r \in RowsIn(current) : tasks[r].status # "queued"
     THEN passes' = Ended(tasks', FALSE) /\ current' = 0 /\ WriteHandover(tasks', passes')
     ELSE UNCHANGED <<passes, current>> /\ KeepHandover
  /\ UNCHANGED <<kept, listing, sum, check, flushing, manifest_vars, presses, skipped>>

ReportNext ==
  \/ \E p \in ThePasses : StartPass(p) \/ RetryFailed(p) \/ CheckThenRetry(p)
  \/ \E r \in TheRows : Record(r) \/ Relisted(r) \/ Fetched(r) \/ FetchEnded(r) \/ Hashed(r) \/ HashEnded(r) \/ Checked(r) \/ CheckEnded(r)
  \/ Stop \/ EndSession \/ Flushed \/ CheckWithSensor \/ RetryDownloads \/ SkipUncertain \/ Restart \/ Continue
----------------------------------------------------------------------------
Quiet == NoJobs(listing, fetch, sum, check, flushing)

(* Once a collection is done and nothing of it runs any more, its handover summary says of every row, every copy and
   every pass what the session says - unless a checksum, or a check with the sensor, was the last thing to end: their
   ends write no summary. *)
HandoverIsCurrent == (stage = "done" /\ Quiet /\ ~lags) => handover = BuildHandover(tasks, passes)

(* The counts of a finished pass are those of its rows, and its status follows from them, whatever checks, retries and
   restarts came after it - unless a row of it was skipped while the program waited for a later pass. *)
CountsAreTrue ==
  \A p \in ThePasses : (passes[p].status \in Finished /\ p # current /\ RowsIn(p) \cap skipped = {}) =>
    /\ passes[p].counts = PassCounts(tasks, p)
    /\ passes[p].status \in {"stopped", PassStatus(PassCounts(tasks, p), p)}

(* A handover summary agrees with itself: the lists it puts the rows in hold as many as the counts of the passes say. *)
HandoverAddsUp ==
  handover # NoHandover =>
    \A p \in ThePasses : (handover.passes[p].status \in Finished /\ RowsIn(p) \cap skipped = {}) =>
      \A c \in Classes : handover.passes[p].counts[c] = Cardinality({r \in RowsIn(p) : handover.lists[r] = c})

(* When nothing runs, the manifest a row names says what the session says of the row: no download, check or retry
   leaves an old one behind.  (A file check that a restart cut off is not made again.) *)
ManifestIsCurrent ==
  (Quiet /\ stage # "interrupted") =>
    \A r \in TheRows :
      (named[r] # NoName /\ tasks[r].level # "pending") => manifests[r][named[r]] = BuildManifest(tasks[r])

(* The manifests of a row's earlier attempts are never written again. *)
EarlierManifestKept ==
  [][\A r \in TheRows : \A n \in DOMAIN manifests[r] :
       n[2] < tasks[r].attempts => manifests'[r][n] = manifests[r][n]]_report_vars

(* What is handed over - counts, manifests, summary - is what happened to the rows. *)
ReportsAreTrue == HandoverIsCurrent /\ CountsAreTrue /\ HandoverAddsUp /\ ManifestIsCurrent
=============================================================================
