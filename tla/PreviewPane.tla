----------------------------- MODULE PreviewPane -----------------------------
(***************************************************************************)
(* The preview beside the listing of Sensor Files (sftp_window.py): one    *)
(* job at a time on its own thread, the newest selection waiting for the   *)
(* end of an aborted one, results told apart by a token, a small cache.    *)
(***************************************************************************)
EXTENDS Naturals, Sequences

CONSTANTS
  Files,     \* files that can be selected
  Sidecars,  \* those that hold no samples (.xhdr, .xmrk)
  NoFile,
  CacheSize, \* _PREVIEW_CACHE
  MaxToken   \* bound: selections

ASSUME PreviewAssumption ==
  /\ NoFile \notin Files /\ Sidecars \subseteq Files /\ {CacheSize, MaxToken} \subseteq Nat \ {0}

VARIABLES
  token,     \* _preview_token
  selected,  \* the file of the last request
  shown,     \* whose waterfall the pane shows
  preparing, \* "Preparing waterfall"
  next_up,   \* _preview_pending: {} or {[token, file]}
  task,      \* _preview_jobs: {} or {[token, file, aborted, stage]}
  letters,   \* signals of the job
  cache      \* _preview_cache, oldest first

preview_vars == <<token, selected, shown, preparing, next_up, task, letters, cache>>

Stamp == [token : 1 .. MaxToken, file : Files]

(* The types, and never more than one job. *)
PreviewTypeOK ==
  /\ token \in 0 .. MaxToken /\ {selected, shown} \subseteq Files \cup {NoFile} /\ preparing \in BOOLEAN
  /\ next_up \subseteq Stamp /\ \A a, b \in next_up : a = b
  /\ task \subseteq [token : 1 .. MaxToken, file : Files, aborted : BOOLEAN, stage : {"runs", "over"}]
  /\ \A a, b \in task : a = b
  /\ letters \in Seq([kind : {"ready", "failed", "cancelled", "thread"}, token : 1 .. MaxToken, file : Files])
  /\ cache \in Seq(Files) /\ Len(cache) <= CacheSize

PreviewInit ==
  /\ token = 0 /\ selected = NoFile /\ shown = NoFile /\ preparing = FALSE
  /\ next_up = {} /\ task = {} /\ letters = <<>> /\ cache = <<>>

Cached(f) == \E i \in 1 .. Len(cache) : cache[i] = f
StartPreview(n, f) == task' = {[token |-> n, file |-> f, aborted |-> FALSE, stage |-> "runs"]}

(* _request_preview() *)
Select(f) ==
  /\ token < MaxToken /\ token' = token + 1 /\ selected' = f
  /\ IF f \in Sidecars
     THEN next_up' = {} /\ preparing' = FALSE /\ shown' = NoFile /\ UNCHANGED task
     ELSE IF Cached(f)
     THEN preparing' = FALSE /\ shown' = f /\ UNCHANGED <<next_up, task>>
     ELSE /\ preparing' = TRUE /\ shown' = NoFile
          /\ IF task # {} THEN /\ task' = {[j EXCEPT !.aborted = TRUE] : j \in task}
                               /\ next_up' = {[token |-> token + 1, file |-> f]}
             ELSE StartPreview(token + 1, f) /\ UNCHANGED next_up
  /\ UNCHANGED <<letters, cache>>

(* PreviewWorker.run(): an abort that comes after the last look is too late. *)
JobEnds(j, kind) ==
  /\ j.stage = "runs" /\ (kind = "cancelled" => j.aborted)
  /\ task' = {[j EXCEPT !.stage = "over"]}
  /\ letters' = letters \o <<[kind |-> kind, token |-> j.token, file |-> j.file],
                             [kind |-> "thread", token |-> j.token, file |-> j.file]>>
  /\ UNCHANGED <<token, selected, shown, preparing, next_up, cache>>

(* ForThisFile is for the newest request; ForAnyFile is its mutant without the token. *)
ForAnyFile(n) == TRUE
ForThisFile(n) == n = token

(* _on_preview_ready() and _show_preview(), _on_preview_failed() *)
Kept(f) ==
  LET all == IF Cached(f) THEN cache ELSE Append(cache, f)
  IN  IF Len(all) > CacheSize THEN Tail(all) ELSE all

OnPreview ==
  /\ letters # <<>> /\ Head(letters).kind # "thread" /\ letters' = Tail(letters)
  /\ cache' = IF Head(letters).kind = "ready" THEN Kept(Head(letters).file) ELSE cache
  /\ IF ForThisFile(Head(letters).token) /\ Head(letters).kind # "cancelled"
     THEN preparing' = FALSE /\ shown' = IF Head(letters).kind = "ready" THEN Head(letters).file ELSE NoFile
     ELSE UNCHANGED <<preparing, shown>>
  /\ UNCHANGED <<token, selected, next_up, task>>

AfterThread ==
  IF \E w \in next_up : w.token = token
  THEN \E w \in next_up : StartPreview(w.token, w.file)
  ELSE task' = {}

(* _on_preview_thread_finished() *)
OnPreviewThread ==
  /\ letters # <<>> /\ Head(letters).kind = "thread" /\ letters' = Tail(letters)
  /\ AfterThread /\ next_up' = {}
  /\ UNCHANGED <<token, selected, shown, preparing, cache>>

Computes == \E j \in task, kind \in {"ready", "failed", "cancelled"} : JobEnds(j, kind)
PreviewNext == (\E f \in Files : Select(f)) \/ Computes \/ OnPreview \/ OnPreviewThread

(* A job ends, signals are handled. *)
PreviewFairness == WF_preview_vars(Computes \/ OnPreview \/ OnPreviewThread)

-----------------------------------------------------------------------------
(* The waterfall is that of the file selected last, however late an older one comes. *)
ShowsTheSelected == shown # NoFile => shown = selected

(* "Preparing waterfall" ends: the newest selection is not lost behind the job it aborted. *)
PreparingEnds == preparing ~> ~preparing
==============================================================================
