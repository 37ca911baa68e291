----------------------------- MODULE SensorFiles -----------------------------
(***************************************************************************)
(* The Sensor Files window (sftp_window.py): the listing kept by a backend *)
(* on its own thread, deletions, batches of downloads with one worker and  *)
(* one connection for each file, and the finished recordings handed to the *)
(* merge.  The files are the numbered parts of one recording, which the    *)
(* sensor may still be writing.  A closed window leaves its transfers      *)
(* running, and the handshakes under way; a new window knows nothing of    *)
(* them, and its transfer of the same file writes the same .part file.     *)
(*                                                                         *)
(* A part's size is 0 (not there), 1 (still growing) or 2 (final).         *)
(***************************************************************************)
EXTENDS Naturals, Sequences, SequencesExt, FiniteSets

CONSTANTS
  N,            \* the recording has parts 1 .. N
  MaxParallel,  \* MAX_PARALLEL_DOWNLOADS
  Commands,     \* bound: listings and deletions under way at a time
  Reopenings    \* bound: times the window is closed

Parts == 1 .. N
Batches == {"now", "closed"}   \* the window's own batch; transfers of a closed window

ASSUME SensorFilesAssumption ==
  {N, MaxParallel, Commands} \subseteq Nat \ {0} /\ Reopenings \in Nat

VARIABLES
  remote,     \* sizes at the sensor
  writing,    \* the part the sensor writes; the recording is live (live_stem) until the last is done
  listing,    \* sizes in _entries; 0: not listed
  busy,       \* _busy
  commands,   \* signals to the backend: list, or remove these parts
  answers,    \* listed (a listing), failed, removed
  pending,    \* _dl_pending: [part, size] as listed
  worker,     \* [batch][part]: "none", "connecting", "waiting", "open", "over"
  expected,   \* [batch][part]: the size the worker was given
  cancelled,  \* _dl_cancel of this batch
  incomplete, \* _dl_fail or _dl_cancel_count is not 0
  saved,      \* _dl_saved is not empty
  mail,       \* signals of this window's workers
  cell,       \* the Local copy column
  copies,     \* the local copies: sizes, by part
  cut,        \* [batch]: parts whose .part another transfer has emptied since this one opened it
  holed,      \* history: sizes of copies, by part, that were kept with a hole
  merge_after,\* _merge_after_download
  offered,    \* the last request to the merge, if any
  closings

window_vars == <<listing, busy, commands, answers>>
batch_vars == <<pending, worker, expected, cancelled, incomplete, saved, mail, cell>>
disk_vars == <<copies, cut, holed>>
vars == <<remote, writing, window_vars, batch_vars, disk_vars, merge_after, offered, closings>>

Sizes == 0 .. 2
Listings == [Parts -> Sizes]
Nothing == [p \in Parts |-> 0]
Idle == [p \in Parts |-> "none"]

(* The types, and never more workers than MAX_PARALLEL_DOWNLOADS. *)
TypeOK ==
  /\ remote \in Listings /\ writing \in 1 .. N + 1
  /\ listing \in Listings /\ busy \in BOOLEAN
  /\ commands \in Seq([kind : {"list", "remove"}, parts : SUBSET Parts])
  /\ answers \in Seq([kind : {"listed"}, listing : Listings] \cup [kind : {"failed"}] \cup [kind : {"removed"}])
  /\ pending \in Seq([part : Parts, size : Sizes])
  /\ worker \in [Batches -> [Parts -> {"none", "connecting", "waiting", "open", "over"}]]
  /\ expected \in [Batches -> Listings]
  /\ cancelled \in BOOLEAN /\ incomplete \in BOOLEAN
  /\ saved \in BOOLEAN
  /\ mail \in Seq([kind : {"finished", "failed", "cancelled", "unreachable", "waiting", "progress", "thread"}, part : Parts])
  /\ cell \in [Parts -> {"", "Queued", "Downloading", "Waiting to retry", "Verified", "Saved", "Failed"}]
  /\ copies \in [Parts -> SUBSET {1, 2}] /\ holed \in [Parts -> SUBSET {1, 2}]
  /\ cut \in [Batches -> SUBSET Parts]
  /\ merge_after \in BOOLEAN
  /\ offered \subseteq [sizes : Listings, auto : BOOLEAN, live : BOOLEAN]
  /\ closings \in 0 .. Reopenings
  /\ Cardinality({p \in Parts : worker["now"][p] # "none"}) <= MaxParallel

Init ==
  /\ remote = [Nothing EXCEPT ![1] = 2] /\ writing = 2
  /\ listing = Nothing /\ busy = FALSE /\ commands = <<>> /\ answers = <<>>
  /\ pending = <<>> /\ worker = [b \in Batches |-> Idle] /\ expected = [b \in Batches |-> Nothing]
  /\ cancelled = FALSE /\ incomplete = FALSE /\ saved = FALSE
  /\ mail = <<>> /\ cell = [p \in Parts |-> ""]
  /\ copies = [p \in Parts |-> {}] /\ holed = copies /\ cut = [b \in Batches |-> {}]
  /\ merge_after = FALSE /\ offered = {} /\ closings = 0

live == writing <= N
Active == {p \in Parts : worker["now"][p] # "none"}
Downloading == pending # <<>> \/ Active # {}
Locked == busy \/ Downloading

-----------------------------------------------------------------------------
(* The sensor writes one part after the other and is done with the last. *)
SensorWrites ==
  /\ writing <= N
  /\ remote' = [remote EXCEPT ![writing] = @ + 1]
  /\ writing' = IF remote[writing] = 1 THEN writing + 1 ELSE writing
  /\ UNCHANGED <<window_vars, batch_vars, disk_vars, merge_after, offered, closings>>

(* SftpBackend.try_today(), listdir() and remove_files(): the head of the commands is done. *)
BackendLists(ok) ==
  /\ commands # <<>> /\ Head(commands).kind = "list"
  /\ commands' = Tail(commands)
  /\ answers' = Append(answers, IF ok THEN [kind |-> "listed", listing |-> remote] ELSE [kind |-> "failed"])
  /\ UNCHANGED <<remote, writing, listing, busy, batch_vars, disk_vars, merge_after, offered, closings>>

BackendRemoves ==
  /\ commands # <<>> /\ Head(commands).kind = "remove"
  /\ commands' = Tail(commands)
  /\ \E ok \in SUBSET {p \in Head(commands).parts : remote[p] = 2} :
       remote' = [p \in Parts |-> IF p \in ok THEN 0 ELSE remote[p]]
  /\ answers' = Append(answers, [kind |-> "removed"])
  /\ UNCHANGED <<writing, listing, busy, batch_vars, disk_vars, merge_after, offered, closings>>

-----------------------------------------------------------------------------
(* _request_list(), retry_today(): the second does not look at _busy *)
List == [kind |-> "list", parts |-> {}]
Ask == busy' = TRUE /\ commands' = Append(commands, List)

RequestList ==
  /\ ~Locked /\ Len(commands) + Len(answers) < Commands
  /\ Ask
  /\ UNCHANGED <<remote, writing, listing, answers, batch_vars, disk_vars, merge_after, offered, closings>>

RetryToday ==
  /\ ~Downloading /\ Len(commands) + Len(answers) < Commands
  /\ Ask
  /\ UNCHANGED <<remote, writing, listing, answers, batch_vars, disk_vars, merge_after, offered, closings>>

(* _initial_local_state() *)
InitialCell(p, size) ==
  IF cell[p] \in {"Queued", "Downloading", "Waiting to retry", "Failed"} THEN cell[p]
  ELSE IF size \in copies[p] THEN "Saved" ELSE ""

(* _fill() *)
Fill(entries) ==
  /\ listing' = entries
  /\ cell' = [p \in Parts |-> IF entries[p] = 0 THEN cell[p] ELSE InitialCell(p, entries[p])]

OnAnswer ==
  /\ answers # <<>> /\ answers' = Tail(answers)
  /\ CASE Head(answers).kind = "listed" -> Fill(Head(answers).listing) /\ busy' = FALSE /\ UNCHANGED commands
       [] Head(answers).kind = "failed" -> busy' = FALSE /\ UNCHANGED <<listing, cell, commands>>
       [] OTHER -> /\ UNCHANGED <<listing, cell>>
                   /\ IF Downloading THEN busy' = FALSE /\ UNCHANGED commands ELSE Ask
  /\ UNCHANGED <<remote, writing, pending, worker, expected, cancelled, incomplete, saved, mail,
                 disk_vars, merge_after, offered, closings>>

(* _delete_selected_remote(); bound: until something has been deleted *)
AllThere == \A p \in 1 .. writing - 1 : remote[p] # 0
DeleteSelected(chosen) ==
  /\ ~Locked /\ Len(commands) + Len(answers) < Commands /\ AllThere
  /\ chosen # {} /\ \A p \in chosen : listing[p] # 0
  /\ busy' = TRUE /\ commands' = Append(commands, [kind |-> "remove", parts |-> chosen])
  /\ UNCHANGED <<remote, writing, listing, answers, batch_vars, disk_vars, merge_after, offered, closings>>

-----------------------------------------------------------------------------
(* _local_part_paths(): the parts of the listing of which a copy of that size is there *)
Listed == {p \in Parts : listing[p] # 0}
Have == {p \in Listed : listing[p] \in copies[p]}

(* _after_downloads_finished() and the first lines of MergeController.request(): a recording of
   which every listed part is here is offered, by itself only when it is not live any more.     *)
Offer(manual) ==
  offered' = IF Cardinality(Listed) >= 2 /\ Have = Listed /\ (manual \/ ~live)
             THEN {[sizes |-> listing, auto |-> ~manual, live |-> live]}
             ELSE offered

(* _pump_downloads(): the first of the jobs q take the free places beside the workers w; c is
   what the column says.                                                                       *)
Places(w) == MaxParallel - Cardinality({p \in Parts : w[p] # "none"})
Pump(q, w, c) ==
  LET n == IF Places(w) < Len(q) THEN Places(w) ELSE Len(q)
      started == {q[i].part : i \in 1 .. n}
  IN  /\ pending' = SubSeq(q, n + 1, Len(q))
      /\ worker' = [worker EXCEPT !["now"] = [p \in Parts |-> IF p \in started THEN "connecting" ELSE w[p]]]
      /\ expected' = [expected EXCEPT !["now"] = [p \in Parts |->
           IF p \in started THEN q[CHOOSE i \in 1 .. n : q[i].part = p].size ELSE @[p]]]
      /\ cell' = [p \in Parts |-> IF p \in started THEN "Downloading" ELSE c[p]]

(* _begin_downloads() and _queue_downloads(): a copy of the size in the listing is not fetched
   again.  Finished copies are offered at once if nothing is left to do.                        *)
BeginDownloads(chosen, manual) ==
  LET present == {p \in chosen : listing[p] \in copies[p]}
      jobs == SetToSeq({[part |-> p, size |-> listing[p]] : p \in chosen \ present})
      c == [p \in Parts |-> IF p \in present THEN "Saved" ELSE IF p \in chosen THEN "Queued" ELSE cell[p]]
  IN  /\ ~busy /\ Active = {}
      /\ chosen # {} /\ chosen \subseteq Listed
      /\ IF jobs = <<>>
         THEN /\ cell' = c /\ saved' = FALSE /\ merge_after' = FALSE
              /\ Offer(manual)
              /\ UNCHANGED <<pending, worker, expected, cancelled, incomplete>>
         ELSE /\ cancelled' = FALSE /\ incomplete' = FALSE /\ saved' = (present # {})
              /\ Pump(jobs, worker["now"], c)
              /\ merge_after' = manual /\ UNCHANGED offered
      /\ UNCHANGED <<remote, writing, window_vars, mail, disk_vars, closings>>

DownloadSelected(chosen) == BeginDownloads(chosen, FALSE)

(* _merge_selected(): the missing parts first *)
MergeSelected ==
  /\ Cardinality(Listed) >= 2 /\ ~busy /\ Active = {}
  /\ IF Have = Listed
     THEN Offer(TRUE) /\ UNCHANGED <<remote, writing, window_vars, batch_vars, disk_vars, merge_after, closings>>
     ELSE BeginDownloads(Listed \ Have, TRUE)

(* _cancel_downloads() *)
CancelDownloads ==
  /\ Downloading /\ ~cancelled
  /\ cancelled' = TRUE /\ pending' = <<>>
  /\ incomplete' = (incomplete \/ pending # <<>>)
  /\ UNCHANGED <<remote, writing, window_vars, worker, expected, saved, mail, cell, disk_vars,
                 merge_after, offered, closings>>

-----------------------------------------------------------------------------
(* FileDownloadWorker, on its thread.  Only the window's own batch is listened to. *)
Told(b, kinds, p) == mail' = IF b = "now" THEN mail \o [i \in 1 .. Len(kinds) |-> [kind |-> kinds[i], part |-> p]] ELSE mail
Over(b, p) ==
  /\ worker' = [worker EXCEPT ![b][p] = IF b = "now" THEN "over" ELSE "none"]
  /\ expected' = [expected EXCEPT ![b][p] = 0]
worker_rest == <<remote, writing, window_vars, pending, cancelled, incomplete, saved, cell,
                 merge_after, offered, closings>>
(* cancel(); a closing window calls stop_waiting() of its workers *)
Cancelled(b) == b = "now" /\ cancelled
Stopping(b) == b = "closed" \/ cancelled

(* _open_browser() looks at the cancel event only: a handshake that the close of the window finds
   under way goes on to the transfer.  get() opens the .part file and empties it.                *)
Connects(b, p) ==
  /\ worker[b][p] = "connecting" /\ ~Cancelled(b)
  /\ worker' = [worker EXCEPT ![b][p] = "open"]
  /\ cut' = [o \in Batches |-> IF o # b /\ worker[o][p] = "open" THEN cut[o] \cup {p} ELSE cut[o]]
  /\ Told(b, <<"progress">>, p)
  /\ UNCHANGED <<expected, copies, holed, worker_rest>>

(* _connect(): after a connection error it waits and tries again, while its patience lasts. *)
Refused(b, p) ==
  /\ worker[b][p] = "connecting" /\ ~Stopping(b)
  /\ worker' = [worker EXCEPT ![b][p] = "waiting"]
  /\ Told(b, <<"waiting">>, p)
  /\ UNCHANGED <<expected, disk_vars, worker_rest>>

(* It waits for longer than its signal is on the way. *)
TriesAgain(b, p) ==
  /\ worker[b][p] = "waiting" /\ ~Stopping(b) /\ mail = <<>>
  /\ worker' = [worker EXCEPT ![b][p] = "connecting"]
  /\ UNCHANGED <<mail, expected, disk_vars, worker_rest>>

(* While it waits, and after a connection error, it looks whether it is to stop.  A refused login
   ends it like an error when its patience is over.                                             *)
GivesUp(b, p) ==
  /\ \/ worker[b][p] = "connecting"
     \/ worker[b][p] = "waiting" /\ Stopping(b)
  /\ Over(b, p)
  /\ Told(b, <<IF Stopping(b) THEN "cancelled" ELSE "unreachable", "thread">>, p)
  /\ UNCHANGED <<disk_vars, worker_rest>>

(* Mutant of Complete: the size it was listed with is enough. *)
CompleteAsListed(b, p) == expected[b][p] # 0

(* ParamikoSftpBrowser.download(), finalize_download(): as many bytes as the sensor has now, and no
   fewer than were listed; only sizes are compared.  While another transfer has the .part file open
   it can be neither moved into place nor deleted (Windows).                                       *)
Complete(b, p) ==
  /\ remote[p] # 0 /\ remote[p] >= expected[b][p]
  /\ \A other \in Batches \ {b} : worker[other][p] # "open"
Uncut(b, p) == cut' = [cut EXCEPT ![b] = @ \ {p}]

(* Of a .part file that was emptied under it, a transfer has written the end only: there is a hole
   unless the other one has written the rest.                                                      *)
Transferred(b, p) ==
  LET size == IF remote[p] = 0 THEN expected[b][p] ELSE remote[p]
  IN  /\ worker[b][p] = "open" /\ ~Cancelled(b)
      /\ Complete(b, p)
      /\ copies' = [copies EXCEPT ![p] = @ \cup {size}]
      /\ \/ UNCHANGED holed
         \/ p \in cut[b] /\ holed' = [holed EXCEPT ![p] = @ \cup {size}]
      /\ Uncut(b, p) /\ Over(b, p) /\ Told(b, <<"finished", "thread">>, p)
      /\ UNCHANGED worker_rest

TransferEnds(b, p) ==
  /\ worker[b][p] = "open"
  /\ Uncut(b, p) /\ Over(b, p)
  /\ Told(b, <<IF Cancelled(b) THEN "cancelled" ELSE "failed", "thread">>, p)
  /\ UNCHANGED <<copies, holed, worker_rest>>

-----------------------------------------------------------------------------
(* _on_file_downloaded(), _on_file_download_failed(), _on_file_unreachable(), _on_file_waiting(),
   _on_file_progress()                                                                            *)
OnFile ==
  LET p == Head(mail).part
  IN  /\ mail # <<>> /\ Head(mail).kind # "thread" /\ mail' = Tail(mail)
      /\ CASE Head(mail).kind = "finished" ->
                /\ cell' = [cell EXCEPT ![p] = "Verified"]
                /\ saved' = TRUE /\ UNCHANGED incomplete
           [] Head(mail).kind \in {"failed", "unreachable"} ->
                cell' = [cell EXCEPT ![p] = "Failed"] /\ incomplete' = TRUE /\ UNCHANGED saved
           [] Head(mail).kind = "cancelled" ->
                cell' = [cell EXCEPT ![p] = ""] /\ incomplete' = TRUE /\ UNCHANGED saved
           [] OTHER ->
                /\ cell' = [cell EXCEPT ![p] = IF Head(mail).kind = "waiting" THEN "Waiting to retry" ELSE "Downloading"]
                /\ UNCHANGED <<saved, incomplete>>
      /\ UNCHANGED <<remote, writing, window_vars, pending, worker, expected, cancelled, disk_vars,
                     merge_after, offered, closings>>

(* The end of _on_download_thread_finished(): an incomplete batch never feeds a merge. *)
BatchSettled ==
  /\ IF incomplete \/ (~saved /\ ~merge_after) THEN UNCHANGED offered ELSE Offer(merge_after)
  /\ saved' = FALSE /\ merge_after' = FALSE

NextFiles(w) == Pump(pending, w, cell)

(* _on_download_thread_finished() *)
OnThreadFinished ==
  /\ mail # <<>> /\ Head(mail).kind = "thread" /\ mail' = Tail(mail)
  /\ LET w == [worker["now"] EXCEPT ![Head(mail).part] = "none"]
     IN  /\ NextFiles(w)
         /\ IF pending' = <<>> /\ \A p \in Parts : worker'["now"][p] = "none"
            THEN BatchSettled /\ busy' = FALSE
            ELSE UNCHANGED <<saved, merge_after, offered, busy>>
  /\ UNCHANGED <<remote, writing, listing, commands, answers, cancelled, incomplete,
                 disk_vars, closings>>

(* closeEvent() of this window, and _open_sftp(): the new one lists today's folder.  At most one
   closed window has transfers left here: a worker that is waiting or was cancelled in its handshake
   gives up, of which nobody hears; a transfer that was cancelled may have looked for the last time. *)
Outlives(w) == w = "open" \/ (w = "connecting" /\ ~cancelled)
Reopen ==
  /\ closings < Reopenings /\ closings' = closings + 1
  /\ \A p \in Parts : worker["closed"][p] = "none"
  /\ listing' = Nothing /\ busy' = TRUE /\ commands' = <<List>> /\ answers' = <<>>
  /\ pending' = <<>> /\ mail' = <<>> /\ cell' = [p \in Parts |-> ""]
  /\ worker' = [b \in Batches |-> IF b = "now" THEN Idle ELSE
       [p \in Parts |-> IF Outlives(worker["now"][p]) THEN worker["now"][p] ELSE "none"]]
  /\ expected' = [b \in Batches |-> IF b = "now" THEN Nothing ELSE
       [p \in Parts |-> IF Outlives(worker["now"][p]) THEN expected["now"][p] ELSE 0]]
  /\ cut' = [b \in Batches |-> IF b = "now" THEN {} ELSE cut["now"]]
  /\ cancelled' = FALSE /\ incomplete' = FALSE /\ saved' = FALSE
  /\ merge_after' = FALSE
  /\ UNCHANGED <<remote, writing, copies, holed, offered>>

Worker ==
  \E b \in Batches, p \in Parts :
    \/ Connects(b, p) \/ Refused(b, p) \/ TriesAgain(b, p) \/ GivesUp(b, p)
    \/ Transferred(b, p) \/ TransferEnds(b, p)

Next ==
  \/ SensorWrites
  \/ \E ok \in BOOLEAN : BackendLists(ok)
  \/ BackendRemoves \/ OnAnswer
  \/ RequestList \/ RetryToday \/ MergeSelected \/ CancelDownloads \/ Reopen
  \/ \E chosen \in SUBSET Parts : DeleteSelected(chosen) \/ DownloadSelected(chosen)
  \/ Worker \/ OnFile \/ OnThreadFinished

Spec == Init /\ [][Next]_vars

(* The backend answers, signals are handled, and a transfer ends: it is enough that one of these
   happens while any can.  The patience of a worker is finite: one that tries again and again
   connects or gives up.                                                                        *)
ConnectingEnds == \E b \in Batches, p \in Parts : Connects(b, p) \/ GivesUp(b, p)
Work ==
  \/ \E ok \in BOOLEAN : BackendLists(ok)
  \/ BackendRemoves \/ OnAnswer \/ OnFile \/ OnThreadFinished
  \/ \E b \in Batches, p \in Parts : TriesAgain(b, p) \/ Transferred(b, p) \/ TransferEnds(b, p)
  \/ ConnectingEnds
Fairness == WF_vars(Work) /\ SF_vars(ConnectingEnds)

-----------------------------------------------------------------------------
(* Every recording offered to the merge is there in the sizes of the listing, every part of it, and one
   offered by itself is not being recorded any more.                                           *)
OfferedIsWhole ==
  \A o \in offered :
    /\ \A p \in Parts : o.sizes[p] # 0 => o.sizes[p] \in copies[p]
    /\ o.auto => ~o.live

(* What the column calls verified or saved is on this computer, and what it calls saved with at least
   the bytes that the listing shows: a part that has grown since is not called saved.  "Verified" is
   of the listing the transfer was begun from; retry_today() may have fetched a newer one.        *)
SavedIsThere ==
  \A p \in Parts :
    /\ cell[p] = "Verified" => copies[p] # {}
    /\ cell[p] = "Saved" => \E s \in copies[p] : s >= listing[p]

(* What is kept has the bytes that the sensor has, by number, and no other transfer has the file open
   then.  It has a hole only if another transfer, begun from another window, opened the .part file
   after this one and ended before it: the size does not tell.                                      *)
NothingIncompleteKept ==
  [][\A p \in Parts :
       /\ copies'[p] # copies[p] =>
            /\ copies'[p] \ copies[p] = {remote[p]}
            /\ Cardinality({b \in Batches : worker[b][p] = "open"}) = 1
       /\ holed'[p] # holed[p] =>
            /\ closings > 0
            /\ \E b \in Batches : worker[b][p] = "open" /\ p \in cut[b]]_vars

(* Cancel stops the batch: no further transfer of it is started. *)
CancelStops == [][cancelled /\ cancelled' => Active' \subseteq Active]_vars

(* The window is not left locked: a batch, a listing or a deletion ends. *)
Unlocked == Locked ~> ~Locked

(* What the window calls saved, and what it gives to the merge, is there, by its size. *)
FilesAreWhole == TypeOK /\ OfferedIsWhole /\ SavedIsThere

(* A transfer keeps a file of the right size or nothing, alone, and whole unless two windows wrote
   it at once; none is started after Cancel.                                                      *)
TransfersAreSafe == NothingIncompleteKept /\ CancelStops
==============================================================================
