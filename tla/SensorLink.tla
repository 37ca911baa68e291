------------------------------ MODULE SensorLink ------------------------------
(***************************************************************************)
(* What the main window knows of its sensor (gui.py, connection_monitor.py *)
(* and sensor_storage.py): the link is checked every 10 s, the storage is  *)
(* read every 30 s and the identity when the sensor answers again.  Each   *)
(* is a job on a thread of its own; its answer comes when other settings   *)
(* may have been saved, or the window was closed.                          *)
(*                                                                         *)
(* A token is abstracted to what it tells: a job is current until the      *)
(* token is raised.  The probes and the SFTP session are external.         *)
(***************************************************************************)
EXTENDS Integers

CONSTANTS
  Hosts,        \* addresses that may be set
  Invalid,      \* ... those that are no address
  NoHost,
  MaxSettings   \* bound: settings saved

ASSUME LinkAssumption == Invalid \subseteq Hosts /\ NoHost \notin Hosts /\ MaxSettings \in Nat \ {0}

VARIABLES win, alive

link_vars == <<win, alive>>

(* The settings: a new object each time they are saved *)
Settings(no) == {c \in [no : {no}, host : Hosts \cup {NoHost}, demo : BOOLEAN] : c.demo => c.host # NoHost}

Sensor(conn) == <<conn.host, conn.demo>>
HasHost(w) == w.conn.host # NoHost

Jobs == {"link", "info", "storage"}
Job(w, kind) == [kind |-> kind, conn |-> w.conn, current |-> TRUE, cancelled |-> FALSE]

(* The token of these jobs is raised *)
Outdate(w, kind) ==
  [w EXCEPT !.jobs = {IF job.kind = kind THEN [job EXCEPT !.current = FALSE] ELSE job : job \in @}]
StartJob(w, kind) == [w EXCEPT !.jobs = @ \cup {Job(w, kind)}]

-----------------------------------------------------------------------------
(* The storage.  "of": the sensor it is of; "by": the settings whose read it was shown for. *)

Unavailable(w) == [ok |-> FALSE, stale |-> FALSE, of |-> Sensor(w.conn), by |-> w.conn.no]
Reading(w) == [ok |-> TRUE, stale |-> FALSE, of |-> Sensor(w.conn), by |-> w.conn.no]

(* _failed_storage(): the last good reading, as an outdated one *)
FailedStorage(w, conn) ==
  [w.storage EXCEPT !.stale = w.storage.ok, !.by = conn.no]

CancelRead(w) ==
  [w EXCEPT !.jobs = {IF job.kind = "storage" THEN [job EXCEPT !.cancelled = TRUE] ELSE job : job \in @}]

(* Mutant of RefreshStorage: a read that runs is waited for, also when it is dropped. *)
RefreshStorageWaiting(w) ==
  IF ~HasHost(w) THEN [w EXCEPT !.storage_timer = FALSE, !.storage = Unavailable(w)]
  ELSE IF w.conn.demo THEN [w EXCEPT !.storage_timer = TRUE, !.storage = Reading(w)]
  ELSE IF w.reading # 0
       THEN [(IF w.reading = w.conn.no THEN w ELSE CancelRead(Outdate(w, "storage"))) EXCEPT !.storage_timer = TRUE, !.rerun = TRUE]
       ELSE StartJob([w EXCEPT !.storage_timer = TRUE, !.reading = w.conn.no], "storage")

(* _refresh_storage().  reading: the settings of the read in flight, 0 when there is none *)
RefreshStorage(w) ==
  IF ~HasHost(w) THEN [w EXCEPT !.storage_timer = FALSE, !.storage = Unavailable(w)]
  ELSE IF w.conn.demo THEN [w EXCEPT !.storage_timer = TRUE, !.storage = Reading(w)]
  ELSE IF w.reading = w.conn.no THEN [w EXCEPT !.storage_timer = TRUE, !.rerun = TRUE]
  ELSE StartJob([CancelRead(Outdate(w, "storage")) EXCEPT
                   !.storage_timer = TRUE, !.reading = w.conn.no, !.rerun = FALSE], "storage")

-----------------------------------------------------------------------------
(* The link and the identity.  "by": the settings a link state or an identity was shown for. *)

(* LinkMonitor.note_success(), note_failure(), reset() *)
NoteSuccess(link, conn) == [state |-> "connected", failures |-> 0, by |-> conn.no]
NoteFailure(link, conn) ==
  [state |-> IF link.failures = 0 THEN "reconnecting" ELSE "disconnected",
   failures |-> IF link.failures = 0 THEN 1 ELSE 2, by |-> conn.no]
ResetLink(conn) ==
  [state |-> IF conn.demo THEN "connected" ELSE IF conn.host = NoHost THEN "idle" ELSE "checking",
   failures |-> 0, by |-> conn.no]

(* _apply_sensor_info() *)
ApplyInfo(w, conn, connected) ==
  LET shown == [w EXCEPT !.info = [by |-> conn.no, connected |-> connected]]
  IN IF connected THEN RefreshStorage([shown EXCEPT !.link = NoteSuccess(@, conn)])
     ELSE IF ~HasHost(w) THEN [shown EXCEPT !.link = ResetLink(w.conn)] ELSE shown

(* _refresh_sensor_info() *)
RefreshInfo(w) ==
  IF ~HasHost(w) THEN ApplyInfo(w, w.conn, FALSE)
  ELSE IF w.conn.demo THEN ApplyInfo(w, w.conn, TRUE)
  ELSE IF w.conn.host \in Invalid THEN ApplyInfo(Outdate(w, "info"), w.conn, FALSE)
  ELSE StartJob(Outdate(w, "info"), "info")

(* _apply_link_result() *)
ApplyLink(w, conn, ok) ==
  LET shown == [w EXCEPT !.in_flight = FALSE, !.link = IF ok THEN NoteSuccess(@, conn) ELSE NoteFailure(@, conn)]
  IN IF ok /\ w.link.state # "connected" THEN RefreshStorage(RefreshInfo(shown)) ELSE shown

(* _start_link_check() *)
StartLinkCheck(w, force) ==
  IF (w.in_flight /\ ~force) \/ ~HasHost(w) THEN w
  ELSE IF w.conn.host \in Invalid THEN ApplyLink(w, w.conn, FALSE)
  ELSE StartJob([w EXCEPT !.in_flight = TRUE], "link")

(* _restart_link_monitor() *)
RestartLinkMonitor(w) ==
  LET reset == [Outdate(w, "link") EXCEPT !.in_flight = FALSE, !.link = ResetLink(w.conn), !.link_timer = HasHost(w)]
  IN IF HasHost(w) THEN StartLinkCheck(reset, TRUE) ELSE reset

-----------------------------------------------------------------------------
(* What happens. *)

Blank(conn) ==
  [conn |-> conn, link |-> [state |-> "idle", failures |-> 0, by |-> conn.no], in_flight |-> FALSE, link_timer |-> FALSE,
   info |-> [by |-> conn.no, connected |-> FALSE],
   storage |-> [ok |-> FALSE, stale |-> FALSE, of |-> Sensor(conn), by |-> 0],
   reading |-> 0, rerun |-> FALSE, storage_timer |-> FALSE, jobs |-> {}]

(* _start_background_init() *)
LinkInit ==
  /\ alive = TRUE
  /\ \E conn \in Settings(1) : win = RestartLinkMonitor(RefreshStorage(RefreshInfo(Blank(conn))))

(* _open_settings(), when they are saved *)
SaveSettings ==
  /\ alive /\ win.conn.no < MaxSettings
  /\ \E conn \in Settings(win.conn.no + 1) :
       win' = RefreshStorage(RefreshInfo(RestartLinkMonitor([win EXCEPT !.conn = conn])))
  /\ UNCHANGED alive

(* The timers, and what else reads the storage: an ended recording, deleted files *)
PollLink == alive /\ win.link_timer /\ win' = StartLinkCheck(win, FALSE) /\ UNCHANGED alive
PollStorage == alive /\ win.storage_timer /\ win' = RefreshStorage(win) /\ UNCHANGED alive
(* Mutant of Taken: every answer. *)
TakenAlways(job) == alive

(* An answer that is shown: its token was not raised, and the identity is of the host that is set *)
Taken(job) == alive /\ job.current /\ (job.kind = "info" => job.conn.host = win.conn.host)

Ended(job) == [win EXCEPT !.jobs = @ \ {job}]

(* _show_link_result(), or _job_failed() *)
LinkAnswer(job, ok) ==
  /\ job.kind = "link" /\ (job.conn.demo => ok) /\ UNCHANGED alive
  /\ win' = IF Taken(job) THEN ApplyLink(Ended(job), job.conn, ok) ELSE Ended(job)

(* _show_sensor_info_result(); a job that failed is only logged *)
InfoAnswer(job, ok) ==
  /\ job.kind = "info" /\ UNCHANGED alive
  /\ \/ win' = IF Taken(job) THEN ApplyInfo(Ended(job), job.conn, ok) ELSE Ended(job)
     \/ ~ok /\ win' = Ended(job)

(* _show_storage_result(), with the read that was asked for meanwhile *)
StorageAnswer(job, ok) ==
  /\ job.kind = "storage" /\ ((job.cancelled \/ job.conn.host \in Invalid) => ~ok) /\ UNCHANGED alive
  /\ win' = IF ~Taken(job) THEN Ended(job)
            ELSE LET shown == [Ended(job) EXCEPT
                       !.reading = 0, !.rerun = FALSE,
                       !.storage = IF ok THEN [ok |-> TRUE, stale |-> FALSE, of |-> Sensor(job.conn), by |-> job.conn.no]
                                   ELSE FailedStorage(win, job.conn)]
                 IN IF win.rerun THEN RefreshStorage(shown) ELSE shown

Answer == \E job \in win.jobs, ok \in BOOLEAN : LinkAnswer(job, ok) \/ InfoAnswer(job, ok) \/ StorageAnswer(job, ok)

(* closeEvent() *)
CloseWindow ==
  /\ alive /\ alive' = FALSE
  /\ win' = [CancelRead(Outdate(win, "link")) EXCEPT !.link_timer = FALSE, !.storage_timer = FALSE, !.in_flight = FALSE]

LinkNext == SaveSettings \/ PollLink \/ PollStorage \/ Answer \/ CloseWindow

(* Every job ends: its connects and requests have timeouts.  Qt runs the timers. *)
LinkFairness ==
  /\ WF_link_vars(\E job \in win.jobs, ok \in BOOLEAN : LinkAnswer(job, ok))
  /\ WF_link_vars(\E job \in win.jobs, ok \in BOOLEAN : InfoAnswer(job, ok))
  /\ WF_link_vars(\E job \in win.jobs, ok \in BOOLEAN : StorageAnswer(job, ok))
  /\ WF_link_vars(PollLink) /\ WF_link_vars(PollStorage)

-----------------------------------------------------------------------------

(* "Disconnected" is said after two checks in a row that failed. *)
LinkTypeOK ==
  /\ alive \in BOOLEAN
  /\ win.conn.no \in 1 .. MaxSettings /\ win.conn \in Settings(win.conn.no)
  /\ win.link.state \in {"idle", "checking", "connected", "reconnecting", "disconnected"}
  /\ win.link.failures = CASE win.link.state = "reconnecting" -> 1 [] win.link.state = "disconnected" -> 2 [] OTHER -> 0
  /\ win.reading \in 0 .. win.conn.no
  /\ \A job \in win.jobs : job.kind \in Jobs /\ job.conn \in Settings(job.conn.no)

(* What the window shows of the link, the identity and the storage is never an answer that a sensor
   gave for earlier settings, and a closed window shows nothing new.  The identity and the storage of
   a sensor that was replaced by the demo, and the storage of one that was replaced by none, are
   exempt: no token is raised there (gui.py:1714-1728, 1827-1839). *)
AnswersAreOfTheSettings ==
  [][/\ win'.link # win.link => alive /\ (win'.conn.demo \/ win'.link.by = win'.conn.no)
     /\ win'.info # win.info => alive /\ (win'.conn.demo \/ win'.info.by = win'.conn.no)
     /\ win'.storage # win.storage =>
          alive /\ (win'.conn.demo \/ win'.conn.host = NoHost \/ win'.storage.by = win'.conn.no)]_link_vars

(* One SFTP session at a time reads the storage: another one is started when it was cancelled,
   and the read for these settings is not ("wasted one of the sensor's few handshake slots"). *)
OneStorageRead ==
  \A job \in win.jobs : job.kind = "storage" /\ job.conn = win.conn /\ alive => ~job.cancelled /\ job.current
     /\ \A other \in win.jobs \ {job} : other.kind = "storage" => other.cancelled

(* The link of new settings does not stay "Checking", whatever was in flight when they were saved. *)
LinkIsChecked == (alive /\ win.link.state = "checking") ~> (win.link.state # "checking" \/ ~alive)

(* The storage of a sensor is read for the settings that are saved, and not only for earlier ones. *)
StorageIsRead ==
  \A no \in 1 .. MaxSettings :
    (alive /\ win.conn.no = no /\ win.conn.host # NoHost /\ ~win.conn.demo)
      ~> (win.storage.by = no \/ win.conn.no # no \/ ~alive)

(* "The main window shows IQ Storage for the sensor disk" (README.md:31): once the read for these
   settings was answered, what is shown, and what Start is held against, is the disk of this sensor.
   It does not hold after a failed read (README). *)
StorageIsTheSensors == win.storage.ok /\ win.storage.by = win.conn.no => win.storage.of = Sensor(win.conn)
===============================================================================
