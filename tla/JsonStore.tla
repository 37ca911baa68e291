----------------------------- MODULE JsonStore -------------------------------
(* The state files of the application (json_store.py): write_json() and read_json() of one path,
   documents 1, 2, ... written one after the other, the file open elsewhere, a full disk, and a
   kill of the process at any step.                                                            *)
EXTENDS Naturals, FiniteSets

CONSTANTS
  Documents,        \* bound: documents written
  ReplaceAttempts   \* _REPLACE_ATTEMPTS

ASSUME JsonStoreAssumption == {Documents, ReplaceAttempts} \subseteq Nat \ {0}

None == 0          \* no file
Torn == Documents + 1   \* not a whole document
Contents == 0 .. Documents + 1

VARIABLES
  live, bak, tmp,   \* the file, its .bak and the temporary file
  doc,              \* the document written last, or now
  step,             \* "idle", "temp", "replace", "plain", "backup", "backing"
  attempts,         \* of os.replace
  before,           \* history: what read_json() gave when this write began
  exposed           \* history: a plain write has begun while .bak was not that document

json_vars == <<live, bak, tmp, doc, step, attempts, before, exposed>>

JsonTypeOK ==
  /\ {live, bak, tmp} \subseteq Contents /\ doc \in 0 .. Documents
  /\ step \in {"idle", "temp", "replace", "plain", "backup", "backing"}
  /\ attempts \in 0 .. ReplaceAttempts /\ before \in Contents /\ exposed \in BOOLEAN

JsonInit ==
  /\ live = None /\ bak = None /\ tmp = None /\ doc = 0 /\ step = "idle" /\ attempts = 0
  /\ before = None /\ exposed = FALSE

Whole(c) == c \notin {None, Torn}

(* Mutant of ReadJson: the backup is not looked at. *)
ReadJsonLive == IF Whole(live) THEN live ELSE None

(* read_json() *)
ReadJson == IF Whole(live) THEN live ELSE IF Whole(bak) THEN bak ELSE None

(* write_json(): to the temporary file first *)
Begin ==
  /\ step = "idle" /\ doc < Documents
  /\ doc' = doc + 1 /\ before' = ReadJson /\ tmp' = Torn /\ step' = "temp" /\ attempts' = 0
  /\ exposed' = (exposed /\ ~Whole(live))
  /\ UNCHANGED <<live, bak>>

TempWritten(ok) ==
  /\ step = "temp"
  /\ IF ok THEN tmp' = doc /\ step' = "replace" ELSE tmp' = None /\ step' = "idle"
  /\ UNCHANGED <<live, bak, doc, attempts, before, exposed>>

LastAttempt == attempts + 1 >= ReplaceAttempts

(* _replace(): os.replace, while another handle refuses it a few times more, ... *)
Replace(refused) ==
  /\ step = "replace"
  /\ IF ~refused THEN live' = tmp /\ tmp' = None /\ step' = "backup" /\ UNCHANGED <<attempts, exposed>>
     ELSE /\ attempts' = attempts + 1 /\ UNCHANGED tmp
          /\ IF ~LastAttempt THEN UNCHANGED <<live, step, exposed>>
             ELSE live' = Torn /\ step' = "plain" /\ exposed' = (exposed \/ ReadJson # bak)
  /\ UNCHANGED <<bak, doc, before>>

(* ... then the plain write, which may fail with the file emptied *)
PlainWritten(ok) ==
  /\ step = "plain" /\ tmp' = None
  /\ IF ok THEN live' = doc /\ step' = "backup" ELSE step' = "idle" /\ UNCHANGED live
  /\ UNCHANGED <<bak, doc, attempts, before, exposed>>

(* The copy for the next time, whose errors are passed over *)
BackupBegins ==
  /\ step = "backup"
  /\ \/ bak' = Torn /\ step' = "backing"
     \/ step' = "idle" /\ UNCHANGED bak
  /\ UNCHANGED <<live, tmp, doc, attempts, before, exposed>>

BackupWritten(ok) ==
  /\ step = "backing" /\ step' = "idle"
  /\ bak' = IF ok THEN doc ELSE bak
  /\ UNCHANGED <<live, tmp, doc, attempts, before, exposed>>

JsonCrash ==
  /\ step # "idle" /\ step' = "idle" /\ tmp' = None
  /\ UNCHANGED <<live, bak, doc, attempts, before, exposed>>

JsonNext ==
  \/ Begin \/ BackupBegins \/ JsonCrash
  \/ \E ok \in BOOLEAN : TempWritten(ok) \/ Replace(ok) \/ PlainWritten(ok) \/ BackupWritten(ok)

JsonSpec == JsonInit /\ [][JsonNext]_json_vars

(* At every step of a write, and after a kill in it, the document of before or the new one is
   read ("a kill or power loss mid-write leaves either the old or the new document", json_store.py:5),
   unless the plain write of the last resort began while .bak was not the document of before. *)
OldOrNew == exposed \/ ReadJson \in {before, doc}

(* A stored document survives: at most one try more than the bound, and never a mixture. *)
StoreIsSound == JsonTypeOK /\ OldOrNew
==============================================================================
