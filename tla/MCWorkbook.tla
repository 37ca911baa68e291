------------------------------ MODULE MCWorkbook -----------------------------
(* Instances for TLC of the protocol workbook: the rows that are read, the sheet that becomes a
   plan again and again, the queue of results; the log of recordings; the files the queues are
   kept in; and the counts, manifests and summary of a collection.  They share no state here, so
   a behaviour is one of the six.                                                              *)
EXTENDS WorkbookQueue, ExcelLog, JsonStore, ProtocolSheet, Reports

VARIABLE part
CONSTANTS m1, c1, c2

MCUnits == [u \in {"MHz", "kHz"} |-> IF u = "MHz" THEN 5 ELSE 1]

(* Numbers of either order, a negative one, and one that is not a whole number of Hz *)
MCEdges == {Empty, Words("x"), Number(20, ""), Number(40, "kHz"), Number(80, ""), Number(15, "kHz"), Number(-20, "")}
MCSideEdges == {Empty, Words("x"), Number(20, ""), Number(40, "MHz")}
MCDuplex == {Empty, Words(FDD), Words(TDD), Words("?")}
MCDirections == {Empty, Words(DL), Words(UL), Words(Shared), Words("?")}
MCUnitNames == {[header |-> "", default |-> ""], [header |-> "MHz", default |-> "MHz"], [header |-> "kHz", default |-> ""]}

Named(row) == [row EXCEPT !.band = Words("700")]
RowCells ==
  {[Named(BlankRow) EXCEPT !.duplex = d, !.direction = s, !.start = a, !.stop = b, !.unit = u] :
   d \in MCDuplex, s \in MCDirections, a, b \in MCEdges, u \in {Empty, Words("kHz"), Words("?")}}
PairedCells ==
  {[Named(BlankRow) EXCEPT !.duplex = d, !.dl_start = a, !.dl_stop = b, !.ul_start = c, !.ul_stop = e] :
   d \in MCDuplex, a, b, c, e \in MCSideEdges}

Listed(direction, start, stop, repeat) ==
  [Named(BlankRow) EXCEPT !.direction = Words(direction), !.start = Number(start, ""), !.stop = Number(stop, ""),
                          !.repeat = Number(10 * repeat, "")]
MCTemplate == <<Listed(UL, 40, 80, 2), Listed(DL, 40, 80, 1), Listed(DL, 40, 80, 1), Listed(DL, 20, 60, 1)>>
MCEdited == {Listed(DL, 20, 40, 1), Listed(DL, 40, 80, 1), Listed(UL, 80, 40, 1), Listed(DL, 20, 50, 1),
             [Listed(UL, 40, 80, 2) EXCEPT !.status = Words("done")]}

RowAtRest == cells = BlankRow /\ layout = "rows" /\ units = [header |-> "", default |-> ""] /\ entries = <<>>
SheetAtRest == sheet = <<>> /\ sheet_edits = 0 /\ sheet_passes = 0 /\ copied = {}
RowInit ==
  /\ \/ layout = "rows" /\ cells \in RowCells
     \/ layout = "paired" /\ cells \in PairedCells
  /\ units \in MCUnitNames /\ entries = <<>>

Kept(pass_of, auto, verify, checks, n) ==
  [rows |-> pass_of, auto |-> auto, verify |-> verify, checks |-> checks, presses |-> n]
MCCampaigns ==
  {Kept(<<1>>, TRUE, TRUE, TRUE, 2), Kept(<<1>>, TRUE, TRUE, FALSE, 2), Kept(<<1, 1>>, FALSE, TRUE, TRUE, 2),
   Kept(<<1, 2>>, FALSE, TRUE, TRUE, 2), Kept(<<1, 1>>, TRUE, FALSE, TRUE, 0)}
NothingKept == Kept(<<>>, TRUE, TRUE, TRUE, 0)
ReportAtRest ==
  /\ kept = NothingKept /\ tasks = <<>> /\ passes = <<>> /\ current = 0 /\ stage = "rest"
  /\ listing = {} /\ fetch = <<>> /\ sum = <<>> /\ check = <<>> /\ flushing = FALSE /\ handover = NoHandover
  /\ manifests = <<>> /\ named = <<>> /\ presses = 0 /\ lags = FALSE /\ skipped = {}

QueueInit == WorkbookInit /\ LogInit /\ JsonInit
queue_vars == <<workbook_vars, log_vars, json_vars>>
rule_vars == <<row_vars, sheet_vars>>
other_vars == <<rule_vars, report_vars>>

MCInit ==
  /\ QueueInit
  /\ \/ part \in {"workbook", "log", "file"} /\ RowAtRest /\ SheetAtRest /\ ReportAtRest
     \/ part = "row" /\ RowInit /\ SheetAtRest /\ ReportAtRest
     \/ part = "sheet" /\ RowAtRest /\ SheetInit /\ ReportAtRest
     \/ part = "report" /\ RowAtRest /\ SheetAtRest /\ ReportInit

MCNext ==
  /\ UNCHANGED part
  /\ \/ part = "workbook" /\ WorkbookNext /\ UNCHANGED <<log_vars, json_vars, other_vars>>
     \/ part = "log" /\ LogNext /\ UNCHANGED <<workbook_vars, json_vars, other_vars>>
     \/ part = "file" /\ JsonNext /\ UNCHANGED <<workbook_vars, log_vars, other_vars>>
     \/ part = "row" /\ ReadRow /\ UNCHANGED <<queue_vars, sheet_vars, report_vars>>
     \/ part = "sheet" /\ SheetNext /\ UNCHANGED <<queue_vars, row_vars, report_vars>>
     \/ part = "report" /\ ReportNext /\ UNCHANGED <<queue_vars, rule_vars>>

Spec == MCInit /\ [][MCNext]_<<part, queue_vars, other_vars>>
FairSpec == Spec /\ WorkbookFairness /\ LogFairness

(* Nothing that was entered by hand, or stands for an earlier attempt, is overwritten; nor does a
   pass change the plan it follows, as only an edit does.                                       *)
NothingOverwritten == HandEntriesKept /\ EarlierManifestKept /\ VersionFollowsThePlan

(* What is queued for a workbook is in it in the end. *)
QueuesDrain == QueueDrains /\ CollectedIsSaved /\ QueuedIsLogged
==============================================================================
