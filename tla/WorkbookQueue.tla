---------------------------- MODULE WorkbookQueue ----------------------------
(***************************************************************************)
(* The protocol workbook (cellular_workbook.py): the results of confirmed  *)
(* rows wait in a persistent queue, a worker writes them into the rows of  *)
(* their pass, in place or in a block appended below, through openpyxl or  *)
(* through the Excel that has the workbook open, and CellularRunner starts *)
(* one flush at a time.  The user edits the workbook meanwhile and the     *)
(* application may be killed at any step.                                  *)
(*                                                                         *)
(* A result <<round, i, v>> is version v of plan row i in that pass: the   *)
(* files of its first v recordings.  A sheet is the sequence of its rows   *)
(* below the header.  openpyxl's load to replace is one step: that the     *)
(* user opens, changes, saves and closes the workbook in that time is left *)
(* out.                                                                    *)
(***************************************************************************)
EXTENDS Naturals, Sequences, SequencesExt, FiniteSets, FiniteSetsExt, Functions

CONSTANTS
  Passes,    \* the passes are 1 .. Passes
  N,         \* rows of the plan; their keys differ
  Recordings,\* bound: confirmed recordings in all; a row may have several (its Repeat)
  Edits,     \* bound: changes the user makes in Excel, and times it is opened
  Troubles   \* bound: crashes, a busy Excel, saves and backups that fail

Rows == 1 .. N
Rounds == 1 .. Passes
ASSUME WorkbookAssumption == {Passes, N, Recordings} \subseteq Nat \ {0} /\ {Edits, Troubles} \subseteq Nat

Results == Rounds \X Rows \X (1 .. Recordings)
Blank == <<>>
Cells == Results \cup {Blank, <<"files">>, <<"duration">>}   \* the last two are entered by hand
SheetRows == [key : 0 .. N, cell : Cells]                    \* key 0: a row of the user's

VARIABLES
  confirmed,   \* the session file: recordings confirmed, by pass and row
  owed,        \* confirmed and saved, not yet handed to the queue
  pending,     \* the queue file: pending
  blocks,      \* the queue file: [ordinal, first] of a pass' rows
  written, conflicts,   \* the queue file: <<round, row>>
  backup,      \* the queue file: the backup of this session
  phase,       \* the flush: "idle", "probed", "filled", "saved", "recorded"
  items,       \* its snapshot of pending
  via,         \* its probe of Excel; "closed" when the workbook it filled is closed
  report,      \* its WriteReport
  disk, book,  \* the worksheet in the file, and in Excel
  excel,       \* "closed", "open", "busy"
  edits, troubles,
  saved,       \* history: results that have been in the file
  orphaned,    \* history: passes given rows that record_blocks() never got to know
  lost         \* history: rows whose result was owed in a crash

queue_file == <<pending, blocks, written, conflicts, backup>>
flush == <<phase, items, via, report>>
sheets == <<disk, book, excel>>
history == <<saved, orphaned, lost>>
workbook_vars == <<confirmed, owed, queue_file, flush, sheets, edits, troubles, history>>

NoReport == [sheet |-> <<>>, blocks |-> <<>>, written |-> {}, conflicts |-> {}, done |-> {}]
Key(item) == <<item[1], item[2]>>
PlanSheet == [i \in Rows |-> [key |-> i, cell |-> Blank]]

(* The types. *)
WorkbookTypeOK ==
  /\ confirmed \in [Rounds \X Rows -> 0 .. Recordings]
  /\ owed \in Results \cup {Blank}
  /\ pending \in Seq(Results) /\ items \in Seq(Results)
  /\ DOMAIN blocks \subseteq Rounds
  /\ \A r \in DOMAIN blocks : blocks[r] \in [ordinal : Nat, first : Nat \ {0}]
  /\ written \subseteq Rounds \X Rows /\ conflicts \subseteq Rounds \X Rows
  /\ backup \in BOOLEAN 
  /\ phase \in {"idle", "probed", "filled", "saved", "recorded"}
  /\ via \in {"closed", "open"} /\ excel \in {"closed", "open", "busy"}
  /\ disk \in Seq(SheetRows) /\ book \in Seq(SheetRows)
  /\ saved \subseteq Results /\ orphaned \subseteq Rounds /\ lost \subseteq Rounds \X Rows

WorkbookInit ==
  /\ confirmed = [k \in Rounds \X Rows |-> 0] /\ owed = Blank
  /\ pending = <<>> /\ blocks = <<>> /\ written = {} /\ conflicts = {} /\ backup = FALSE
  /\ phase = "idle" /\ items = <<>> /\ via = "closed" /\ report = NoReport
  /\ disk = PlanSheet /\ book = <<>> /\ excel = "closed"
  /\ edits = 0 /\ troubles = 0
  /\ saved = {} /\ orphaned = {} /\ lost = {}

-----------------------------------------------------------------------------
(* Where the rows of a pass are. *)

(* _block_matches(): the plan's keys are in the rows from k on *)
BlockAt(sheet, k) == k + N - 1 <= Len(sheet) /\ \A i \in Rows : sheet[k + i - 1].key = i

(* _appended_blocks() *)
AppendedBlocks(sheet) == SelectSeq([k \in DOMAIN sheet |-> k], LAMBDA k : k > N /\ BlockAt(sheet, k))

(* Mutant of LocateBlock: the rows are where they were. *)
LocateBlockStored(sheet, block) == block.first

(* locate_block(): the first row of the block, found again when rows moved; 0 when it is gone *)
LocateBlock(sheet, block) ==
  IF BlockAt(sheet, block.first) THEN block.first
  ELSE IF block.ordinal > 0 /\ block.ordinal <= Len(AppendedBlocks(sheet)) THEN AppendedBlocks(sheet)[block.ordinal]
  ELSE 0

(* _has_results(): the marker column is the one of the file names *)
HasResults(sheet) == \E i \in Rows : sheet[i].cell \notin {Blank, <<"duration">>}

InPlace(sheet, known) ==
  BlockAt(sheet, 1) /\ ~HasResults(sheet) /\ \A r \in DOMAIN known : known[r].ordinal # 0

(* last_used_row() *)
LastUsed(sheet) == Max({k \in DOMAIN sheet : sheet[k] # [key |-> 0, cell |-> Blank]})

(* allocate_block(): the sheet with the rows of the new block, and the block *)
Allocate(sheet, known) ==
  LET last == LastUsed(sheet)
  IN IF InPlace(sheet, known) THEN [sheet |-> sheet, block |-> [ordinal |-> 0, first |-> 1]]
     ELSE [sheet |-> SubSeq(sheet, 1, last) \o [i \in Rows |-> [key |-> sheet[i].key, cell |-> Blank]],
           block |-> [ordinal |-> Len(AppendedBlocks(sheet)) + 1, first |-> last + 1]]

(* Mutant of MayWrite: what is in the row is replaced. *)
MayWriteAnyway(cell, item) == TRUE

(* _write_row(): nothing but files of this result is in the row *)
MayWrite(cell, item) == cell = Blank \/ (cell \in Results /\ Key(cell) = Key(item) /\ cell[3] <= item[3])

HoldsKey(sheet, row, i) == sheet[row].key = i

Moved(block, first) == IF first = 0 THEN block ELSE [block EXCEPT !.first = first]

(* apply_results(), the turn of one item *)
ApplyOne(acc, item) ==
  LET r == item[1]
      fresh == r \notin DOMAIN acc.blocks
      new == Allocate(acc.sheet, acc.blocks)
      sheet == IF fresh THEN new.sheet ELSE acc.sheet
      first == IF fresh THEN new.block.first ELSE LocateBlock(sheet, acc.blocks[r])
      block == IF fresh THEN new.block ELSE Moved(acc.blocks[r], first)
      row == first + item[2] - 1
      located == [acc EXCEPT !.sheet = sheet, !.blocks = (r :> block) @@ @]
  IN IF first = 0 \/ ~HoldsKey(sheet, row, item[2]) THEN located
     ELSE IF ~MayWrite(sheet[row].cell, item) THEN [located EXCEPT !.conflicts = @ \cup {Key(item)}]
     ELSE [located EXCEPT !.sheet[row].cell = item, !.done = @ \cup {Key(item)},
                          !.written = IF sheet[row].cell = item THEN @ ELSE @ \cup {Key(item)}]

ApplyResults(sheet, some) == FoldLeft(ApplyOne, [NoReport EXCEPT !.sheet = sheet, !.blocks = blocks], some)

Changes(rep) == rep.written # {} \/ DOMAIN rep.blocks # DOMAIN blocks

-----------------------------------------------------------------------------
(* The collection. *)

(* _on_capture_done(): a recording of the row is confirmed and saved; passes are numbered by
   their first one *)
Confirm(r, i) ==
  /\ owed = Blank /\ SumFunction(confirmed) < Recordings
  /\ \A q \in Rounds : q < r => \E j \in Rows : confirmed[<<q, j>>] > 0
  /\ confirmed' = [confirmed EXCEPT ![<<r, i>>] = @ + 1]
  /\ owed' = <<r, i, confirmed[<<r, i>>] + 1>>
  /\ UNCHANGED <<queue_file, flush, sheets, edits, troubles, history>>

(* enqueue(): a newer result of a row takes the place of the older one *)
Queued(queue, item) ==
  IF \E q \in ToSet(queue) : Key(q) = Key(item)
  THEN [k \in DOMAIN queue |-> IF Key(queue[k]) = Key(item) THEN item ELSE queue[k]]
  ELSE Append(queue, item)

(* _queue_row_result() *)
Enqueue ==
  /\ owed # Blank
  /\ pending' = Queued(pending, owed) /\ owed' = Blank
  /\ UNCHANGED <<confirmed, blocks, written, conflicts, backup, flush, sheets, edits, troubles, history>>

-----------------------------------------------------------------------------
(* flush_queue(), on the worker. *)

Trouble == troubles < Troubles /\ troubles' = troubles + 1

(* The end of a flush, and apply() of _flush_workbook(), after which the next may begin *)
FlushOver == phase' = "idle" /\ items' = <<>> /\ via' = "closed" /\ report' = NoReport

(* ExcelBusyError: nothing of this flush is marked done, its blocks are not recorded *)
GivesUp(known) == FlushOver /\ orphaned' = orphaned \cup (DOMAIN known \ DOMAIN blocks)

(* ensure_backup() *)
Backed(ok) == backup \/ ok

(* _flush_workbook(), from the tick, a timer, a new result or the end of a flush (its waits may
   take any time), and flush_queue(): the snapshot, the probe of Excel and the backup *)
Flush(ok) ==
  /\ phase = "idle" /\ pending # <<>>
  /\ IF excel # "busy" /\ Backed(ok)
     THEN /\ phase' = "probed" /\ items' = pending /\ via' = excel /\ report' = NoReport
          /\ backup' = (backup \/ ok)
     ELSE FlushOver /\ UNCHANGED backup
  /\ IF ok THEN UNCHANGED troubles ELSE Trouble
  /\ UNCHANGED <<confirmed, owed, pending, blocks, written, conflicts, sheets, edits, history>>

InFile(sheet) == {row.cell : row \in ToSet(sheet)} \cap Results
Saves(sheet) == disk' = sheet /\ saved' = saved \cup InFile(sheet)

(* write_results_openpyxl(): a file that Excel has opened since cannot be replaced *)
WriteClosed ==
  /\ phase = "probed" /\ via = "closed"
  /\ IF excel # "closed" THEN GivesUp(blocks) /\ UNCHANGED <<disk, saved>>
     ELSE /\ report' = ApplyResults(disk, items) /\ phase' = "saved"
          /\ IF Changes(report') THEN Saves(report'.sheet) ELSE UNCHANGED <<disk, saved>>
          /\ UNCHANGED <<items, via, orphaned>>
  /\ UNCHANGED <<confirmed, owed, queue_file, book, excel, edits, troubles, lost>>

(* write_results_com(): the cells; Excel may begin to refuse calls after some of them *)
WriteOpen ==
  /\ phase = "probed" /\ via = "open"
  /\ IF excel # "open" THEN GivesUp(blocks) /\ UNCHANGED <<book, troubles>>
     ELSE \E n \in 0 .. Len(items) :
            LET rep == ApplyResults(book, SubSeq(items, 1, n))
            IN /\ book' = rep.sheet
               /\ IF n < Len(items) THEN Trouble /\ GivesUp(rep.blocks)
                  ELSE phase' = "filled" /\ report' = rep /\ UNCHANGED <<items, via, orphaned, troubles>>
  /\ UNCHANGED <<confirmed, owed, queue_file, disk, excel, edits, saved, lost>>

(* Mutant of SaveOpen: the cells in Excel are taken for saved. *)
SaveOpenLater(ok) ==
  /\ phase = "filled" /\ phase' = "saved"
  /\ UNCHANGED <<confirmed, owed, queue_file, items, via, report, sheets, edits, troubles, history>>

(* write_results_com(): Workbook.Save, when something is not in the file yet *)
SaveOpen(ok) ==
  /\ phase = "filled"
  /\ IF ok /\ via = "open" /\ (excel = "open" \/ book = disk)
     THEN phase' = "saved" /\ Saves(book) /\ UNCHANGED <<items, via, report, orphaned>>
     ELSE GivesUp(report.blocks) /\ UNCHANGED <<disk, saved>>
  /\ IF ok THEN UNCHANGED troubles ELSE Trouble
  /\ UNCHANGED <<confirmed, owed, queue_file, book, excel, edits, lost>>

(* record_blocks() *)
RecordBlocks ==
  /\ phase = "saved" /\ phase' = "recorded" /\ blocks' = report.blocks
  /\ UNCHANGED <<confirmed, owed, pending, written, conflicts, backup, items, via, report, sheets,
                 edits, troubles, history>>

Handled == report.done \cup report.conflicts

(* mark_done(), mark_conflict(): by pass and row, whatever is queued for them by now;
   mark_failed() leaves the rest in the queue *)
Mark ==
  /\ phase = "recorded" /\ FlushOver
  /\ pending' = SelectSeq(pending, LAMBDA q : Key(q) \notin Handled)
  /\ written' = written \cup report.done
  /\ conflicts' = (conflicts \ report.done) \cup report.conflicts
  /\ UNCHANGED <<confirmed, owed, blocks, backup, sheets, edits, troubles, history>>

-----------------------------------------------------------------------------
(* Excel and its user; the process. *)

Edit == edits < Edits /\ edits' = edits + 1
WithoutUser == <<confirmed, owed, queue_file, flush, orphaned, lost>>

OpenBook ==
  /\ excel = "closed" /\ Edit /\ excel' = "open" /\ book' = disk
  /\ UNCHANGED <<WithoutUser, disk, troubles, saved>>

CloseBook(save) ==
  /\ excel = "open" /\ excel' = "closed" /\ book' = <<>>
  /\ IF save THEN Saves(book) ELSE UNCHANGED <<disk, saved>>
  /\ via' = IF phase = "filled" THEN "closed" ELSE via
  /\ UNCHANGED <<confirmed, owed, queue_file, phase, items, report, edits, troubles, orphaned, lost>>

TypeIn(k, text) ==
  /\ excel = "open" /\ Edit /\ book[k].cell = Blank
  /\ book' = [book EXCEPT ![k].cell = text]
  /\ UNCHANGED <<WithoutUser, disk, excel, troubles, saved>>

InsertRow(k) ==
  /\ excel = "open" /\ Edit
  /\ book' = InsertAt(book, k, [key |-> 0, cell |-> Blank])
  /\ UNCHANGED <<WithoutUser, disk, excel, troubles, saved>>

(* A cell is being edited or a dialog is open *)
EditMode ==
  /\ \/ excel = "open" /\ Trouble /\ excel' = "busy"
     \/ excel = "busy" /\ excel' = "open" /\ UNCHANGED troubles
  /\ UNCHANGED <<WithoutUser, disk, book, edits, saved>>

(* The application is killed and started again; Excel goes on *)
WorkbookCrash ==
  /\ Trouble
  /\ owed' = Blank /\ lost' = IF owed = Blank THEN lost ELSE lost \cup {Key(owed)}
  /\ GivesUp(report.blocks)
  /\ UNCHANGED <<confirmed, queue_file, sheets, edits, saved>>

FlushWork == Flush(TRUE) \/ WriteClosed \/ WriteOpen \/ SaveOpen(TRUE) \/ RecordBlocks \/ Mark

WorkbookNext ==
  \/ \E r \in Rounds, i \in Rows : Confirm(r, i)
  \/ Enqueue \/ FlushWork \/ Flush(FALSE) \/ SaveOpen(FALSE)
  \/ OpenBook \/ EditMode \/ WorkbookCrash
  \/ \E save \in BOOLEAN : CloseBook(save)
  \/ \E k \in DOMAIN book : InsertRow(k) \/ \E text \in {<<"files">>, <<"duration">>} : TypeIn(k, text)

(* Weak fairness of the flush, spelled out: it can go on when it is under way, or when something is
   queued and Excel answers.  Excel's user ends every edit and closes every dialog. *)
CanFlush == phase # "idle" \/ (pending # <<>> /\ excel # "busy")
WorkbookFairness ==
  /\ []<>~CanFlush \/ []<><<FlushWork>>_workbook_vars
  /\ WF_workbook_vars(Enqueue) /\ WF_workbook_vars(excel = "busy" /\ EditMode)

-----------------------------------------------------------------------------
Hand(sheet) == {k \in DOMAIN sheet : sheet[k].cell \in {<<"files">>, <<"duration">>}}
Of(sheet, key) == {k \in DOMAIN sheet : sheet[k].cell \in Results /\ Key(sheet[k].cell) = key}

(* What the user has entered stays, in the file and in the open workbook ("Entries the
   application did not write are never overwritten", _write_row()). *)
HandEntriesKept ==
  [][/\ Cardinality(Hand(disk')) >= Cardinality(Hand(disk))
     /\ excel' # "closed" => Cardinality(Hand(book')) >= Cardinality(Hand(book))]_workbook_vars

(* A result is in a row of its own plan row, also when rows were inserted above. *)
RowHoldsItsOwn ==
  \A sheet \in {disk, book} : \A k \in DOMAIN sheet :
    sheet[k].cell \in Results => sheet[k].key = sheet[k].cell[2]

(* A confirmed row is about to be queued, queued, written or reported as a conflict, unless the
   application was killed between the session's save and _queue_row_result(). *)
NoRowForgotten ==
  \A key \in Rounds \X Rows : confirmed[key] > 0 =>
    \/ key \in written \cup conflicts \cup lost
    \/ \E q \in ToSet(pending) \cup ({owed} \ {Blank}) : Key(q) = key

(* A row shown as written has been in the file on disk: through Excel not before the save. *)
WrittenWasSaved == \A key \in written : \E q \in saved : Key(q) = key

(* Nothing is changed in the file before its backup exists. *)
BackedUpFirst == saved # {} => backup

(* The results of a pass are in the file once, unless a flush put new rows into a sheet and
   ended before record_blocks(). *)
WrittenOnceIfRecorded ==
  \A key \in Rounds \X Rows : Cardinality(Of(disk, key)) > 1 => key[1] \in orphaned

(* "the queue survives a restart and is reconciled against the sheet before writing, so a row is
   never written twice" (cellular_workbook.py:28), "the next flush finds them unchanged and only
   saves" (:899).  It does not hold after a kill between the two (README). *)
WrittenOnce == \A key \in Rounds \X Rows : Cardinality(Of(disk, key)) <= 1

(* "a newer result for the same round and row replaces the older one" (cellular_workbook.py:1067):
   with nothing queued or owed for a written row, the newest result has been in the file.  It does
   not hold of a row recorded again while it is being written (README). *)
NewestWritten ==
  \A key \in written \ (lost \cup conflicts) :
    \/ \E q \in ToSet(pending) \cup ({owed} \ {Blank}) : Key(q) = key
    \/ Append(key, confirmed[key]) \in saved

(* What is queued is written or reported in the end, except for rows that are gone. *)
Gone(q) == q[1] \in DOMAIN blocks /\ LocateBlock(IF excel = "closed" THEN disk ELSE book, blocks[q[1]]) = 0
QueueDrains == <>[](\A q \in ToSet(pending) : Gone(q))

(* A result is never lost, doubled, put into another row or called written before it is saved,
   with Excel and its user in between and kills at any step.                                  *)
ResultsAreSafe ==
  /\ WorkbookTypeOK /\ RowHoldsItsOwn /\ NoRowForgotten /\ WrittenWasSaved /\ BackedUpFirst
  /\ WrittenOnceIfRecorded
==============================================================================
