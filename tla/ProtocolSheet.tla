---------------------------- MODULE ProtocolSheet ----------------------------
(***************************************************************************)
(* The protocol worksheet over time (cellular_protocol.py,                 *)
(* cellular_plan.py): it is imported into a plan, passes write their       *)
(* results into its rows or into blocks of copies below them, the operator *)
(* edits it, and it is imported again.  The rows are those of the "rows"   *)
(* layout; where the results are written is WorkbookQueue's matter.        *)
(***************************************************************************)
EXTENDS ProtocolRow, Sequences, SequencesExt

CONSTANTS
  Template,   \* the sheet before the first pass: a sequence of rows
  EditedRows, \* what the operator may put in place of a row
  SheetEdits, \* bound: edits of the operator
  SheetPasses \* bound: passes whose results are written

ASSUME SheetAssumption == {SheetEdits, SheetPasses} \subseteq Nat

VARIABLES
  sheet,     \* the rows, each as the entry that is read of it
  sheet_edits, sheet_passes,
  copied     \* history: rows that a pass appended, not edited since

sheet_vars == <<sheet, sheet_edits, sheet_passes, copied>>

SheetUnits == [header |-> "MHz", default |-> "MHz"]
Read(row) == EntriesFromRow(row, "rows", SheetUnits)[1]

SheetInit == sheet = [i \in DOMAIN Template |-> Read(Template[i])] /\ sheet_edits = 0 /\ sheet_passes = 0 /\ copied = {}

-----------------------------------------------------------------------------
(* import_protocol() with duplicates recorded once. *)

EntryKey(entry) == <<entry.direction, entry.start, entry.stop>>

Recordable(entry) == Ok(entry)

(* _flag_duplicates(): 0 when the row is the first with its allocation *)
DuplicateOf(rows, i) ==
  LET same == {k \in 1 .. i - 1 : Recordable(rows[k]) /\ EntryKey(rows[k]) = EntryKey(rows[i])}
  IN IF same = {} THEN 0 ELSE CHOOSE k \in same : \A m \in same : k <= m

(* ... whose repetition with a result is a row of an earlier pass *)
IsResult(rows, i) ==
  \/ rows[i].is_result
  \/ rows[i].has_result /\ Recordable(rows[i]) /\ DuplicateOf(rows, i) # 0

(* valid_entries(): the rows of the plan *)
Valid(rows) ==
  {i \in DOMAIN rows : /\ Recordable(rows[i]) /\ ~IsResult(rows, i)
                       /\ DuplicateOf(rows, i) = 0}

(* protocol_version() *)
Version(rows) ==
  {LET entry == rows[i] IN <<i, entry.duplex, EntryKey(entry), entry.repeat>> : i \in Valid(rows)}

-----------------------------------------------------------------------------
(* The plan. *)

(* request_range(): a centre that is not a whole number of Hz cannot be sent *)
RequestRange(entry) ==
  [sent |-> (entry.start + entry.stop) % 2 = 0,
   centre |-> (entry.start + entry.stop) \div 2, bandwidth |-> entry.stop - entry.start]

(* order_entries() *)
Ordered(rows) == SetToSortSeq(Valid(rows), <)

(* build_plan(): the requests of a pass, each row as often as its Repeat column says *)
Tasks(rows) ==
  FlattenSeq([n \in DOMAIN Ordered(rows) |->
    LET i == Ordered(rows)[n]
        entry == rows[i]
        request == RequestRange(entry)
    IN IF request.sent
       THEN [r \in 1 .. entry.repeat |-> [row |-> i, repetition |-> r, centre |-> request.centre, bandwidth |-> request.bandwidth]]
       ELSE <<>>])

(* CellularPlan.ready *)
Ready(rows) == Tasks(rows) # <<>> /\ \A i \in Valid(rows) : RequestRange(rows[i]).sent

-----------------------------------------------------------------------------
(* What happens to the sheet. *)

(* A pass writes the rows it confirmed, into the plan's rows while they are empty, else into copies *)
CollectPass(confirmed) ==
  LET plan == Ordered(sheet)
  IN /\ sheet_passes < SheetPasses /\ Ready(sheet) /\ sheet_passes' = sheet_passes + 1
     /\ confirmed # {}
     /\ IF \A i \in Valid(sheet) : ~sheet[i].has_result
        THEN /\ sheet' = [i \in DOMAIN sheet |->
                            IF i \in confirmed THEN [sheet[i] EXCEPT !.has_result = TRUE] ELSE sheet[i]]
             /\ UNCHANGED copied
        ELSE /\ sheet' = sheet \o [n \in DOMAIN plan |-> [sheet[plan[n]] EXCEPT !.has_result = plan[n] \in confirmed]]
             /\ copied' = copied \cup (Len(sheet) + 1 .. Len(sheet) + Len(plan))
     /\ UNCHANGED sheet_edits

(* The operator enters something else in a row, before the collection or between two passes *)
EditRow(i, row) ==
  /\ sheet_edits < SheetEdits /\ sheet_edits' = sheet_edits + 1
  /\ sheet' = [sheet EXCEPT ![i] = [Read(row) EXCEPT !.has_result = sheet[i].has_result]] /\ sheet' # sheet
  /\ copied' = copied \ {i}
  /\ UNCHANGED sheet_passes

SheetNext ==
  \/ \E confirmed \in SUBSET Valid(sheet) : CollectPass(confirmed)
  \/ \E i \in DOMAIN sheet, row \in EditedRows : EditRow(i, row)

-----------------------------------------------------------------------------
(* "Filling the result cells or appending a results block after a pass does not change the version":
   a plan that is imported again between two sheet_passes is the same plan. *)
ResultsKeepThePlan ==
  [][sheet_passes' # sheet_passes => Version(sheet') = Version(sheet) /\ Tasks(sheet') = Tasks(sheet)]_sheet_vars

(* "Editing an allocation does": when a row of the plan is edited, the version is another one. *)
EditChangesThePlan ==
  [][sheet_edits' # sheet_edits =>
       \A i \in Valid(sheet) : sheet'[i].errors = {} /\ ~sheet'[i].is_result
           /\ EntryKey(sheet'[i]) # EntryKey(sheet[i]) => Version(sheet') # Version(sheet)]_sheet_vars

(* No row is skipped: it is recorded, or it has an error, is a result, or repeats a recorded one. *)
NoRowSkipped ==
  \A i \in DOMAIN sheet :
    LET entry == sheet[i]
    IN \/ i \in Valid(sheet) \/ entry.errors # {} \/ entry.is_result
       \/ \E k \in Valid(sheet) : /\ k < i /\ sheet[k].direction = entry.direction
                                  /\ sheet[k].start = entry.start /\ sheet[k].stop = entry.stop

(* An allocation is recorded once in a pass, but for its repetitions, in the order of the sheet. *)
RecordedOnce ==
  LET tasks == Tasks(sheet)
  IN \A n \in 2 .. Len(tasks) :
       \/ tasks[n - 1].row < tasks[n].row
       \/ tasks[n - 1].row = tasks[n].row /\ tasks[n - 1].repetition < tasks[n].repetition

(* Each request is the row's own range, to the Hz; a plan that is ready has every row's. *)
RequestIsAsListed ==
  LET tasks == Tasks(sheet)
  IN /\ \A n \in DOMAIN tasks :
          LET entry == sheet[tasks[n].row]
          IN 2 * tasks[n].centre - tasks[n].bandwidth = 2 * entry.start /\ 2 * tasks[n].centre + tasks[n].bandwidth = 2 * entry.stop
     /\ Ready(sheet) => {tasks[n].row : n \in DOMAIN tasks} = Valid(sheet)

(* "Appended result blocks are recognised by key and never become instructions"
   (docs/CELLULAR_COLLECTION.md:145). *)
BlocksAreNoInstructions == copied \cap Valid(sheet) = {}

(* What is recorded is what the rows of the protocol say, each once and as written. *)
PlanIsAsWritten ==
  /\ OneAllocationPerSide /\ NothingUnread /\ FrequencyIsAsWritten
  /\ NoRowSkipped /\ RecordedOnce /\ RequestIsAsListed

(* The version of a plan follows what it instructs: results leave it, an edit changes it. *)
VersionFollowsThePlan == ResultsKeepThePlan /\ EditChangesThePlan
==============================================================================
