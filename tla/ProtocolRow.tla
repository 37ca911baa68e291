----------------------------- MODULE ProtocolRow -----------------------------
(***************************************************************************)
(* How a row of the protocol worksheet is read (cellular_protocol.py): its *)
(* cells, by the columns the headers are mapped to, become one allocation, *)
(* or a DL and a UL one; what cannot be read is an error of the row.       *)
(*                                                                         *)
(* A cell that is empty is Empty.  A number is in tenths of its unit; a    *)
(* frequency is in Hz, 0 when there is none.                               *)
(***************************************************************************)
EXTENDS Integers

CONSTANTS Units  \* Hz of each unit, by its name

ASSUME UnitsAssumption == \A u \in DOMAIN Units : Units[u] \in Nat \ {0}

DL == "DL"  UL == "UL"  Shared == "TDD / shared UL-DL"
FDD == "FDD"  TDD == "TDD"

Empty == [kind |-> "empty"]
Words(text) == [kind |-> "text", text |-> text]
Number(tenths, unit) == [kind |-> "number", tenths |-> tenths, unit |-> unit]

(* A row by roles; the columns that are not mapped are empty *)
BlankRow ==
  [role \in {"band", "duplex", "direction", "start", "stop", "unit", "dl_start", "dl_stop", "ul_start", "ul_stop",
             "repeat", "result", "status"} |-> Empty]

Present(cell) == cell # Empty

EdgeRoles == {"start", "stop", "dl_start", "dl_stop", "ul_start", "ul_stop"}

-----------------------------------------------------------------------------
(* The cells. *)

Refusal(code) == [hz |-> 0, errors |-> {code}]

(* Mutant of ParseFrequency: a bare number is taken to be in MHz. *)
ParseFrequencyGuessing(cell, hint) ==
  IF ~Present(cell) THEN Refusal("missing")
  ELSE IF cell.kind # "number" THEN Refusal("invalid")
  ELSE LET unit == IF cell.unit # "" THEN cell.unit ELSE IF hint # "" THEN hint ELSE "MHz"
           tenths == cell.tenths * Units[unit]
       IN IF tenths <= 0 THEN Refusal("invalid") ELSE [hz |-> tenths \div 10, errors |-> {}]

(* parse_frequency_cell(): never a guessed unit, never rounded *)
ParseFrequency(cell, hint) ==
  IF ~Present(cell) THEN Refusal("missing")
  ELSE IF cell.kind # "number" THEN Refusal("invalid")
  ELSE LET unit == IF cell.unit # "" THEN cell.unit ELSE hint
       IN IF unit = "" THEN Refusal("no_unit")
          ELSE LET tenths == cell.tenths * Units[unit]
               IN IF tenths <= 0 THEN Refusal("invalid")
                  ELSE IF tenths % 10 # 0 THEN Refusal("fraction_hz") ELSE [hz |-> tenths \div 10, errors |-> {}]

(* _unit_hint(): the unit cell, else the header's unit, else the default *)
UnitHint(row, header_unit, default_unit) ==
  IF row.unit.kind = "text" /\ row.unit.text \in DOMAIN Units THEN row.unit.text
  ELSE IF header_unit # "" THEN header_unit ELSE default_unit

(* parse_duplex_cell(), parse_direction_cell(), parse_repeat_cell() *)
Duplex(cell) == IF Present(cell) /\ cell.text \in {FDD, TDD} THEN cell.text ELSE ""
Direction(cell) == IF Present(cell) /\ cell.text \in {DL, UL, Shared} THEN cell.text ELSE ""
DirectionErrors(cell) == IF Present(cell) /\ Direction(cell) = "" THEN {"direction_unknown"} ELSE {}
Repeats(cell) == IF cell.kind = "number" /\ cell.tenths >= 10 THEN cell.tenths \div 10 ELSE 1

(* _reconcile() *)
Agreed(direction, duplex) ==
  CASE duplex = TDD /\ direction \in {DL, UL} -> [direction |-> direction, duplex |-> TDD, errors |-> {"tdd_direction"}]
    [] duplex = TDD /\ direction \notin {DL, UL} -> [direction |-> Shared, duplex |-> TDD, errors |-> {}]
    [] duplex = FDD /\ direction = Shared -> [direction |-> Shared, duplex |-> FDD, errors |-> {"fdd_shared"}]
    [] duplex # TDD /\ direction = "" -> [direction |-> "", duplex |-> duplex, errors |-> {"direction_missing"}]
    [] OTHER -> [direction |-> direction, duplex |-> IF direction = Shared THEN TDD ELSE FDD, errors |-> {}]

-----------------------------------------------------------------------------
(* _entries_from_row() *)

DoneStatus == {"collected", "done"}

(* make() *)
Entry(row, direction, duplex, start, stop, errors) ==
  [direction |-> direction, duplex |-> duplex, start |-> start, stop |-> stop, repeat |-> Repeats(row.repeat),
   errors |-> errors \cup (IF start > 0 /\ stop > 0 /\ start >= stop THEN {"reversed"} ELSE {})
                     \cup (IF Present(row.band) THEN {} ELSE {"band_missing"}),
   has_result |-> Present(row.result), is_result |-> Present(row.status) /\ row.status.text \in DoneStatus]

RowEntries(row, units) ==
  LET At(role) == ParseFrequency(row[role], UnitHint(row, units.header, units.default))
      start == At("start")  stop == At("stop")
      agreed == Agreed(Direction(row.direction), Duplex(row.duplex))
  IN <<Entry(row, agreed.direction, agreed.duplex, start.hz, stop.hz,
             start.errors \cup stop.errors \cup DirectionErrors(row.direction) \cup agreed.errors)>>

StartOf(side) == IF side = DL THEN "dl_start" ELSE "ul_start"
StopOf(side) == IF side = DL THEN "dl_stop" ELSE "ul_stop"

(* The sides of a row with DL and UL columns *)
Sides(row) == {side \in {DL, UL} : Present(row[StartOf(side)]) \/ Present(row[StopOf(side)])}

PairedEntries(row, units) ==
  LET At(role) == ParseFrequency(row[role], UnitHint(row, units.header, units.default))
      Start(side) == At(StartOf(side))  Stop(side) == At(StopOf(side))
      Errors(side) == Start(side).errors \cup Stop(side).errors
      sides == Sides(row)
      duplex == Duplex(row.duplex)
      Of(side) == Entry(row, side, IF duplex = "" THEN FDD ELSE duplex, Start(side).hz, Stop(side).hz, Errors(side))
      SharedOf(side, errors) == Entry(row, Shared, TDD, Start(side).hz, Stop(side).hz, errors)
  IN CASE sides = {} -> <<Entry(row, "", duplex, 0, 0, {"missing"})>>
       [] sides # {} /\ duplex = TDD ->
            IF sides = {DL, UL} /\ <<Start(DL).hz, Stop(DL).hz>> # <<Start(UL).hz, Stop(UL).hz>>
            THEN <<SharedOf(DL, Errors(DL) \cup Errors(UL) \cup {"tdd_two_ranges"})>>
            ELSE LET side == IF DL \in sides THEN DL ELSE UL IN <<SharedOf(side, Errors(side))>>
       [] OTHER -> IF sides = {DL, UL} THEN <<Of(DL), Of(UL)>> ELSE <<Of(CHOOSE side \in sides : TRUE)>>

EntriesFromRow(row, layout, units) == IF layout = "rows" THEN RowEntries(row, units) ELSE PairedEntries(row, units)

(* ProtocolEntry.ok *)
Ok(entry) == ~entry.is_result /\ entry.errors = {}

-----------------------------------------------------------------------------
(* A row that is read.  units: [header, default], those of the columns and of the sheet. *)

VARIABLES cells, layout, units, entries

row_vars == <<cells, layout, units, entries>>

(* import_protocol() at this row *)
ReadRow == entries = <<>> /\ entries' = EntriesFromRow(cells, layout, units) /\ UNCHANGED <<cells, layout, units>>

(* An allocation that is recorded is one range with a direction; a TDD band is recorded once, as a
   shared one, and an FDD one never as shared. *)
OneAllocationPerSide ==
  \A i \in DOMAIN entries :
    LET entry == entries[i]
    IN entry.errors = {} =>
         /\ 0 < entry.start /\ entry.start < entry.stop
         /\ entry.direction \in {DL, UL, Shared}
         /\ entry.duplex = TDD <=> entry.direction = Shared
         /\ Duplex(cells.duplex) \in {"", entry.duplex}
         /\ layout = "rows" => Direction(cells.direction) \in {"", entry.direction}

(* The edges an entry was read from *)
ReadFrom(entry) ==
  IF layout = "rows" THEN {"start", "stop"}
  ELSE LET side == IF entry.direction # Shared THEN entry.direction ELSE IF DL \in Sides(cells) THEN DL ELSE UL
       IN {StartOf(side), StopOf(side)}

(* No frequency that somebody entered is left out of a row that has no error, unless it is that of
   the other side of a shared range. *)
NothingUnread ==
  entries # <<>> /\ (\A i \in DOMAIN entries : entries[i].errors = {}) =>
    LET read == UNION {ReadFrom(entries[i]) : i \in DOMAIN entries}
        entered == {r \in EdgeRoles : Present(cells[r]) /\ (layout = "rows" <=> r \in {"start", "stop"})}
    IN \/ entered \subseteq read
       \/ entries[1].direction = Shared /\ \A r \in entered :
            ParseFrequency(cells[r], UnitHint(cells, units.header, units.default)).hz \in {entries[1].start, entries[1].stop}

(* A recorded frequency is the one that is written, to the Hz, in a unit that is written: in the
   cell, the row, the header or for the sheet. *)
FrequencyIsAsWritten ==
  \A i \in DOMAIN entries :
    LET Is(hz, cell) ==
          \E u \in {cell.unit, units.header, units.default, IF Present(cells.unit) THEN cells.unit.text ELSE ""} \cap DOMAIN Units :
            hz * 10 = cell.tenths * Units[u]
    IN layout = "rows" /\ entries[i].errors = {} => Is(entries[i].start, cells.start) /\ Is(entries[i].stop, cells.stop)
==============================================================================
