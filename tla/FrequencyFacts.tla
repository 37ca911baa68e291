---------------------------- MODULE FrequencyFacts ---------------------------
(***************************************************************************)
(* What the Converter says of a file's frequencies (iq_metadata.py,        *)
(* _frequency_plan()): the file's own metadata, and the request found in   *)
(* the Recorder's manifest beside it or in the Recorder's history, which   *)
(* is marked when both can be trusted.                                     *)
(*                                                                         *)
(* A range is <<start, stop>>, NoRange when it is not usable; 0 is an      *)
(* unknown number, "" an unknown name.  Records are those with the file's  *)
(* stem.                                                                   *)
(***************************************************************************)
EXTENDS Integers, FiniteSets

CONSTANTS
  Own,        \* the recording in the file: [receiver, range]; start + stop is even
  Others,     \* recordings whose files may have the same name
  Bandwidths, \* sensor_bandwidth_hz, even
  Rate        \* the sample rate, even

ASSUME FrequencyAssumption ==
  /\ \A r \in {Own} \cup Others :
       /\ r.range \in Nat \X Nat
       /\ r.range[1] > 0 /\ r.range[2] > r.range[1] /\ (r.range[1] + r.range[2]) % 2 = 0
  /\ Bandwidths \subseteq Nat /\ Rate \in Nat

NoRange == <<0, 0>>
Centre(range) == (range[1] + range[2]) \div 2

VARIABLES
  chunk,    \* the meta chunk: [present, type, rate_differs, centre, bandwidth, receiver]
  manifest, \* [kind: "none", "unreadable" or "capture", serial, centre, range, windows, window]
  records,  \* the history: [there, entries: [serial, range, centre, demo]]
  markers,  \* the option
  lookup,   \* RequestLookup: [status, range, from]
  axis      \* of _frequency_plan(): [absolute, lo, hi, request, sensor]

freq_vars == <<chunk, manifest, records, markers, lookup, axis>>

NoLookup == [status |-> "none", range |-> NoRange, from |-> "nothing"]
NoAxis == [absolute |-> FALSE, lo |-> 0, hi |-> 0, request |-> NoRange, sensor |-> NoRange]

(* Records of the own recording and of others; a Recorder that knew no serial left it out *)
ChunkOf(r) ==
  {[present |-> FALSE, type |-> "", rate_differs |-> FALSE, centre |-> 0, bandwidth |-> 0, receiver |-> ""]} \cup
  [present : {TRUE}, type : {"", "real"}, rate_differs : BOOLEAN, centre : {0, Centre(r.range)},
   bandwidth : Bandwidths \cup {0}, receiver : {"", r.receiver}]
ManifestOf(r) ==
  [kind : {"capture"}, serial : {"", r.receiver}, centre : {0, Centre(r.range)},
   range : {r.range, NoRange}, windows : {0}, window : {NoRange}] \cup
  [kind : {"capture"}, serial : {"", r.receiver}, centre : {0, Centre(r.range)},
   range : {r.range}, windows : {2}, window : {r.range, NoRange}]
NoManifest(k) == [kind |-> k, serial |-> "", centre |-> 0, range |-> NoRange, windows |-> 0, window |-> NoRange]
EntryOf(r) == [serial : {"", r.receiver}, range : {r.range}, centre : {Centre(r.range)}, demo : BOOLEAN]
Recorded == {Own} \cup Others
Entered == UNION {EntryOf(r) : r \in Recorded}
EntriesGiven == {{}} \cup {{a, b} : a \in Entered, b \in {e \in Entered : ~e.demo}}
Histories == {[there |-> FALSE, entries |-> {}]} \cup [there : {TRUE}, entries : EntriesGiven]

FreqInit ==
  /\ chunk \in ChunkOf(Own)
  /\ manifest \in {NoManifest(k) : k \in {"none", "unreadable"}} \cup UNION {ManifestOf(r) : r \in Recorded}
  /\ records \in Histories
  /\ markers \in BOOLEAN
  /\ lookup = NoLookup /\ axis = NoAxis

-----------------------------------------------------------------------------
(* FileMeta *)

(* read_file_meta(): what the chunk says cannot be relied on *)
Problem == chunk.present /\ (chunk.type \notin {"", "complex"} \/ chunk.rate_differs)
CentreVerified == chunk.centre # 0 /\ ~Problem
SensorBandwidth == IF Problem THEN 0 ELSE chunk.bandwidth

Differs(a, b) == a # 0 /\ b # 0 /\ a # b
IsOther(serial) == serial # "" /\ chunk.receiver # "" /\ serial # chunk.receiver

(* _sidecar_request() *)
ManifestConflicts ==
  manifest.kind = "capture" /\ (IsOther(manifest.serial) \/ Differs(manifest.centre, chunk.centre))
ManifestRange ==
  IF manifest.kind # "capture" THEN NoRange ELSE IF manifest.windows > 1 THEN manifest.window ELSE manifest.range

(* Mutant of Entries: those of other receivers too. *)
EntriesOfAll == {e \in records.entries : ~e.demo}

(* _history_entries() *)
Entries == {e \in records.entries : ~e.demo /\ ~IsOther(e.serial)}

(* _history_request() *)
HistoryStatus ==
  IF ~records.there THEN "no_records"
  ELSE IF Entries = {} THEN "not_found"
  ELSE IF Cardinality({e.range : e \in Entries}) > 1 THEN "ambiguous"
  ELSE IF ~CentreVerified THEN "unverified"
  ELSE IF \E e \in Entries : e.centre # chunk.centre THEN "conflict"
  ELSE "matched"

Refused(status) == [NoLookup EXCEPT !.status = status]

(* find_request(): the history has entries and none agrees with the manifest *)
HistoryDisagrees == records.there /\ Entries # {} /\ \A e \in Entries : e.range # ManifestRange

FindRequest ==
  IF ManifestConflicts THEN Refused("conflict")
  ELSE IF ManifestRange # NoRange
  THEN IF HistoryDisagrees THEN Refused("conflict")
       ELSE [status |-> "matched", range |-> ManifestRange, from |-> "manifest"]
  ELSE IF HistoryStatus = "matched"
  THEN [status |-> "matched", range |-> (CHOOSE e \in Entries : TRUE).range, from |-> "history"]
  ELSE Refused(IF HistoryStatus \in {"ambiguous", "conflict", "unverified"} THEN HistoryStatus
               ELSE IF manifest.kind # "none" THEN "not_found" ELSE HistoryStatus)

-----------------------------------------------------------------------------
(* _frequency_plan() *)

Around(centre, width) == <<centre - width \div 2, centre + width \div 2>>

SensorRange ==
  IF SensorBandwidth = 0 THEN NoRange
  ELSE IF CentreVerified THEN Around(chunk.centre, SensorBandwidth)
  ELSE IF chunk.centre = 0 THEN Around(0, SensorBandwidth) ELSE NoRange

Plan(found) ==
  LET span == Around(IF CentreVerified THEN chunk.centre ELSE 0, Rate)
      request == IF markers /\ CentreVerified THEN found.range ELSE NoRange
  IN [absolute |-> CentreVerified, lo |-> span[1], hi |-> span[2], request |-> request,
      sensor |-> IF markers /\ (request = NoRange \/ request # SensorRange) THEN SensorRange ELSE NoRange]

(* A marked boundary without a line: it has a tag at that edge *)
Side(hz) == IF hz < axis.lo THEN "left" ELSE IF hz > axis.hi THEN "right" ELSE "in_view"

(* process_file(), and frequency_overview() for the window *)
LookUp ==
  /\ lookup = NoLookup
  /\ lookup' = IF markers THEN FindRequest ELSE Refused("off")
  /\ axis' = Plan(lookup')
  /\ UNCHANGED <<chunk, manifest, records, markers>>

FreqSpec == FreqInit /\ [][LookUp]_freq_vars

-----------------------------------------------------------------------------
(* A request that is used is the file's own, not that of another recording with the same name, when
   the file and the records name their receiver; two recordings of one receiver differ in name. *)
RangeIsItsOwn ==
  /\ lookup.status = "matched" /\ chunk.receiver # ""
  /\ manifest.kind = "capture" => manifest.serial # ""
  /\ \A e \in records.entries : e.serial # ""
  /\ manifest.serial = Own.receiver => ManifestRange \in {Own.range, NoRange}
  /\ \A e \in records.entries : e.serial = Own.receiver => e.range = Own.range
  => lookup.range = Own.range

(* A request from the records of an unknown receiver is at least at the file's centre, or the
   manifest beside the file did not say which. *)
RequestIsAtCentre ==
  lookup.status = "matched" /\ chunk.centre # 0 =>
    Centre(lookup.range) = chunk.centre \/ (lookup.from = "manifest" /\ manifest.centre = 0)

(* The own manifest beside the file is used, whatever else the history holds, when it holds the own
   entry too or nothing about it. *)
OwnIsFound ==
  /\ lookup # NoLookup /\ markers
  /\ manifest \in ManifestOf(Own) /\ ManifestRange = Own.range
  /\ (\E e \in Entries : e.range = Own.range) \/ Entries = {}
  => lookup.status = "matched" /\ lookup.range = Own.range

(* Absolute frequencies are marked, and a sensor range is at its place, only with a verified centre;
   without markers nothing is. *)
MarksAreVerified ==
  /\ axis.request # NoRange => markers /\ axis.absolute /\ ~Problem
  /\ axis.sensor # NoRange =>
       /\ markers /\ ~Problem /\ axis.sensor # axis.request
       /\ Centre(<<axis.sensor[1] - axis.lo, axis.sensor[2] - axis.lo>>) = Rate \div 2
  /\ axis.request # NoRange /\ lookup.from = "history" => Side(Centre(axis.request)) = "in_view"

(* What is marked in the picture is true of the file: its own request, at its own place. *)
MarksAreRight == RangeIsItsOwn /\ RequestIsAtCentre /\ OwnIsFound /\ MarksAreVerified
==============================================================================
