--------------------------- MODULE SensorFilesProofs ---------------------------
(***************************************************************************)
(* What the Sensor Files window, the preview in it and the main window     *)
(* say of the sensor, proved for every number of parts, transfers at a     *)
(* time, commands, files and saved settings.                               *)
(*                                                                         *)
(* The three share no state, so each has an inductive invariant of its     *)
(* own: WindowInv, PreviewInv, LinkInv.  A step of one leaves the others   *)
(* as they are.                                                            *)
(***************************************************************************)
EXTENDS MCSensorFiles, TLAPS, FiniteSetTheorems

-----------------------------------------------------------------------------
(* The window and its batches. *)

(* Names for the sets in TypeOK, which the provers are shown only where they are needed. *)
CommandSet == [kind : {"list", "remove"}, parts : SUBSET Parts]
AnswerSet == [kind : {"listed"}, listing : Listings] \cup [kind : {"failed"}] \cup [kind : {"removed"}]
Ticket == [part : Parts, size : Sizes]
Stages == {"none", "connecting", "waiting", "open", "over"}
Signal == [kind : {"finished", "failed", "cancelled", "unreachable", "waiting", "progress", "thread"}, part : Parts]
Labels == {"", "Queued", "Downloading", "Waiting to retry", "Verified", "Saved", "Failed"}
Copies == [Parts -> SUBSET {1, 2}]
Offers == [sizes : Listings, auto : BOOLEAN, live : BOOLEAN]
Column == [Parts -> Labels]
Busy(w) == {p \in Parts : w[p] # "none"}

RemoteFine == remote \in Listings /\ writing \in 1 .. N + 1
ListFine == listing \in Listings /\ commands \in Seq(CommandSet) /\ answers \in Seq(AnswerSet)
FlagsFine == busy \in BOOLEAN /\ cancelled \in BOOLEAN /\ incomplete \in BOOLEAN /\ saved \in BOOLEAN
QueueFine == pending \in Seq(Ticket) /\ mail \in Seq(Signal) /\ cell \in Column
WorkersFine ==
  /\ worker \in [Batches -> [Parts -> Stages]] /\ expected \in [Batches -> Listings]
  /\ Cardinality(Busy(worker["now"])) <= MaxParallel
OffersFine == merge_after \in BOOLEAN /\ offered \subseteq Offers
DiskFine == copies \in Copies /\ holed \in Copies /\ cut \in [Batches -> SUBSET Parts]
Rest == DiskFine /\ closings \in 0 .. Reopenings
WindowTypes == RemoteFine /\ ListFine /\ FlagsFine /\ QueueFine /\ WorkersFine /\ OffersFine /\ Rest

(* What the safety properties rest on: the parts are written one after the other, a cancelled batch has nothing left to start, and what is
   reported as finished is there.                                                               *)
NothingToStart == cancelled => pending = <<>>
FinishedIsHere == \A i \in 1 .. Len(mail) : mail[i].kind = "finished" => copies[mail[i].part] # {}
WrittenInTurn == \A p \in Parts : (p = writing => remote[p] < 2) /\ (p > writing => remote[p] = 0)
WindowInv ==
  WindowTypes /\ WrittenInTurn /\ OfferedIsWhole /\ SavedIsThere /\ NothingToStart /\ FinishedIsHere

LEMMA TypesAgree == WindowTypes <=> TypeOK
<1>1. WindowTypes => TypeOK
  BY DEF WindowTypes, TypeOK, RemoteFine, ListFine, FlagsFine, QueueFine, WorkersFine, OffersFine, Rest, DiskFine,
         CommandSet, AnswerSet, Ticket, Stages, Signal, Labels, Copies, Offers, Column, Busy
<1>2. TypeOK => WindowTypes
  BY DEF WindowTypes, TypeOK, RemoteFine, ListFine, FlagsFine, QueueFine, WorkersFine, OffersFine, Rest, DiskFine,
         CommandSet, AnswerSet, Ticket, Stages, Signal, Labels, Copies, Offers, Column, Busy
<1> QED  BY <1>1, <1>2

Growing == \A p \in Parts : copies[p] \subseteq copies'[p]

LEMMA OfferedKept == ASSUME OfferedIsWhole, offered' = offered, Growing PROVE OfferedIsWhole'
BY DEF OfferedIsWhole, Growing

LEMMA SavedKept == ASSUME SavedIsThere, cell' = cell, listing' = listing, Growing PROVE SavedIsThere'
BY DEF SavedIsThere, Growing

LEMMA FinishedKept == ASSUME FinishedIsHere, mail' = mail, Growing, mail \in Seq(Signal) PROVE FinishedIsHere'
<1> SUFFICES ASSUME NEW i \in 1 .. Len(mail), mail[i].kind = "finished" PROVE copies'[mail[i].part] # {}
  BY DEF FinishedIsHere
<1>1. mail[i] \in Signal  OBVIOUS
<1>2. mail[i].part \in Parts  BY <1>1 DEF Signal
<1> QED  BY <1>2 DEF FinishedIsHere, Growing

LEMMA FinishedTail ==
  ASSUME FinishedIsHere, mail' = Tail(mail), mail # <<>>, copies' = copies, mail \in Seq(Signal)
  PROVE FinishedIsHere'
BY DEF FinishedIsHere

LEMMA Choosing ==
  ASSUME NEW S, IsFiniteSet(S) PROVE SetToSeq(S) \in Seq(S)
<1>1. Cardinality(S) \in Nat /\ ExistsBijection(1 .. Cardinality(S), S)  BY FS_CardinalityType
<1>2. \E f \in [1 .. Cardinality(S) -> S] : IsInjective(f)
  BY <1>1 DEF ExistsBijection, Bijection, Injection, IsInjective
<1>3. SetToSeq(S) \in [1 .. Cardinality(S) -> S]  BY <1>2 DEF SetToSeq
<1> QED  BY <1>1, <1>3

(* Jobs started beside the running ones take no more than the free places. *)
LEMMA PlacesKept ==
  ASSUME WindowTypes, NEW q \in Seq(Ticket), NEW w \in [Parts -> Stages], NEW n \in Nat, n <= Len(q),
         Cardinality(Busy(w)) <= MaxParallel, n <= MaxParallel - Cardinality(Busy(w)),
         NEW v \in [Parts -> Stages],
         \A p \in Parts : v[p] # "none" => w[p] # "none" \/ p \in {q[i].part : i \in 1 .. n}
  PROVE  Cardinality(Busy(v)) <= MaxParallel
<1> DEFINE started == {q[i].part : i \in 1 .. n}
           f == [i \in 1 .. n |-> q[i].part]
<1>1. IsFiniteSet(Parts)  BY FS_Interval, SensorFilesAssumption DEF Parts
<1>2. IsFiniteSet(1 .. n) /\ Cardinality(1 .. n) = n  BY FS_Interval
<1>3. f \in Surjection(1 .. n, started)  BY DEF Surjection
<1>4. IsFiniteSet(started) /\ Cardinality(started) <= n  BY <1>2, <1>3, FS_Surjection
<1>5. IsFiniteSet(Busy(w)) /\ IsFiniteSet(Busy(v))  BY <1>1, FS_Subset DEF Busy
<1>6. IsFiniteSet(Busy(w) \cup started) /\
      Cardinality(Busy(w) \cup started) = Cardinality(Busy(w)) + Cardinality(started) - Cardinality(Busy(w) \cap started)
  BY <1>4, <1>5, FS_Union
<1>7. Cardinality(Busy(w) \cap started) \in Nat /\ Cardinality(Busy(w)) \in Nat /\ Cardinality(started) \in Nat
  <2>1. IsFiniteSet(Busy(w) \cap started)  BY <1>5, FS_Intersection
  <2> QED  BY <2>1, <1>4, <1>5, FS_CardinalityType
<1>8. Busy(v) \subseteq Busy(w) \cup started  BY DEF Busy
<1>9. Cardinality(Busy(v)) <= Cardinality(Busy(w) \cup started) /\ Cardinality(Busy(v)) \in Nat
  BY <1>5, <1>6, <1>8, FS_Subset, FS_CardinalityType
<1> HIDE DEF started
<1> QED  BY <1>4, <1>6, <1>7, <1>9, SensorFilesAssumption

(* What a step must keep to: the two action properties of TransfersAreSafe. *)
KeepsWhole ==
  \A p \in Parts : copies'[p] # copies[p] =>
    /\ copies'[p] \ copies[p] = {remote[p]}
    /\ Cardinality({b \in Batches : worker[b][p] = "open"}) = 1
StartsNone == cancelled /\ cancelled' => Active' \subseteq Active
SafeStep == WindowInv' /\ KeepsWhole /\ StartsNone

LEMMA Quiet == ASSUME copies' = copies, worker' = worker PROVE KeepsWhole /\ StartsNone /\ Growing
BY DEF KeepsWhole, StartsNone, Growing, Active

LEMMA SensorKeeps == ASSUME WindowInv, SensorWrites PROVE SafeStep
<1> USE DEF SensorWrites, window_vars, batch_vars, disk_vars
<1>1. WindowTypes /\ WrittenInTurn /\ OfferedIsWhole /\ SavedIsThere /\ NothingToStart /\ FinishedIsHere  BY DEF WindowInv
<1>2. writing \in Parts /\ N \in Nat /\ Parts = 1 .. N
  BY <1>1, SensorFilesAssumption DEF WindowTypes, RemoteFine, Parts
<1>3. remote \in [Parts -> Sizes] /\ remote[writing] < 2 /\ remote[writing] \in 0 .. 2
  BY <1>1, <1>2 DEF WindowTypes, RemoteFine, Listings, WrittenInTurn, Sizes
<1>4. remote' \in [Parts -> Sizes] /\ writing' \in 1 .. N + 1
  BY <1>2, <1>3 DEF Sizes
<1>5. RemoteFine'  BY <1>4 DEF RemoteFine, Listings
<1>6. WrittenInTurn'
  BY <1>1, <1>2, <1>3 DEF WrittenInTurn
<1>7. ListFine' /\ FlagsFine' /\ QueueFine' /\ WorkersFine' /\ OffersFine' /\ Rest'
  BY <1>1 DEF WindowTypes, ListFine, FlagsFine, QueueFine, WorkersFine, OffersFine, Rest, DiskFine
<1>8. KeepsWhole /\ StartsNone /\ Growing  BY Quiet
<1>9. OfferedIsWhole' /\ SavedIsThere' /\ FinishedIsHere'
  BY <1>1, <1>8, OfferedKept, SavedKept, FinishedKept DEF WindowTypes, QueueFine
<1>10. NothingToStart'  BY <1>1 DEF NothingToStart
<1> QED  BY <1>5, <1>6, <1>7, <1>8, <1>9, <1>10 DEF SafeStep, WindowInv, WindowTypes

(* The backend and the requests to it touch the listing, the signals to and from it, and the files
   of the sensor.                                                                               *)
LEMMA Elsewhere ==
  ASSUME WindowInv, RemoteFine', WrittenInTurn', ListFine', busy' \in BOOLEAN, listing' = listing,
         UNCHANGED <<batch_vars, disk_vars, merge_after, offered, closings>>
  PROVE  SafeStep
<1> USE DEF batch_vars, disk_vars
<1>1. WindowTypes /\ OfferedIsWhole /\ SavedIsThere /\ NothingToStart /\ FinishedIsHere  BY DEF WindowInv
<1>2. FlagsFine' /\ QueueFine' /\ WorkersFine' /\ OffersFine' /\ Rest'
  BY <1>1 DEF WindowTypes, FlagsFine, QueueFine, WorkersFine, OffersFine, Rest, DiskFine
<1>3. KeepsWhole /\ StartsNone /\ Growing  BY Quiet
<1>4. OfferedIsWhole' /\ SavedIsThere' /\ FinishedIsHere'
  BY <1>1, <1>3, OfferedKept, SavedKept, FinishedKept DEF WindowTypes, QueueFine
<1>5. NothingToStart'  BY <1>1 DEF NothingToStart
<1> QED  BY <1>2, <1>3, <1>4, <1>5 DEF SafeStep, WindowInv, WindowTypes

LEMMA ListsKeep == ASSUME WindowInv, NEW ok \in BOOLEAN, BackendLists(ok) PROVE SafeStep
<1> USE DEF BackendLists
<1>1. RemoteFine /\ ListFine /\ WrittenInTurn /\ busy \in BOOLEAN  BY DEF WindowInv, WindowTypes, FlagsFine
<1>2. RemoteFine' /\ WrittenInTurn'  BY <1>1 DEF RemoteFine, WrittenInTurn
<1>3. [kind |-> "listed", listing |-> remote] \in AnswerSet /\ [kind |-> "failed"] \in AnswerSet
  BY <1>1 DEF AnswerSet, RemoteFine
<1>4. listing' \in Listings /\ commands' \in Seq(CommandSet)  BY <1>1 DEF ListFine
<1>5. answers' \in Seq(AnswerSet)  BY <1>1, <1>3 DEF ListFine
<1>6. ListFine'  BY <1>4, <1>5 DEF ListFine
<1> QED  BY <1>1, <1>2, <1>6, Elsewhere

LEMMA RemovesKeep == ASSUME WindowInv, BackendRemoves PROVE SafeStep
<1> USE DEF BackendRemoves
<1>1. RemoteFine /\ ListFine /\ WrittenInTurn /\ busy \in BOOLEAN  BY DEF WindowInv, WindowTypes, FlagsFine
<1>2. PICK ok \in SUBSET {p \in Head(commands).parts : remote[p] = 2} :
        remote' = [p \in Parts |-> IF p \in ok THEN 0 ELSE remote[p]]
  OBVIOUS
<1>3. remote \in [Parts -> Sizes] /\ \A p \in ok : remote[p] = 2  BY <1>1, <1>2 DEF RemoteFine, Listings
<1>4. remote' \in [Parts -> Sizes]  BY <1>2, <1>3 DEF Sizes
<1>5. RemoteFine'  BY <1>1, <1>4 DEF RemoteFine, Listings
<1>6. WrittenInTurn'
  <2> SUFFICES ASSUME NEW p \in Parts PROVE (p = writing => remote'[p] < 2) /\ (p > writing => remote'[p] = 0)
    BY DEF WrittenInTurn
  <2>1. remote'[p] = IF p \in ok THEN 0 ELSE remote[p]  BY <1>2
  <2> QED  BY <1>1, <2>1 DEF WrittenInTurn
<1>7. [kind |-> "removed"] \in AnswerSet  BY DEF AnswerSet
<1>8. listing' \in Listings /\ commands' \in Seq(CommandSet) /\ answers' \in Seq(AnswerSet)  BY <1>1, <1>7 DEF ListFine
<1> QED  BY <1>1, <1>5, <1>6, <1>8, Elsewhere DEF ListFine

LEMMA RequestsKeep ==
  ASSUME WindowInv, NEW chosen \in SUBSET Parts, RequestList \/ RetryToday \/ DeleteSelected(chosen) PROVE SafeStep
<1>1. RemoteFine /\ ListFine /\ WrittenInTurn  BY DEF WindowInv, WindowTypes
<1>2. PICK c \in CommandSet : commands' = Append(commands, c)
  BY DEF RequestList, RetryToday, DeleteSelected, Ask, List, CommandSet
<1>3. busy' = TRUE /\ listing' = listing /\ UNCHANGED <<remote, writing, answers, batch_vars, disk_vars, merge_after, offered, closings>>
  BY DEF RequestList, RetryToday, DeleteSelected, Ask
<1>4. RemoteFine' /\ WrittenInTurn'  BY <1>1, <1>3 DEF RemoteFine, WrittenInTurn
<1>5. commands' \in Seq(CommandSet)  BY <1>1, <1>2 DEF ListFine
<1>6. ListFine'  BY <1>1, <1>3, <1>5 DEF ListFine
<1> QED  BY <1>3, <1>4, <1>6, Elsewhere

LEMMA Lengthened == ASSUME NEW S, NEW q \in Seq(S), NEW e \in S PROVE Append(q, e) \in Seq(S)
OBVIOUS

LEMMA AnswerKeeps == ASSUME WindowInv, OnAnswer PROVE SafeStep
<1> USE DEF disk_vars
<1> USE DEF OnAnswer
<1>1. WindowTypes /\ WrittenInTurn /\ OfferedIsWhole /\ SavedIsThere /\ NothingToStart /\ FinishedIsHere  BY DEF WindowInv
<1>2. RemoteFine' /\ WrittenInTurn' /\ WorkersFine' /\ OffersFine' /\ Rest' /\ NothingToStart'
  BY <1>1 DEF WindowTypes, RemoteFine, WrittenInTurn, WorkersFine, OffersFine, Rest, DiskFine, NothingToStart
<1>3. KeepsWhole /\ StartsNone /\ Growing  BY Quiet
<1>4. OfferedIsWhole' /\ FinishedIsHere'
  BY <1>1, <1>3, OfferedKept, FinishedKept DEF WindowTypes, QueueFine
<1>5. answers' \in Seq(AnswerSet) /\ Head(answers) \in AnswerSet
  BY <1>1 DEF WindowTypes, ListFine
<1>6. (pending' = pending /\ mail' = mail) /\ pending' \in Seq(Ticket) /\ mail' \in Seq(Signal)
  BY <1>1 DEF WindowTypes, QueueFine
<1>7. CASE Head(answers).kind = "listed"
  <2>1. Fill(Head(answers).listing) /\ busy' = FALSE /\ commands' = commands  BY <1>7
  <2> DEFINE entries == Head(answers).listing
  <2>2. entries \in Listings  BY <1>5, <1>7 DEF AnswerSet
  <2>3. listing' = entries /\ cell' = [p \in Parts |-> IF entries[p] = 0 THEN cell[p] ELSE InitialCell(p, entries[p])]
    BY <2>1 DEF Fill
  <2> HIDE DEF entries
  <2>4. \A p \in Parts : cell[p] \in Labels  BY <1>1 DEF WindowTypes, QueueFine, Column
  <2>5. cell' \in Column
    <3>1. \A p \in Parts : InitialCell(p, entries[p]) \in Labels  BY <2>4 DEF InitialCell, Labels
    <3> QED  BY <2>3, <2>4, <3>1 DEF Column
  <2>6. ListFine' /\ FlagsFine' /\ QueueFine'
    BY <1>1, <1>5, <1>6, <2>1, <2>2, <2>3, <2>5 DEF WindowTypes, ListFine, FlagsFine, QueueFine
  <2>7. SavedIsThere'
    <3> SUFFICES ASSUME NEW p \in Parts
                 PROVE  /\ cell'[p] = "Verified" => copies[p] # {}
                        /\ cell'[p] = "Saved" => \E s \in copies[p] : s >= entries[p]
      BY <2>3 DEF SavedIsThere
    <3>1. copies[p] \subseteq {1, 2} /\ entries[p] \in 0 .. 2
      BY <1>1, <2>2 DEF WindowTypes, Rest, DiskFine, Copies, Listings, Sizes
    <3>2. CASE entries[p] = 0
      <4>1. cell'[p] = cell[p]  BY <2>3, <3>2
      <4>2. copies[p] # {} => \E s \in copies[p] : s >= entries[p]  BY <3>1, <3>2
      <4>3. cell[p] \in {"Verified", "Saved"} => copies[p] # {}  BY <1>1 DEF SavedIsThere
      <4> QED  BY <4>1, <4>2, <4>3
    <3>3. CASE entries[p] # 0
      <4>1. cell'[p] = InitialCell(p, entries[p])  BY <2>3, <3>3
      <4>2. InitialCell(p, entries[p]) # "Verified"  BY DEF InitialCell
      <4>3. InitialCell(p, entries[p]) = "Saved" => entries[p] \in copies[p]
        BY <2>4 DEF InitialCell
      <4>4. entries[p] >= entries[p]  BY <3>1
      <4> QED  BY <4>1, <4>2, <4>3, <4>4
    <3> QED  BY <3>2, <3>3
  <2> QED  BY <1>2, <1>3, <1>4, <2>6, <2>7 DEF SafeStep, WindowInv, WindowTypes
<1>8. CASE Head(answers).kind # "listed"
  <2>1. listing' = listing /\ cell' = cell /\ busy' \in BOOLEAN /\ commands' \in {commands, Append(commands, List)}
    BY <1>8 DEF Ask
  <2>2. List \in CommandSet  BY DEF List, CommandSet
  <2>3. commands' \in Seq(CommandSet)
    <3>1. commands \in Seq(CommandSet)  BY <1>1 DEF WindowTypes, ListFine
    <3>2. Append(commands, List) \in Seq(CommandSet)  BY <2>2, <3>1, Lengthened
    <3> QED  BY <2>1, <3>1, <3>2
  <2>4. ListFine'  BY <1>1, <1>5, <1>6, <2>1, <2>3 DEF WindowTypes, ListFine
  <2>a. FlagsFine'  BY <1>1, <1>5, <1>6, <2>1 DEF WindowTypes, FlagsFine
  <2>b. QueueFine'  BY <1>1, <1>5, <1>6, <2>1 DEF WindowTypes, QueueFine
  <2>5. SavedIsThere'  BY <1>1, <1>3, <2>1, SavedKept
  <2> QED  BY <1>2, <1>3, <1>4, <2>4, <2>a, <2>b, <2>5 DEF SafeStep, WindowInv, WindowTypes
<1> QED  BY <1>7, <1>8

(* Only what is here is offered. *)
LEMMA OfferKeeps ==
  ASSUME WindowTypes, OfferedIsWhole, NEW manual \in BOOLEAN, Offer(manual), copies' = copies
  PROVE  OfferedIsWhole' /\ offered' \subseteq Offers
<1>1. offered \subseteq Offers /\ listing \in Listings  BY DEF WindowTypes, OffersFine, ListFine
<1>2. CASE offered' = offered  BY <1>1, <1>2 DEF OfferedIsWhole
<1>3. CASE offered' # offered
  <2> DEFINE o == [sizes |-> listing, auto |-> ~manual, live |-> live]
  <2>1. offered' = {o} /\ Have = Listed /\ (manual \/ ~live)  BY <1>3 DEF Offer
  <2>2. (~manual) \in BOOLEAN  OBVIOUS
  <2>8. live \in BOOLEAN  BY DEF live
  <2>3. o \in Offers
    <3> HIDE DEF live
    <3> QED  BY <1>1, <2>2, <2>8 DEF Offers
  <2>4. o.sizes = listing /\ (o.auto => ~o.live)
    <3> HIDE DEF live
    <3> QED  BY <2>1
  <2>5. \A p \in Parts : listing[p] # 0 => listing[p] \in copies[p]  BY <2>1 DEF Have, Listed
  <2> HIDE DEF o
  <2>6. \A p \in Parts : o.sizes[p] # 0 => o.sizes[p] \in copies'[p]  BY <2>4, <2>5
  <2>7. OfferedIsWhole'  BY <2>1, <2>4, <2>6 DEF OfferedIsWhole
  <2> QED  BY <2>1, <2>3, <2>7
<1> QED  BY <1>2, <1>3

(* The free places are filled and no more. *)
LEMMA PumpKeeps ==
  ASSUME WindowTypes, NEW q \in Seq(Ticket), NEW w \in [Parts -> Stages], NEW c \in Column,
         Cardinality(Busy(w)) <= MaxParallel, Pump(q, w, c)
  PROVE  /\ pending' \in Seq(Ticket) /\ WorkersFine' /\ cell' \in Column
         /\ \A p \in Parts : cell'[p] \in {c[p], "Downloading"}
         /\ q = <<>> => pending' = <<>> /\ Busy(worker'["now"]) \subseteq Busy(w)
<1> DEFINE n == IF Places(w) < Len(q) THEN Places(w) ELSE Len(q)
           started == {q[i].part : i \in 1 .. n}
           v == [p \in Parts |-> IF p \in started THEN "connecting" ELSE w[p]]
           old == expected["now"]
           e == [p \in Parts |-> IF p \in started THEN q[CHOOSE i \in 1 .. n : q[i].part = p].size ELSE old[p]]
<1>1. IsFiniteSet(Parts)  BY FS_Interval, SensorFilesAssumption DEF Parts
<1>2. Cardinality(Busy(w)) \in Nat  BY <1>1, FS_Subset, FS_CardinalityType DEF Busy
<1>3. n \in Nat /\ n <= Len(q) /\ n <= MaxParallel - Cardinality(Busy(w))
  BY <1>2, SensorFilesAssumption DEF Places, Busy
<1>4. pending' = SubSeq(q, n + 1, Len(q)) /\ worker' = [worker EXCEPT !["now"] = v]
  BY DEF Pump
<1>5. expected' = [expected EXCEPT !["now"] = e]
  BY DEF Pump
<1>6. cell' = [p \in Parts |-> IF p \in started THEN "Downloading" ELSE c[p]]
  BY DEF Pump
<1> HIDE DEF n
<1>7. \A i \in 1 .. n : q[i] \in Ticket  BY <1>3
<1>8. v \in [Parts -> Stages]  BY DEF Stages
<1>9. Cardinality(Busy(v)) <= MaxParallel  BY <1>3, <1>8, PlacesKept
<1>10. worker \in [Batches -> [Parts -> Stages]] /\ expected \in [Batches -> Listings] /\ "now" \in Batches
  BY DEF WindowTypes, WorkersFine, Batches
<1>11. e \in Listings
  <2> SUFFICES ASSUME NEW p \in Parts PROVE e[p] \in Sizes  BY DEF Listings
  <2>1. old[p] \in Sizes  BY <1>10 DEF Listings
  <2>2. ASSUME p \in started PROVE q[CHOOSE i \in 1 .. n : q[i].part = p].size \in Sizes
    <3>1. \E i \in 1 .. n : q[i].part = p  BY <2>2
    <3>2. (CHOOSE i \in 1 .. n : q[i].part = p) \in 1 .. n  BY <3>1
    <3>3. q[CHOOSE i \in 1 .. n : q[i].part = p] \in Ticket  BY <1>7, <3>2
    <3> QED  BY <3>3 DEF Ticket
  <2> QED  BY <2>1, <2>2
<1> HIDE DEF v, e
<1>12. WorkersFine'
  <2>1. worker' \in [Batches -> [Parts -> Stages]]  BY <1>4, <1>8, <1>10
  <2>2. expected' \in [Batches -> Listings]  BY <1>5, <1>10, <1>11
  <2>3. worker'["now"] = v  BY <1>4, <1>10
  <2> QED  BY <1>9, <2>1, <2>2, <2>3 DEF WorkersFine
<1>13. pending' \in Seq(Ticket)  BY <1>3, <1>4
<1>14. \A p \in Parts : cell'[p] \in {c[p], "Downloading"}  BY <1>6
<1>15. cell' \in Column
  <2>1. cell' = [p \in Parts |-> cell'[p]]  BY <1>6
  <2>2. \A p \in Parts : cell'[p] \in Labels  BY <1>14 DEF Column, Labels
  <2> QED  BY <2>1, <2>2 DEF Column
<1>16. ASSUME q = <<>> PROVE pending' = <<>> /\ Busy(worker'["now"]) \subseteq Busy(w)
  <2>1. n = 0  BY <1>3, <1>16
  <2>2. started = {}  BY <2>1
  <2>3. v = w  BY <2>2 DEF v
  <2>4. worker'["now"] = v  BY <1>4, <1>10
  <2>5. pending' = <<>>  BY <1>4, <1>16, <2>1
  <2> QED  BY <2>3, <2>4, <2>5
<1> QED  BY <1>12, <1>13, <1>14, <1>15, <1>16

(* A batch begins. *)
LEMMA BeginKeeps ==
  ASSUME WindowInv, NEW chosen \in SUBSET Parts, NEW manual \in BOOLEAN, BeginDownloads(chosen, manual)
  PROVE  SafeStep
<1> DEFINE present == {p \in chosen : listing[p] \in copies[p]}
           wanted == {[part |-> p, size |-> listing[p]] : p \in chosen \ present}
           jobs == SetToSeq(wanted)
           c == [p \in Parts |-> IF p \in present THEN "Saved" ELSE IF p \in chosen THEN "Queued" ELSE cell[p]]
<1>1. WindowTypes /\ WrittenInTurn /\ OfferedIsWhole /\ SavedIsThere /\ NothingToStart /\ FinishedIsHere  BY DEF WindowInv
<1>2. chosen \subseteq Listed
      /\ UNCHANGED <<remote, writing, window_vars, mail, copies, cut, holed, closings>>
  BY DEF BeginDownloads, disk_vars
<1>3. IF jobs = <<>>
      THEN /\ cell' = c /\ saved' = FALSE /\ merge_after' = FALSE
           /\ Offer(manual)
           /\ UNCHANGED <<pending, worker, expected, cancelled, incomplete>>
      ELSE /\ cancelled' = FALSE /\ incomplete' = FALSE /\ saved' = (present # {})
           /\ Pump(jobs, worker["now"], c)
           /\ merge_after' = manual /\ UNCHANGED offered
  BY DEF BeginDownloads
<1>4. RemoteFine' /\ WrittenInTurn' /\ ListFine' /\ Rest' /\ Growing
  BY <1>1, <1>2 DEF WindowTypes, RemoteFine, WrittenInTurn, ListFine, Rest, DiskFine, Growing, window_vars
<1>5. mail' \in Seq(Signal) /\ FinishedIsHere' /\ busy' \in BOOLEAN
  BY <1>1, <1>2, <1>4, FinishedKept DEF WindowTypes, QueueFine, FlagsFine, window_vars
<1>6. listing \in [Parts -> Sizes] /\ cell \in Column /\ copies \in Copies
  BY <1>1 DEF WindowTypes, ListFine, QueueFine, Rest, DiskFine, Listings
<1>7. IsFiniteSet(wanted)
  <2> DEFINE todo == chosen \ present
             f == [p \in todo |-> [part |-> p, size |-> listing[p]]]
  <2>1. IsFiniteSet(Parts)  BY FS_Interval, SensorFilesAssumption DEF Parts
  <2>2. IsFiniteSet(todo)  BY <2>1, FS_Subset
  <2>3. f \in Surjection(todo, wanted)  BY DEF Surjection
  <2> QED  BY <2>2, <2>3, FS_Surjection
<1>8. wanted \subseteq Ticket  BY <1>6 DEF Ticket
<1> HIDE DEF wanted
<1>9. jobs \in Seq(Ticket)
  <2>1. jobs \in Seq(wanted)  BY <1>7, Choosing
  <2> HIDE DEF jobs
  <2> QED  BY <1>8, <2>1
<1> HIDE DEF jobs
<1>10. c \in Column
  <2>1. \A p \in Parts : c[p] \in Labels  BY <1>6 DEF Labels, Column
  <2> QED  BY <2>1 DEF Column
<1>11. \A p \in Parts : /\ c[p] = "Verified" => copies[p] # {}
                        /\ c[p] = "Saved" => \E s \in copies[p] : s >= listing[p]
  <2> SUFFICES ASSUME NEW p \in Parts
               PROVE  /\ c[p] = "Verified" => copies[p] # {}
                      /\ c[p] = "Saved" => \E s \in copies[p] : s >= listing[p]
    OBVIOUS
  <2>1. CASE p \in present
    <3>1. listing[p] \in copies[p] /\ listing[p] >= listing[p]  BY <1>6, <2>1 DEF Sizes
    <3> QED  BY <2>1, <3>1
  <2>2. CASE p \notin present  BY <1>1, <2>2 DEF SavedIsThere
  <2> QED  BY <2>1, <2>2
<1> HIDE DEF c
<1>12. CASE jobs = <<>>
  <2>1. /\ cell' = c /\ saved' = FALSE /\ merge_after' = FALSE /\ Offer(manual)
        /\ UNCHANGED <<pending, worker, expected, cancelled, incomplete>>
    BY <1>3, <1>12
  <2>2. OfferedIsWhole' /\ offered' \subseteq Offers  BY <1>1, <1>2, <2>1, OfferKeeps
  <2>3. FlagsFine' /\ OffersFine'  BY <1>1, <1>5, <2>1, <2>2 DEF WindowTypes, FlagsFine, OffersFine
  <2>4. QueueFine' /\ WorkersFine'  BY <1>1, <1>5, <1>10, <2>1 DEF WindowTypes, QueueFine, WorkersFine
  <2>5. SavedIsThere'  BY <1>2, <1>11, <2>1 DEF SavedIsThere, window_vars
  <2>6. NothingToStart'  BY <1>1, <2>1 DEF NothingToStart
  <2>7. KeepsWhole /\ StartsNone  BY <1>2, <2>1, Quiet
  <2> QED  BY <1>4, <1>5, <2>2, <2>3, <2>4, <2>5, <2>6, <2>7 DEF SafeStep, WindowInv, WindowTypes
<1>13. CASE jobs # <<>>
  <2>1. /\ cancelled' = FALSE /\ incomplete' = FALSE /\ saved' = (present # {})
        /\ Pump(jobs, worker["now"], c) /\ merge_after' = manual /\ offered' = offered
    BY <1>3, <1>13
  <2>2. saved' \in BOOLEAN /\ merge_after' \in BOOLEAN  BY <2>1
  <2>3. worker["now"] \in [Parts -> Stages] /\ Cardinality(Busy(worker["now"])) <= MaxParallel
    BY <1>1 DEF WindowTypes, WorkersFine, Batches
  <2>4. pending' \in Seq(Ticket) /\ WorkersFine' /\ cell' \in Column
        /\ \A p \in Parts : cell'[p] \in {c[p], "Downloading"}
    BY <1>1, <1>9, <1>10, <2>1, <2>3, PumpKeeps
  <2>5. FlagsFine' /\ OffersFine'
    BY <1>1, <1>5, <2>1, <2>2 DEF WindowTypes, FlagsFine, OffersFine
  <2>6. QueueFine'  BY <1>5, <2>4 DEF QueueFine
  <2>7. SavedIsThere'
    <3> SUFFICES ASSUME NEW p \in Parts
                 PROVE  /\ cell'[p] = "Verified" => copies[p] # {}
                        /\ cell'[p] = "Saved" => \E s \in copies[p] : s >= listing[p]
      BY <1>2 DEF SavedIsThere, window_vars
    <3> QED  BY <1>11, <2>4
  <2>8. NothingToStart' /\ StartsNone  BY <2>1 DEF NothingToStart, StartsNone
  <2>9. KeepsWhole  BY <1>2 DEF KeepsWhole
  <2>10. OfferedIsWhole'  BY <1>1, <1>4, <2>1, OfferedKept
  <2> QED  BY <1>4, <1>5, <2>4, <2>5, <2>6, <2>7, <2>8, <2>9, <2>10 DEF SafeStep, WindowInv, WindowTypes
<1> QED  BY <1>12, <1>13

LEMMA MergeKeeps == ASSUME WindowInv, MergeSelected PROVE SafeStep
<1>1. WindowTypes /\ WrittenInTurn /\ OfferedIsWhole /\ SavedIsThere /\ NothingToStart /\ FinishedIsHere  BY DEF WindowInv
<1>2. CASE Have = Listed
  <2>1. Offer(TRUE) /\ UNCHANGED <<remote, writing, window_vars, batch_vars, disk_vars, merge_after, closings>>
    BY <1>2 DEF MergeSelected
  <2> USE DEF window_vars, batch_vars, disk_vars
  <2>2. OfferedIsWhole' /\ offered' \subseteq Offers  BY <1>1, <2>1, OfferKeeps
  <2>3. RemoteFine' /\ WrittenInTurn' /\ ListFine' /\ FlagsFine' /\ QueueFine' /\ WorkersFine' /\ Rest'
    BY <1>1, <2>1 DEF WindowTypes, RemoteFine, WrittenInTurn, ListFine, FlagsFine, QueueFine, WorkersFine, Rest, DiskFine
  <2>4. OffersFine'  BY <1>1, <2>1, <2>2 DEF WindowTypes, OffersFine
  <2>5. KeepsWhole /\ StartsNone /\ Growing  BY <2>1, Quiet
  <2>6. SavedIsThere' /\ FinishedIsHere' /\ NothingToStart'
    BY <1>1, <2>1, <2>5, SavedKept, FinishedKept DEF WindowTypes, QueueFine, NothingToStart
  <2> QED  BY <2>2, <2>3, <2>4, <2>5, <2>6 DEF SafeStep, WindowInv, WindowTypes
<1>3. CASE Have # Listed
  <2>1. BeginDownloads(Listed \ Have, TRUE)  BY <1>3 DEF MergeSelected
  <2>2. Listed \ Have \in SUBSET Parts  BY DEF Listed
  <2> QED  BY <2>1, <2>2, BeginKeeps
<1> QED  BY <1>2, <1>3

LEMMA CancelKeeps == ASSUME WindowInv, CancelDownloads PROVE SafeStep
<1> USE DEF CancelDownloads, window_vars, disk_vars
<1>1. WindowTypes /\ WrittenInTurn /\ OfferedIsWhole /\ SavedIsThere /\ NothingToStart /\ FinishedIsHere  BY DEF WindowInv
<1>2. RemoteFine' /\ WrittenInTurn' /\ ListFine' /\ WorkersFine' /\ OffersFine' /\ Rest'
  BY <1>1 DEF WindowTypes, RemoteFine, WrittenInTurn, ListFine, WorkersFine, OffersFine, Rest, DiskFine
<1>3. FlagsFine'  BY <1>1 DEF WindowTypes, FlagsFine
<1>4. QueueFine'  BY <1>1 DEF WindowTypes, QueueFine
<1>5. KeepsWhole /\ StartsNone /\ Growing  BY Quiet
<1>6. OfferedIsWhole' /\ SavedIsThere' /\ FinishedIsHere'
  BY <1>1, <1>5, OfferedKept, SavedKept, FinishedKept DEF WindowTypes, QueueFine
<1>7. NothingToStart'  BY DEF NothingToStart
<1> QED  BY <1>2, <1>3, <1>4, <1>5, <1>6, <1>7 DEF SafeStep, WindowInv, WindowTypes

(* A transfer.  Only a whole one is kept. *)
LEMMA ToldFine ==
  ASSUME mail \in Seq(Signal), NEW b \in Batches, NEW p \in Parts,
         NEW kinds \in Seq({"finished", "failed", "cancelled", "unreachable", "waiting", "progress", "thread"}),
         Told(b, kinds, p)
  PROVE  /\ mail' \in Seq(Signal)
         /\ \A i \in 1 .. Len(mail') :
              mail'[i].kind = "finished" =>
                \/ i \in 1 .. Len(mail) /\ mail'[i] = mail[i]
                \/ mail'[i].part = p /\ \E k \in 1 .. Len(kinds) : kinds[k] = "finished"
<1> DEFINE more == [i \in 1 .. Len(kinds) |-> [kind |-> kinds[i], part |-> p]]
<1>1. \A i \in 1 .. Len(kinds) : [kind |-> kinds[i], part |-> p] \in Signal  BY DEF Signal
<1>2. more \in Seq(Signal) /\ Len(more) = Len(kinds)
  <2>1. more \in [1 .. Len(kinds) -> Signal] /\ Len(kinds) \in Nat  BY <1>1
  <2> HIDE DEF more
  <2>2. more \in Seq(Signal)  BY <2>1
  <2>3. DOMAIN more = 1 .. Len(kinds)  BY <2>1
  <2> QED  BY <2>1, <2>2, <2>3
<1>3. \A i \in 1 .. Len(kinds) : more[i].kind = kinds[i] /\ more[i].part = p  OBVIOUS
<1>4. mail' = IF b = "now" THEN mail \o more ELSE mail  BY DEF Told
<1> HIDE DEF more
<1>5. mail' \in Seq(Signal)  BY <1>2, <1>4
<1>6. CASE b = "now"
  <2>1. mail' = mail \o more  BY <1>4, <1>6
  <2> SUFFICES ASSUME NEW i \in 1 .. Len(mail'), mail'[i].kind = "finished"
               PROVE  \/ i \in 1 .. Len(mail) /\ mail'[i] = mail[i]
                      \/ mail'[i].part = p /\ \E k \in 1 .. Len(kinds) : kinds[k] = "finished"
    BY <1>5
  <2>5. Len(mail) \in Nat /\ Len(kinds) \in Nat  OBVIOUS
  <2>6. Len(mail \o more) = Len(mail) + Len(more)  BY <1>2
  <2>2. Len(mail') = Len(mail) + Len(kinds) /\ Len(mail) \in Nat /\ Len(kinds) \in Nat  BY <1>2, <2>1, <2>5, <2>6
  <2>3. CASE i \in 1 .. Len(mail)  BY <1>2, <2>1, <2>3
  <2>4. CASE i \notin 1 .. Len(mail)
    <3>1. i - Len(mail) \in 1 .. Len(kinds)  BY <2>2, <2>4
    <3>2. mail'[i] = more[i - Len(mail)]  BY <1>2, <2>1, <2>2, <2>4
    <3> QED  BY <1>3, <3>1, <3>2
  <2> QED  BY <2>3, <2>4
<1>7. CASE b # "now"  BY <1>4, <1>7
<1> QED  BY <1>5, <1>6, <1>7

(* What all steps of a worker have in common. *)
LEMMA WorkerKeeps ==
  ASSUME WindowInv, UNCHANGED worker_rest, WorkersFine', Rest', mail' \in Seq(Signal), FinishedIsHere',
         Growing, KeepsWhole, StartsNone
  PROVE  SafeStep
<1> USE DEF worker_rest, window_vars
<1>1. WindowTypes /\ WrittenInTurn /\ OfferedIsWhole /\ SavedIsThere /\ NothingToStart  BY DEF WindowInv
<1>2. RemoteFine' /\ WrittenInTurn' /\ ListFine' /\ FlagsFine' /\ OffersFine'
  BY <1>1 DEF WindowTypes, RemoteFine, WrittenInTurn, ListFine, FlagsFine, OffersFine
<1>3. QueueFine'  BY <1>1 DEF WindowTypes, QueueFine
<1>4. OfferedIsWhole' /\ SavedIsThere'  BY <1>1, OfferedKept, SavedKept
<1>5. NothingToStart'  BY <1>1 DEF NothingToStart
<1> QED  BY <1>2, <1>3, <1>4, <1>5 DEF SafeStep, WindowInv, WindowTypes

(* A worker that was there may go on or end. *)
LEMMA OneWorker ==
  ASSUME WindowTypes, NEW b \in Batches, NEW p \in Parts, NEW to \in Stages, worker[b][p] # "none",
         worker' = [worker EXCEPT ![b][p] = to]
  PROVE  /\ worker' \in [Batches -> [Parts -> Stages]]
         /\ Cardinality(Busy(worker'["now"])) <= MaxParallel
         /\ StartsNone
<1>1. worker \in [Batches -> [Parts -> Stages]] /\ Cardinality(Busy(worker["now"])) <= MaxParallel /\ "now" \in Batches
  BY DEF WindowTypes, WorkersFine, Batches
<1>2. worker' \in [Batches -> [Parts -> Stages]]  BY <1>1
<1>3. \A k \in Parts : worker'["now"][k] # "none" => worker["now"][k] # "none"
  BY <1>1
<1>4. Busy(worker'["now"]) \subseteq Busy(worker["now"])  BY <1>3 DEF Busy
<1>5. IsFiniteSet(Parts)  BY FS_Interval, SensorFilesAssumption DEF Parts
<1>6. IsFiniteSet(Busy(worker["now"])) /\ IsFiniteSet(Busy(worker'["now"]))  BY <1>5, FS_Subset DEF Busy
<1>7. Cardinality(Busy(worker'["now"])) <= Cardinality(Busy(worker["now"]))
      /\ Cardinality(Busy(worker["now"])) \in Nat /\ Cardinality(Busy(worker'["now"])) \in Nat
  BY <1>4, <1>6, FS_Subset, FS_CardinalityType
<1>8. Cardinality(Busy(worker'["now"])) <= MaxParallel
  BY <1>1, <1>7, SensorFilesAssumption
<1>9. StartsNone  BY <1>3 DEF StartsNone, Active
<1> QED  BY <1>2, <1>8, <1>9

(* A step of a worker that keeps no file and reports none. *)
LEMMA NothingKept ==
  ASSUME WindowInv, NEW b \in Batches, NEW p \in Parts, NEW to \in Stages, worker[b][p] # "none",
         worker' = [worker EXCEPT ![b][p] = to],
         expected' \in {expected, [expected EXCEPT ![b][p] = 0]}, UNCHANGED <<copies, holed>>,
         cut' \in [Batches -> SUBSET Parts], UNCHANGED worker_rest,
         NEW kinds \in Seq({"failed", "cancelled", "unreachable", "waiting", "progress", "thread"}),
         Told(b, kinds, p)
  PROVE  SafeStep
<1>1. WindowTypes /\ FinishedIsHere  BY DEF WindowInv
<1>2. expected \in [Batches -> [Parts -> Sizes]] /\ 0 \in Sizes
  BY <1>1 DEF WindowTypes, WorkersFine, Listings, Sizes
<1>3. expected' \in [Batches -> [Parts -> Sizes]]
  <2>1. [expected EXCEPT ![b][p] = 0] \in [Batches -> [Parts -> Sizes]]  BY <1>2
  <2> QED  BY <1>2, <2>1
<1>4. WorkersFine'  BY <1>1, <1>3, OneWorker DEF WorkersFine, Listings
<1>5. Rest'  BY <1>1 DEF WindowTypes, Rest, DiskFine, worker_rest
<1>6. kinds \in Seq({"finished", "failed", "cancelled", "unreachable", "waiting", "progress", "thread"})
      /\ \A k \in 1 .. Len(kinds) : kinds[k] # "finished"
  OBVIOUS
<1>7. mail \in Seq(Signal)  BY <1>1 DEF WindowTypes, QueueFine
<1>8. mail' \in Seq(Signal)
      /\ \A i \in 1 .. Len(mail') : mail'[i].kind = "finished" => i \in 1 .. Len(mail) /\ mail'[i] = mail[i]
  BY <1>6, <1>7, ToldFine
<1>9. FinishedIsHere'  BY <1>1, <1>8 DEF FinishedIsHere
<1>10. Growing /\ KeepsWhole  BY DEF Growing, KeepsWhole
<1>11. StartsNone  BY <1>1, OneWorker
<1> QED  BY <1>4, <1>5, <1>8, <1>9, <1>10, <1>11, WorkerKeeps

LEMMA ConnectKeeps ==
  ASSUME WindowInv, NEW b \in Batches, NEW p \in Parts, Connects(b, p) \/ Refused(b, p) PROVE SafeStep
<1>1. cut \in [Batches -> SUBSET Parts]  BY DEF WindowInv, WindowTypes, Rest, DiskFine
<1>2. cut' \in [Batches -> SUBSET Parts]
  <2>1. CASE Connects(b, p)
    <3>1. cut' = [o \in Batches |-> IF o # b /\ worker[o][p] = "open" THEN cut[o] \cup {p} ELSE cut[o]]
      BY <2>1 DEF Connects
    <3> QED  BY <1>1, <3>1
  <2>2. CASE Refused(b, p)  BY <1>1, <2>2 DEF Refused, disk_vars
  <2> QED  BY <2>1, <2>2
<1>3. PICK kinds \in Seq({"failed", "cancelled", "unreachable", "waiting", "progress", "thread"}) : Told(b, kinds, p)
  <2>1. <<"progress">> \in Seq({"failed", "cancelled", "unreachable", "waiting", "progress", "thread"})
        /\ <<"waiting">> \in Seq({"failed", "cancelled", "unreachable", "waiting", "progress", "thread"})
    OBVIOUS
  <2>2. Told(b, <<"progress">>, p) \/ Told(b, <<"waiting">>, p)  BY DEF Connects, Refused
  <2> QED  BY <2>1, <2>2
<1>4. PICK to \in Stages : worker' = [worker EXCEPT ![b][p] = to]  BY DEF Connects, Refused, Stages
<1>5. worker[b][p] # "none" /\ expected' = expected /\ UNCHANGED <<copies, holed>> /\ UNCHANGED worker_rest
  BY DEF Connects, Refused, disk_vars
<1> QED  BY <1>2, <1>3, <1>4, <1>5, NothingKept

LEMMA AgainKeeps ==
  ASSUME WindowInv, NEW b \in Batches, NEW p \in Parts, TriesAgain(b, p) PROVE SafeStep
<1> USE DEF TriesAgain, disk_vars
<1>1. WindowTypes /\ FinishedIsHere  BY DEF WindowInv
<1>2. worker[b][p] # "none" /\ worker' = [worker EXCEPT ![b][p] = "connecting"] /\ "connecting" \in Stages
  BY DEF Stages
<1>3. WorkersFine' /\ StartsNone  BY <1>1, <1>2, OneWorker DEF WindowTypes, WorkersFine
<1>4. Rest'  BY <1>1 DEF WindowTypes, Rest, DiskFine, worker_rest
<1>5. mail' \in Seq(Signal)  BY <1>1 DEF WindowTypes, QueueFine
<1>6. Growing /\ KeepsWhole /\ FinishedIsHere'  BY <1>1 DEF Growing, KeepsWhole, FinishedIsHere
<1> QED  BY <1>3, <1>4, <1>5, <1>6, WorkerKeeps

LEMMA EndKeeps ==
  ASSUME WindowInv, NEW b \in Batches, NEW p \in Parts, GivesUp(b, p) \/ TransferEnds(b, p) PROVE SafeStep
<1>1. PICK k \in {"failed", "cancelled", "unreachable"} : Told(b, <<k, "thread">>, p)
  BY DEF GivesUp, TransferEnds
<1>2. <<k, "thread">> \in Seq({"failed", "cancelled", "unreachable", "waiting", "progress", "thread"})  OBVIOUS
<1>3. worker[b][p] # "none" /\ Over(b, p) /\ UNCHANGED <<copies, holed>> /\ UNCHANGED worker_rest
  BY DEF GivesUp, TransferEnds, disk_vars
<1>4. PICK to \in Stages : worker' = [worker EXCEPT ![b][p] = to]  BY <1>3 DEF Over, Stages
<1>5. expected' = [expected EXCEPT ![b][p] = 0]  BY <1>3 DEF Over
<1>6. cut' \in [Batches -> SUBSET Parts]
  <2>1. cut \in [Batches -> SUBSET Parts]  BY DEF WindowInv, WindowTypes, Rest, DiskFine
  <2>2. cut' = cut \/ cut' = [cut EXCEPT ![b] = @ \ {p}]  BY DEF GivesUp, TransferEnds, disk_vars, Uncut
  <2> QED  BY <2>1, <2>2
<1> QED  BY <1>1, <1>2, <1>3, <1>4, <1>5, <1>6, NothingKept

LEMMA TransferKeeps ==
  ASSUME WindowInv, NEW b \in Batches, NEW p \in Parts, Transferred(b, p) PROVE SafeStep
<1> USE DEF Transferred
<1>1. WindowTypes /\ FinishedIsHere  BY DEF WindowInv
<1>2. worker[b][p] = "open" /\ Over(b, p) /\ Told(b, <<"finished", "thread">>, p) /\ UNCHANGED worker_rest
  OBVIOUS
<1>3. remote[p] # 0 /\ remote[p] \in {1, 2}
      /\ (holed' = holed \/ holed' = [holed EXCEPT ![p] = @ \cup {remote[p]}])
      /\ cut' = [cut EXCEPT ![b] = @ \ {p}]
      /\ copies' = [copies EXCEPT ![p] = @ \cup {remote[p]}]
  BY <1>1 DEF Complete, Uncut, WindowTypes, RemoteFine, Listings, Sizes
<1>18. \A other \in Batches \ {b} : worker[other][p] # "open"  BY DEF Complete
<1> HIDE DEF Transferred
<1>4. copies \in [Parts -> SUBSET {1, 2}] /\ holed \in [Parts -> SUBSET {1, 2}] /\ cut \in [Batches -> SUBSET Parts]
      /\ closings' = closings /\ closings \in 0 .. Reopenings
  BY <1>1, <1>2 DEF WindowTypes, Rest, DiskFine, Copies, worker_rest
<1>5. copies' \in [Parts -> SUBSET {1, 2}] /\ holed' \in [Parts -> SUBSET {1, 2}] /\ cut' \in [Batches -> SUBSET Parts]
  BY <1>3, <1>4
<1>6. Rest'  BY <1>4, <1>5 DEF Rest, DiskFine, Copies
<1>7. Growing /\ copies'[p] # {}  BY <1>3, <1>4 DEF Growing
<1>8. KeepsWhole
  <2> SUFFICES ASSUME NEW k \in Parts, copies'[k] # copies[k]
               PROVE  /\ copies'[k] \ copies[k] = {remote[k]}
                      /\ Cardinality({a \in Batches : worker[a][k] = "open"}) = 1
    BY DEF KeepsWhole
  <2>1. k = p /\ copies'[p] = copies[p] \cup {remote[p]}  BY <1>3, <1>4
  <2>2. copies'[k] \ copies[k] = {remote[k]}  BY <2>1
  <2>3. {a \in Batches : worker[a][k] = "open"} = {b}  BY <1>2, <1>18, <2>1
  <2> QED  BY <2>2, <2>3, FS_Singleton
<1>9. PICK to \in Stages : worker' = [worker EXCEPT ![b][p] = to]  BY <1>2 DEF Over, Stages
<1>10. expected' = [expected EXCEPT ![b][p] = 0]  BY <1>2 DEF Over
<1>11. expected \in [Batches -> [Parts -> Sizes]] /\ 0 \in Sizes
  BY <1>1 DEF WindowTypes, WorkersFine, Listings, Sizes
<1>12. expected' \in [Batches -> [Parts -> Sizes]]  BY <1>10, <1>11
<1>13. WorkersFine' /\ StartsNone  BY <1>1, <1>2, <1>9, <1>12, OneWorker DEF WorkersFine, Listings
<1>14. mail \in Seq(Signal)  BY <1>1 DEF WindowTypes, QueueFine
<1>15. <<"finished", "thread">> \in
         Seq({"finished", "failed", "cancelled", "unreachable", "waiting", "progress", "thread"})
  OBVIOUS
<1>16. mail' \in Seq(Signal)
       /\ \A i \in 1 .. Len(mail') : mail'[i].kind = "finished" =>
            (i \in 1 .. Len(mail) /\ mail'[i] = mail[i]) \/ mail'[i].part = p
  BY <1>2, <1>14, <1>15, ToldFine
<1>17. FinishedIsHere'
  <2> SUFFICES ASSUME NEW i \in 1 .. Len(mail'), mail'[i].kind = "finished" PROVE copies'[mail'[i].part] # {}
    BY DEF FinishedIsHere
  <2>1. mail'[i] \in Signal  BY <1>16
  <2>2. mail'[i].part \in Parts  BY <2>1 DEF Signal
  <2> QED  BY <1>1, <1>7, <1>16, <2>2 DEF FinishedIsHere, Growing
<1> QED  BY <1>2, <1>6, <1>7, <1>8, <1>13, <1>16, <1>17, WorkerKeeps

LEMMA FileKeeps == ASSUME WindowInv, OnFile PROVE SafeStep
<1> USE DEF OnFile, window_vars, disk_vars
<1>1. WindowTypes /\ WrittenInTurn /\ OfferedIsWhole /\ SavedIsThere /\ NothingToStart /\ FinishedIsHere  BY DEF WindowInv
<1>2. RemoteFine' /\ WrittenInTurn' /\ ListFine' /\ WorkersFine' /\ OffersFine' /\ Rest' /\ NothingToStart'
  BY <1>1 DEF WindowTypes, RemoteFine, WrittenInTurn, ListFine, WorkersFine, OffersFine, Rest, DiskFine, NothingToStart
<1>3. KeepsWhole /\ StartsNone /\ Growing  BY Quiet
<1>4. mail \in Seq(Signal) /\ cell \in Column  BY <1>1 DEF WindowTypes, QueueFine
<1>14. mail # <<>> /\ mail' = Tail(mail)  OBVIOUS
<1>5. Head(mail) \in Signal /\ Head(mail) = mail[1] /\ 1 \in 1 .. Len(mail) /\ mail' \in Seq(Signal)
  <2> HIDE DEF OnFile
  <2> QED  BY <1>4, <1>14
<1>6. Head(mail).part \in Parts  BY <1>5 DEF Signal
<1>7. PICK label \in Labels : cell' = [cell EXCEPT ![Head(mail).part] = label]
                             /\ (label = "Verified" => Head(mail).kind = "finished") /\ label # "Saved"
  BY DEF Labels
<1>8. cell' \in Column  BY <1>4, <1>6, <1>7 DEF Column
<1>9. QueueFine'  BY <1>1, <1>5, <1>8 DEF WindowTypes, QueueFine
<1>10. FlagsFine'  BY <1>1 DEF WindowTypes, FlagsFine
<1>11. OfferedIsWhole'  BY <1>1, <1>3, OfferedKept
<1>12. FinishedIsHere'  BY <1>1, <1>4, FinishedTail
<1>13. SavedIsThere'
  <2> SUFFICES ASSUME NEW p \in Parts
               PROVE  /\ cell'[p] = "Verified" => copies[p] # {}
                      /\ cell'[p] = "Saved" => \E s \in copies[p] : s >= listing[p]
    BY DEF SavedIsThere
  <2>1. CASE p = Head(mail).part
    <3>1. cell'[p] = label  BY <1>4, <1>7, <2>1 DEF Column
    <3>2. Head(mail).kind = "finished" => copies[p] # {}  BY <1>1, <1>5, <2>1 DEF FinishedIsHere
    <3> QED  BY <1>7, <3>1, <3>2
  <2>2. CASE p # Head(mail).part
    <3>1. cell'[p] = cell[p]  BY <1>4, <1>7, <2>2 DEF Column
    <3> QED  BY <1>1, <3>1 DEF SavedIsThere
  <2> QED  BY <2>1, <2>2
<1> QED  BY <1>2, <1>3, <1>9, <1>10, <1>11, <1>12, <1>13 DEF SafeStep, WindowInv, WindowTypes

LEMMA ThreadKeeps == ASSUME WindowInv, OnThreadFinished PROVE SafeStep
<1> USE DEF OnThreadFinished, window_vars, disk_vars
<1>1. WindowTypes /\ WrittenInTurn /\ OfferedIsWhole /\ SavedIsThere /\ NothingToStart /\ FinishedIsHere  BY DEF WindowInv
<1> DEFINE w == [worker["now"] EXCEPT ![Head(mail).part] = "none"]
<1>2. Pump(pending, w, cell)  BY DEF NextFiles
<1>3. IF pending' = <<>> /\ \A p \in Parts : worker'["now"][p] = "none"
      THEN BatchSettled /\ busy' = FALSE
      ELSE UNCHANGED <<saved, merge_after, offered, busy>>
  OBVIOUS
<1>4. UNCHANGED <<remote, writing, listing, commands, answers, cancelled, incomplete, disk_vars, closings>> /\ mail' = Tail(mail)
      /\ mail # <<>>
  OBVIOUS
<1>5. RemoteFine' /\ WrittenInTurn' /\ ListFine' /\ Rest' /\ Growing /\ KeepsWhole
  BY <1>1, <1>4 DEF WindowTypes, RemoteFine, WrittenInTurn, ListFine, Rest, DiskFine, Growing, KeepsWhole
<1>6. mail \in Seq(Signal) /\ cell \in Column /\ pending \in Seq(Ticket)  BY <1>1 DEF WindowTypes, QueueFine
<1>7. Head(mail) \in Signal /\ mail' \in Seq(Signal)  BY <1>4, <1>6
<1>8. Head(mail).part \in Parts  BY <1>7 DEF Signal
<1>9. worker["now"] \in [Parts -> Stages] /\ Cardinality(Busy(worker["now"])) <= MaxParallel
  BY <1>1 DEF WindowTypes, WorkersFine, Batches
<1>10. w \in [Parts -> Stages]  BY <1>9 DEF Stages
<1>11. Busy(w) \subseteq Busy(worker["now"])  BY <1>8, <1>9 DEF Busy
<1> HIDE DEF w
<1>12. Cardinality(Busy(w)) <= MaxParallel
  <2>1. IsFiniteSet(Parts)  BY FS_Interval, SensorFilesAssumption DEF Parts
  <2>2. IsFiniteSet(Busy(worker["now"])) /\ IsFiniteSet(Busy(w))  BY <2>1, FS_Subset DEF Busy
  <2>3. Cardinality(Busy(w)) <= Cardinality(Busy(worker["now"]))
        /\ Cardinality(Busy(w)) \in Nat /\ Cardinality(Busy(worker["now"])) \in Nat
    BY <1>11, <2>2, FS_Subset, FS_CardinalityType
  <2> QED  BY <1>9, <2>3, SensorFilesAssumption
<1>13. /\ pending' \in Seq(Ticket) /\ WorkersFine' /\ cell' \in Column
       /\ \A p \in Parts : cell'[p] \in {cell[p], "Downloading"}
       /\ pending = <<>> => pending' = <<>> /\ Busy(worker'["now"]) \subseteq Busy(w)
  BY <1>1, <1>2, <1>6, <1>10, <1>12, PumpKeeps
<1>14. QueueFine'  BY <1>7, <1>13 DEF QueueFine
<1>15. SavedIsThere'
  <2> SUFFICES ASSUME NEW p \in Parts
               PROVE  /\ cell'[p] = "Verified" => copies[p] # {}
                      /\ cell'[p] = "Saved" => \E s \in copies[p] : s >= listing[p]
    BY <1>4 DEF SavedIsThere
  <2> QED  BY <1>1, <1>13 DEF SavedIsThere
<1>16. NothingToStart'  BY <1>1, <1>4, <1>13 DEF NothingToStart
<1>17. StartsNone
  <2> SUFFICES ASSUME cancelled, cancelled' PROVE Active' \subseteq Active  BY DEF StartsNone
  <2>1. pending = <<>>  BY <1>1 DEF NothingToStart
  <2> QED  BY <1>11, <1>13, <2>1 DEF Active, Busy
<1>18. FinishedIsHere'  BY <1>1, <1>4, <1>6, FinishedTail
<1>19. OfferedIsWhole' /\ OffersFine' /\ FlagsFine'
  <2>1. saved \in BOOLEAN /\ busy \in BOOLEAN /\ cancelled \in BOOLEAN /\ incomplete \in BOOLEAN /\ merge_after \in BOOLEAN
        /\ offered \subseteq Offers
    BY <1>1 DEF WindowTypes, FlagsFine, OffersFine
  <2>2. cancelled' \in BOOLEAN /\ incomplete' \in BOOLEAN  BY <1>4, <2>1
  <2>3. CASE pending' = <<>> /\ \A p \in Parts : worker'["now"][p] = "none"
    <3>1. BatchSettled /\ busy' = FALSE  BY <1>3, <2>3
    <3>2. saved' = FALSE /\ merge_after' = FALSE  BY <3>1 DEF BatchSettled
    <3>3. offered' = offered \/ Offer(merge_after)  BY <3>1 DEF BatchSettled
    <3>4. OfferedIsWhole' /\ offered' \subseteq Offers
      <4>1. CASE offered' = offered  BY <1>1, <1>5, <2>1, <4>1, OfferedKept
      <4>2. CASE Offer(merge_after)  BY <1>1, <1>4, <2>1, <4>2, OfferKeeps
      <4> QED  BY <3>3, <4>1, <4>2
    <3> QED  BY <2>2, <3>1, <3>2, <3>4 DEF OffersFine, FlagsFine
  <2>4. CASE ~(pending' = <<>> /\ \A p \in Parts : worker'["now"][p] = "none")
    <3>1. UNCHANGED <<saved, merge_after, offered, busy>>  BY <1>3, <2>4
    <3>2. OfferedIsWhole'  BY <1>1, <1>5, <3>1, OfferedKept
    <3> QED  BY <2>1, <2>2, <3>1, <3>2 DEF OffersFine, FlagsFine
  <2> QED  BY <2>3, <2>4
<1> QED  BY <1>5, <1>13, <1>14, <1>15, <1>16, <1>17, <1>18, <1>19 DEF SafeStep, WindowInv, WindowTypes

LEMMA ReopenKeeps == ASSUME WindowInv, Reopen PROVE SafeStep
<1>1. WindowTypes /\ WrittenInTurn /\ OfferedIsWhole /\ FinishedIsHere  BY DEF WindowInv
<1>2. UNCHANGED <<remote, writing, copies, holed, offered>>  BY DEF Reopen
<1>3. listing' = Nothing /\ busy' = TRUE /\ commands' = <<List>> /\ answers' = <<>>  BY DEF Reopen
<1>4. cell' = [p \in Parts |-> ""]  BY DEF Reopen
<1>31. pending' = <<>> /\ mail' = <<>>  BY DEF Reopen
<1> DEFINE left == [p \in Parts |-> IF Outlives(worker["now"][p]) THEN worker["now"][p] ELSE "none"]
           sizes == [p \in Parts |-> IF Outlives(worker["now"][p]) THEN expected["now"][p] ELSE 0]
<1>5. worker' = [b \in Batches |-> IF b = "now" THEN Idle ELSE left]  BY DEF Reopen
<1>6. expected' = [b \in Batches |-> IF b = "now" THEN Nothing ELSE sizes]  BY DEF Reopen
<1>7. cancelled' = FALSE /\ incomplete' = FALSE /\ saved' = FALSE /\ merge_after' = FALSE  BY DEF Reopen
<1>8. closings' = closings + 1 /\ closings < Reopenings  BY DEF Reopen
<1>9. RemoteFine' /\ WrittenInTurn'  BY <1>1, <1>2 DEF WindowTypes, RemoteFine, WrittenInTurn
<1>10. Nothing \in Listings  BY DEF Nothing, Listings, Sizes
<1>11. List \in CommandSet  BY DEF List, CommandSet
<1>12. ListFine'  BY <1>3, <1>10, <1>11 DEF ListFine
<1>13. FlagsFine'  BY <1>3, <1>7 DEF FlagsFine
<1>14. QueueFine'
  <2>1. cell' \in Column  BY <1>4 DEF Column, Labels
  <2> QED  BY <1>31, <2>1 DEF QueueFine
<1>15. worker["now"] \in [Parts -> Stages] /\ expected["now"] \in Listings /\ "now" \in Batches
  BY <1>1 DEF WindowTypes, WorkersFine, Batches
<1>16. Idle \in [Parts -> Stages] /\ "none" \in Stages  BY DEF Idle, Stages
<1>32. left \in [Parts -> Stages] /\ sizes \in Listings
  <2>1. left \in [Parts -> Stages]  BY <1>15, <1>16
  <2>2. 0 \in Sizes  BY DEF Sizes
  <2> QED  BY <1>15, <2>1, <2>2 DEF Listings
<1> HIDE DEF left, sizes
<1>17. worker' \in [Batches -> [Parts -> Stages]] /\ worker'["now"] = Idle  BY <1>5, <1>15, <1>16, <1>32
<1>18. expected' \in [Batches -> Listings]  BY <1>6, <1>10, <1>32
<1>19. Busy(worker'["now"]) = {}  BY <1>17 DEF Busy, Idle
<1>20. Cardinality(Busy(worker'["now"])) = 0  BY <1>19, FS_EmptySet
<1>21. 0 <= MaxParallel  BY SensorFilesAssumption
<1>22. WorkersFine'  BY <1>17, <1>18, <1>20, <1>21 DEF WorkersFine
<1>23. OffersFine'  BY <1>1, <1>2, <1>7 DEF WindowTypes, OffersFine
<1>24. closings \in 0 .. Reopenings /\ Reopenings \in Nat /\ copies \in Copies /\ holed \in Copies
      /\ cut \in [Batches -> SUBSET Parts]
  BY <1>1, SensorFilesAssumption DEF WindowTypes, Rest, DiskFine
<1>33. cut' \in [Batches -> SUBSET Parts]
  <2>1. cut' = [b \in Batches |-> IF b = "now" THEN {} ELSE cut["now"]]  BY DEF Reopen
  <2>2. cut["now"] \in SUBSET Parts  BY <1>15, <1>24
  <2> QED  BY <2>1, <2>2
<1>25. Rest'  BY <1>2, <1>8, <1>24, <1>33 DEF Rest, DiskFine
<1>26. Growing /\ KeepsWhole  BY <1>2 DEF Growing, KeepsWhole
<1>27. NothingToStart' /\ StartsNone  BY <1>7 DEF NothingToStart, StartsNone
<1>28. FinishedIsHere'
  <2>1. 1 .. Len(mail') = {}  BY <1>31
  <2> QED  BY <2>1 DEF FinishedIsHere
<1>29. SavedIsThere'  BY <1>4 DEF SavedIsThere
<1>30. OfferedIsWhole'  BY <1>1, <1>2, <1>26, OfferedKept
<1> QED
  BY <1>9, <1>12, <1>13, <1>14, <1>22, <1>23, <1>25, <1>26, <1>27, <1>28, <1>29, <1>30 DEF SafeStep, WindowInv, WindowTypes

LEMMA WindowStep == ASSUME WindowInv, Next PROVE SafeStep
<1>1. CASE SensorWrites  BY <1>1, SensorKeeps
<1>2. CASE \E ok \in BOOLEAN : BackendLists(ok)  BY <1>2, ListsKeep
<1>3. CASE BackendRemoves  BY <1>3, RemovesKeep
<1>4. CASE OnAnswer  BY <1>4, AnswerKeeps
<1>5. CASE RequestList \/ RetryToday
  <2>1. {} \in SUBSET Parts  OBVIOUS
  <2> QED  BY <1>5, <2>1, RequestsKeep
<1>6. CASE MergeSelected  BY <1>6, MergeKeeps
<1>7. CASE CancelDownloads  BY <1>7, CancelKeeps
<1>8. CASE Reopen  BY <1>8, ReopenKeeps
<1>9. ASSUME NEW chosen \in SUBSET Parts, DeleteSelected(chosen) \/ DownloadSelected(chosen) PROVE SafeStep
  <2>1. CASE DeleteSelected(chosen)  BY <2>1, RequestsKeep
  <2>2. CASE DownloadSelected(chosen)
    <3>1. BeginDownloads(chosen, FALSE) /\ FALSE \in BOOLEAN  BY <2>2 DEF DownloadSelected
    <3> QED  BY <3>1, BeginKeeps
  <2> QED  BY <1>9, <2>1, <2>2
<1>10. CASE Worker
  <2>1. PICK b \in Batches, p \in Parts :
          Connects(b, p) \/ Refused(b, p) \/ TriesAgain(b, p) \/ GivesUp(b, p) \/ Transferred(b, p) \/ TransferEnds(b, p)
    BY <1>10 DEF Worker
  <2>2. CASE Connects(b, p) \/ Refused(b, p)  BY <2>2, ConnectKeeps
  <2>3. CASE GivesUp(b, p) \/ TransferEnds(b, p)  BY <2>3, EndKeeps
  <2>4. CASE Transferred(b, p)  BY <2>4, TransferKeeps
  <2>5. CASE TriesAgain(b, p)  BY <2>5, AgainKeeps
  <2> QED  BY <2>1, <2>2, <2>3, <2>4, <2>5
<1>11. CASE OnFile  BY <1>11, FileKeeps
<1>12. CASE OnThreadFinished  BY <1>12, ThreadKeeps
<1> QED  BY <1>1, <1>2, <1>3, <1>4, <1>5, <1>6, <1>7, <1>8, <1>9, <1>10, <1>11, <1>12 DEF Next

LEMMA WindowStutters == ASSUME WindowInv, UNCHANGED vars PROVE SafeStep
<1> USE DEF vars, window_vars, batch_vars, disk_vars
<1>1. WindowTypes /\ WrittenInTurn /\ OfferedIsWhole /\ SavedIsThere /\ NothingToStart /\ FinishedIsHere  BY DEF WindowInv
<1>2. RemoteFine' /\ WrittenInTurn' /\ ListFine' /\ FlagsFine'
  BY <1>1 DEF WindowTypes, RemoteFine, WrittenInTurn, ListFine, FlagsFine
<1>3. QueueFine' /\ WorkersFine' /\ OffersFine' /\ Rest' /\ NothingToStart'
  BY <1>1 DEF WindowTypes, QueueFine, WorkersFine, OffersFine, Rest, DiskFine, NothingToStart
<1>4. KeepsWhole /\ StartsNone /\ Growing  BY Quiet
<1>5. OfferedIsWhole' /\ SavedIsThere' /\ FinishedIsHere'
  BY <1>1, <1>4, OfferedKept, SavedKept, FinishedKept DEF WindowTypes, QueueFine
<1> QED  BY <1>2, <1>3, <1>4, <1>5 DEF SafeStep, WindowInv, WindowTypes

LEMMA WindowStarts == ASSUME Init PROVE WindowInv
<1>1. N \in Nat \ {0} /\ Reopenings \in Nat  BY SensorFilesAssumption
<1>2. Nothing \in [Parts -> Sizes] /\ 1 \in Parts /\ 2 \in Sizes  BY <1>1 DEF Nothing, Sizes, Parts
<1>3. remote = [Nothing EXCEPT ![1] = 2] /\ writing = 2  BY DEF Init
<1>4. remote \in [Parts -> Sizes] /\ writing \in 1 .. N + 1  BY <1>1, <1>2, <1>3
<1>5. RemoteFine  BY <1>4 DEF RemoteFine, Listings
<1>6. WrittenInTurn
  <2> SUFFICES ASSUME NEW p \in Parts, p >= 2 PROVE remote[p] = 0
    BY <1>1, <1>3 DEF WrittenInTurn, Parts
  <2>1. p # 1  BY <1>1 DEF Parts
  <2>2. remote[p] = Nothing[p]  BY <1>2, <1>3, <2>1
  <2> QED  BY <2>2 DEF Nothing
<1>7. ListFine
  <2>1. listing = Nothing /\ commands = <<>> /\ answers = <<>>  BY DEF Init
  <2> QED  BY <1>2, <2>1 DEF ListFine, Listings
<1>8. FlagsFine  BY DEF Init, FlagsFine
<1>9. QueueFine
  <2>1. pending = <<>> /\ mail = <<>>  BY DEF Init
  <2>2. cell \in Column  BY DEF Init, Column, Labels
  <2> QED  BY <2>1, <2>2 DEF QueueFine
<1>10. WorkersFine
  <2>1. worker = [b \in Batches |-> Idle] /\ expected = [b \in Batches |-> Nothing]  BY DEF Init
  <2>2. Idle \in [Parts -> Stages] /\ "now" \in Batches  BY DEF Idle, Stages, Batches
  <2>3. Busy(worker["now"]) = {}  BY <2>1, <2>2 DEF Busy, Idle
  <2>4. Cardinality(Busy(worker["now"])) = 0  BY <2>3, FS_EmptySet
  <2>5. 0 <= MaxParallel  BY SensorFilesAssumption
  <2> QED  BY <1>2, <2>1, <2>2, <2>4, <2>5 DEF WorkersFine, Listings
<1>11. OffersFine  BY DEF Init, OffersFine
<1>12. Rest
  <2>1. copies \in Copies /\ holed \in Copies /\ cut \in [Batches -> SUBSET Parts] /\ closings = 0  BY DEF Init, Copies
  <2> QED  BY <1>1, <2>1 DEF Rest, DiskFine
<1>13. OfferedIsWhole /\ SavedIsThere /\ NothingToStart  BY DEF Init, OfferedIsWhole, SavedIsThere, NothingToStart
<1>14. FinishedIsHere
  <2>1. mail = <<>>  BY DEF Init
  <2>2. 1 .. Len(mail) = {}  BY <2>1
  <2> QED  BY <2>2 DEF FinishedIsHere
<1> QED  BY <1>5, <1>6, <1>7, <1>8, <1>9, <1>10, <1>11, <1>12, <1>13, <1>14 DEF WindowInv, WindowTypes

(* Files with holes.  While no window has been closed, no two transfers have one file. *)
OneWindow ==
  closings = 0 => /\ \A p \in Parts : worker["closed"][p] = "none"
                  /\ \A b \in Batches : cut[b] = {}
HolesCut ==
  \A p \in Parts : holed'[p] # holed[p] =>
    /\ closings > 0
    /\ \E b \in Batches : worker[b][p] = "open" /\ p \in cut[b]

LEMMA NoHole ==
  ASSUME OneWindow, worker'["closed"] = worker["closed"], UNCHANGED <<cut, holed, closings>> PROVE OneWindow' /\ HolesCut
BY DEF OneWindow, HolesCut

LEMMA PumpNoHole ==
  ASSUME WindowInv, OneWindow, NEW q, NEW w, NEW c, Pump(q, w, c), UNCHANGED <<cut, holed, closings>>
  PROVE  OneWindow' /\ HolesCut
<1>1. worker \in [Batches -> [Parts -> Stages]] /\ "closed" \in Batches
  BY DEF WindowInv, WindowTypes, WorkersFine, Batches
<1>2. PICK v : worker' = [worker EXCEPT !["now"] = v]  BY DEF Pump
<1>3. worker'["closed"] = worker["closed"]  BY <1>1, <1>2
<1> QED  BY <1>3, NoHole

LEMMA BeginNoHole ==
  ASSUME WindowInv, OneWindow, NEW chosen, NEW manual, BeginDownloads(chosen, manual) PROVE OneWindow' /\ HolesCut
<1>1. UNCHANGED <<cut, holed, closings>>  BY DEF BeginDownloads, disk_vars
<1>2. worker' = worker \/ \E q, w, c : Pump(q, w, c)  BY DEF BeginDownloads
<1> QED  BY <1>1, <1>2, NoHole, PumpNoHole

LEMMA WorkerNoHole == ASSUME WindowInv, OneWindow, Worker PROVE OneWindow' /\ HolesCut
<1>1. PICK b \in Batches, p \in Parts :
        Connects(b, p) \/ Refused(b, p) \/ TriesAgain(b, p) \/ GivesUp(b, p) \/ Transferred(b, p) \/ TransferEnds(b, p)
  BY DEF Worker
<1>2. /\ worker \in [Batches -> [Parts -> Stages]] /\ cut \in [Batches -> SUBSET Parts]
      /\ holed \in [Parts -> SUBSET {1, 2}] /\ closings \in 0 .. Reopenings /\ Reopenings \in Nat
      /\ Batches = {"now", "closed"}
  BY SensorFilesAssumption DEF WindowInv, WindowTypes, WorkersFine, Rest, DiskFine, Copies, Batches
<1>3. closings' = closings /\ worker[b][p] # "none" /\ \E to : worker' = [worker EXCEPT ![b][p] = to]
  BY <1>1 DEF Connects, Refused, TriesAgain, GivesUp, Transferred, TransferEnds, Over, worker_rest
<1>4. CASE closings = 0
  <2>1. (\A k \in Parts : worker["closed"][k] = "none") /\ (\A a \in Batches : cut[a] = {}) /\ b = "now"
    BY <1>2, <1>3, <1>4 DEF OneWindow
  <2>2. \A k \in Parts : worker'["closed"][k] = "none"  BY <1>2, <1>3, <2>1
  <2>3. \A a \in Batches : cut'[a] = {}
    <3>1. CASE Connects(b, p)
      <4>1. cut' = [a \in Batches |-> IF a # b /\ worker[a][p] = "open" THEN cut[a] \cup {p} ELSE cut[a]]
        BY <3>1 DEF Connects
      <4>2. \A a \in Batches : ~(a # b /\ worker[a][p] = "open")  BY <1>2, <2>1
      <4> QED  BY <2>1, <4>1, <4>2
    <3>2. CASE cut' = cut \/ cut' = [cut EXCEPT ![b] = @ \ {p}]  BY <1>2, <2>1, <3>2
    <3> QED  BY <1>1, <3>1, <3>2 DEF Refused, TriesAgain, GivesUp, Transferred, TransferEnds, Uncut, disk_vars
  <2>4. holed' = holed
    BY <1>1, <2>1 DEF Connects, Refused, TriesAgain, GivesUp, Transferred, TransferEnds, disk_vars
  <2> QED  BY <2>2, <2>3, <2>4 DEF OneWindow, HolesCut
<1>5. CASE closings # 0
  <2>1. closings > 0 /\ OneWindow'  BY <1>2, <1>3, <1>5 DEF OneWindow
  <2>2. HolesCut
    <3>1. CASE Transferred(b, p)
      <4>1. worker[b][p] = "open"  BY <3>1 DEF Transferred
      <4>2. CASE holed' = holed  BY <4>2 DEF HolesCut
      <4>3. CASE holed' # holed
        <5>1. p \in cut[b] /\ \E n : holed' = [holed EXCEPT ![p] = @ \cup {n}]  BY <3>1, <4>3 DEF Transferred
        <5>2. \A k \in Parts : holed'[k] # holed[k] => k = p  BY <1>2, <5>1
        <5> QED  BY <2>1, <4>1, <5>1, <5>2 DEF HolesCut
      <4> QED  BY <4>2, <4>3
    <3>2. CASE holed' = holed  BY <3>2 DEF HolesCut
    <3> QED  BY <1>1, <3>1, <3>2 DEF Connects, Refused, TriesAgain, GivesUp, TransferEnds, disk_vars
  <2> QED  BY <2>1, <2>2
<1> QED  BY <1>4, <1>5

LEMMA HolesStep == ASSUME WindowInv, OneWindow, Next \/ UNCHANGED vars PROVE OneWindow' /\ HolesCut
<1>1. CASE \/ SensorWrites \/ (\E ok \in BOOLEAN : BackendLists(ok)) \/ BackendRemoves \/ OnAnswer
           \/ RequestList \/ RetryToday \/ (\E chosen \in SUBSET Parts : DeleteSelected(chosen))
           \/ CancelDownloads \/ OnFile \/ UNCHANGED vars
  <2>1. UNCHANGED <<worker, cut, holed, closings>>
    BY <1>1 DEF SensorWrites, BackendLists, BackendRemoves, OnAnswer, RequestList, RetryToday, DeleteSelected,
                CancelDownloads, OnFile, vars, batch_vars, disk_vars
  <2> QED  BY <2>1, NoHole
<1>2. CASE \E chosen \in SUBSET Parts : DownloadSelected(chosen)  BY <1>2, BeginNoHole DEF DownloadSelected
<1>3. CASE MergeSelected
  <2>1. CASE Have = Listed
    <3>1. UNCHANGED <<worker, cut, holed, closings>>  BY <1>3, <2>1 DEF MergeSelected, batch_vars, disk_vars
    <3> QED  BY <3>1, NoHole
  <2>2. CASE Have # Listed  BY <1>3, <2>2, BeginNoHole DEF MergeSelected
  <2> QED  BY <2>1, <2>2
<1>4. CASE OnThreadFinished
  <2>1. UNCHANGED <<cut, holed, closings>>  BY <1>4 DEF OnThreadFinished, disk_vars
  <2>2. \E w : Pump(pending, w, cell)  BY <1>4 DEF OnThreadFinished, NextFiles
  <2> QED  BY <2>1, <2>2, PumpNoHole
<1>5. CASE Reopen
  <2>1. closings' = closings + 1 /\ holed' = holed  BY <1>5 DEF Reopen
  <2>2. closings \in 0 .. Reopenings /\ Reopenings \in Nat
    BY SensorFilesAssumption DEF WindowInv, WindowTypes, Rest
  <2>3. closings' # 0  BY <2>1, <2>2
  <2> QED  BY <2>1, <2>3 DEF OneWindow, HolesCut
<1>6. CASE Worker  BY <1>6, WorkerNoHole
<1> QED  BY <1>1, <1>2, <1>3, <1>4, <1>5, <1>6 DEF Next

LEMMA HolesStart == ASSUME Init PROVE OneWindow
<1>1. "closed" \in Batches  BY DEF Batches
<1> QED  BY <1>1 DEF Init, OneWindow, Idle

-----------------------------------------------------------------------------
(* The preview. *)

(* The preview: requests, the job and its signals are of selections made so far, and those of the
   newest are of the file that is selected.                                                       *)
MadeBy(r, n, f) == r.token <= n /\ (r.token = n => r.file = f)

PreviewJobs == [token : 1 .. MaxToken, file : Files, aborted : BOOLEAN, stage : {"runs", "over"}]
Letters == [kind : {"ready", "failed", "cancelled", "thread"}, token : 1 .. MaxToken, file : Files]
PaneFine == token \in 0 .. MaxToken /\ {selected, shown} \subseteq Files \cup {NoFile} /\ preparing \in BOOLEAN
NextFine == next_up \subseteq Stamp /\ \A a, b \in next_up : a = b
TaskFine == task \subseteq PreviewJobs /\ \A a, b \in task : a = b
LettersFine == letters \in Seq(Letters)
CacheFine == cache \in Seq(Files) /\ Len(cache) <= CacheSize
PreviewTypes == PaneFine /\ NextFine /\ TaskFine /\ LettersFine /\ CacheFine
Timely ==
  /\ \A r \in next_up : MadeBy(r, token, selected)
  /\ \A r \in task : MadeBy(r, token, selected)
  /\ \A i \in 1 .. Len(letters) : MadeBy(letters[i], token, selected)
PreviewInv == PreviewTypes /\ ShowsTheSelected /\ Timely

LEMMA PreviewTypesAgree == PreviewTypes <=> PreviewTypeOK
<1>1. PreviewTypes => PreviewTypeOK
  BY DEF PreviewTypes, PreviewTypeOK, PaneFine, NextFine, TaskFine, LettersFine, CacheFine, PreviewJobs, Letters
<1>2. PreviewTypeOK => PreviewTypes
  BY DEF PreviewTypes, PreviewTypeOK, PaneFine, NextFine, TaskFine, LettersFine, CacheFine, PreviewJobs, Letters
<1> QED  BY <1>1, <1>2

LEMMA PreviewStarts == ASSUME PreviewInit PROVE PreviewInv
<1>1. token = 0 /\ selected = NoFile /\ shown = NoFile /\ preparing = FALSE /\ next_up = {} /\ task = {}
  BY DEF PreviewInit
<1>2. letters = <<>> /\ cache = <<>>  BY DEF PreviewInit
<1>3. LettersFine /\ CacheFine /\ 1 .. Len(letters) = {}
  BY <1>2, PreviewAssumption DEF LettersFine, CacheFine
<1>4. PaneFine
  <2>1. token \in 0 .. MaxToken  BY <1>1, PreviewAssumption
  <2> QED  BY <1>1, <2>1 DEF PaneFine
<1>6. NextFine /\ TaskFine  BY <1>1 DEF NextFine, TaskFine
<1>5. ShowsTheSelected /\ Timely  BY <1>1, <1>3 DEF ShowsTheSelected, Timely
<1> QED  BY <1>3, <1>4, <1>5, <1>6 DEF PreviewInv, PreviewTypes

(* A selection outdates all that was asked for before. *)
LEMMA SelectKeeps == ASSUME PreviewInv, NEW f \in Files, Select(f) PROVE PreviewInv'
<1>1. PaneFine /\ NextFine /\ TaskFine /\ LettersFine /\ CacheFine /\ Timely
  BY DEF PreviewInv, PreviewTypes
<1>2. token < MaxToken /\ token' = token + 1 /\ selected' = f /\ letters' = letters /\ cache' = cache
  BY DEF Select
<1>3. token \in 0 .. MaxToken /\ MaxToken \in Nat /\ token' \in 1 .. MaxToken
  BY <1>1, <1>2, PreviewAssumption DEF PaneFine
<1>4. /\ preparing' \in BOOLEAN /\ shown' \in {f, NoFile}
      /\ next_up' \in {{}, next_up, {[token |-> token + 1, file |-> f]}}
  BY DEF Select
<1>5. \/ task' = task
      \/ task' = {[j EXCEPT !.aborted = TRUE] : j \in task}
      \/ task' = {[token |-> token + 1, file |-> f, aborted |-> FALSE, stage |-> "runs"]}
  BY DEF Select, StartPreview
<1>6. PaneFine'  BY <1>2, <1>3, <1>4 DEF PaneFine
<1>7. LettersFine' /\ CacheFine'  BY <1>1, <1>2 DEF LettersFine, CacheFine
<1>8. [token |-> token + 1, file |-> f] \in Stamp  BY <1>2, <1>3 DEF Stamp
<1>9. NextFine'  BY <1>1, <1>4, <1>8 DEF NextFine
<1>10. \A j \in task : [j EXCEPT !.aborted = TRUE] \in PreviewJobs
                       /\ [j EXCEPT !.aborted = TRUE].token = j.token /\ [j EXCEPT !.aborted = TRUE].file = j.file
  BY <1>1 DEF TaskFine, PreviewJobs
<1>11. [token |-> token + 1, file |-> f, aborted |-> FALSE, stage |-> "runs"] \in PreviewJobs
  BY <1>2, <1>3 DEF PreviewJobs
<1>12. TaskFine'
  <2>1. CASE task' = task  BY <1>1, <2>1 DEF TaskFine
  <2>2. CASE task' = {[j EXCEPT !.aborted = TRUE] : j \in task}
    <3>1. task' \subseteq PreviewJobs  BY <1>10, <2>2
    <3>2. \A a, b \in task' : a = b  BY <1>1, <2>2 DEF TaskFine
    <3> QED  BY <3>1, <3>2 DEF TaskFine
  <2>3. CASE task' = {[token |-> token + 1, file |-> f, aborted |-> FALSE, stage |-> "runs"]}
    BY <1>11, <2>3 DEF TaskFine
  <2> QED  BY <1>5, <2>1, <2>2, <2>3
<1>13. ShowsTheSelected'  BY <1>2, <1>4 DEF ShowsTheSelected
<1>14. \A r \in next_up' : MadeBy(r, token', selected')
  <2>1. ASSUME NEW r \in next_up PROVE r.token <= token' /\ r.token # token'
    <3>1. r.token \in 1 .. MaxToken /\ r.token <= token  BY <1>1, <2>1 DEF NextFine, Stamp, Timely, MadeBy
    <3> QED  BY <1>2, <1>3, <3>1
  <2> QED  BY <1>2, <1>3, <1>4, <2>1 DEF MadeBy
<1>15. ASSUME NEW j \in task PROVE j.token <= token' /\ j.token # token'
  <2>1. j.token \in 1 .. MaxToken /\ j.token <= token  BY <1>1, <1>15 DEF TaskFine, PreviewJobs, Timely, MadeBy
  <2> QED  BY <1>2, <1>3, <2>1
<1>16. \A r \in task' : MadeBy(r, token', selected')
  <2>1. CASE task' = task  BY <1>15, <2>1 DEF MadeBy
  <2>2. CASE task' = {[j EXCEPT !.aborted = TRUE] : j \in task}
    <3>1. ASSUME NEW j \in task PROVE MadeBy([j EXCEPT !.aborted = TRUE], token', selected')
      <4>1. [j EXCEPT !.aborted = TRUE].token = j.token  BY <1>10
      <4>2. j.token <= token' /\ j.token # token'  BY <1>15
      <4> QED  BY <4>1, <4>2 DEF MadeBy
    <3> QED  BY <2>2, <3>1
  <2>3. CASE task' = {[token |-> token + 1, file |-> f, aborted |-> FALSE, stage |-> "runs"]}
    BY <1>2, <1>3, <2>3 DEF MadeBy
  <2> QED  BY <1>5, <2>1, <2>2, <2>3
<1>17. \A i \in 1 .. Len(letters') : MadeBy(letters'[i], token', selected')
  <2> SUFFICES ASSUME NEW i \in 1 .. Len(letters) PROVE letters[i].token <= token' /\ letters[i].token # token'
    BY <1>2 DEF MadeBy
  <2>1. letters[i] \in Letters  BY <1>1 DEF LettersFine
  <2>2. letters[i].token \in 1 .. MaxToken /\ letters[i].token <= token
    BY <1>1, <2>1 DEF Letters, Timely, MadeBy
  <2> QED  BY <1>2, <1>3, <2>2
<1>18. Timely'  BY <1>14, <1>16, <1>17 DEF Timely
<1> QED  BY <1>6, <1>7, <1>9, <1>12, <1>13, <1>18 DEF PreviewInv, PreviewTypes

LEMMA JobKeeps ==
  ASSUME PreviewInv, NEW j \in task, NEW kind \in {"ready", "failed", "cancelled"}, JobEnds(j, kind) PROVE PreviewInv'
<1>1. PaneFine /\ NextFine /\ TaskFine /\ LettersFine /\ CacheFine /\ Timely /\ ShowsTheSelected
  BY DEF PreviewInv, PreviewTypes
<1>2. UNCHANGED <<token, selected, shown, preparing, next_up, cache>>  BY DEF JobEnds
<1>3. task' = {[j EXCEPT !.stage = "over"]}  BY DEF JobEnds
<1> DEFINE a == [kind |-> kind, token |-> j.token, file |-> j.file]
           b == [kind |-> "thread", token |-> j.token, file |-> j.file]
<1>4. letters' = letters \o <<a, b>>  BY DEF JobEnds
<1>5. j \in PreviewJobs  BY <1>1 DEF TaskFine
<1>6. [j EXCEPT !.stage = "over"] \in PreviewJobs /\ [j EXCEPT !.stage = "over"].token = j.token
      /\ [j EXCEPT !.stage = "over"].file = j.file
  BY <1>5 DEF PreviewJobs
<1>7. a \in Letters /\ b \in Letters /\ a.token = j.token /\ a.file = j.file /\ b.token = j.token /\ b.file = j.file
  BY <1>5 DEF PreviewJobs, Letters
<1> HIDE DEF a, b
<1>8. LettersFine'  BY <1>1, <1>4, <1>7 DEF LettersFine
<1>9. PaneFine' /\ NextFine' /\ CacheFine' /\ ShowsTheSelected'
  BY <1>1, <1>2 DEF PaneFine, NextFine, CacheFine, ShowsTheSelected
<1>10. TaskFine'  BY <1>3, <1>6 DEF TaskFine
<1>11. MadeBy(j, token, selected)  BY <1>1 DEF Timely
<1>12. \A r \in next_up' : MadeBy(r, token', selected')  BY <1>1, <1>2 DEF Timely, MadeBy
<1>13. \A r \in task' : MadeBy(r, token', selected')  BY <1>2, <1>3, <1>6, <1>11 DEF MadeBy
<1>14. \A i \in 1 .. Len(letters') : MadeBy(letters'[i], token', selected')
  <2> SUFFICES ASSUME NEW i \in 1 .. Len(letters') PROVE MadeBy(letters'[i], token', selected')
    OBVIOUS
  <2>1. letters \in Seq(Letters) /\ <<a, b>> \in Seq(Letters) /\ Len(<<a, b>>) = 2  BY <1>1, <1>7 DEF LettersFine
  <2>2. Len(letters') = Len(letters) + 2 /\ Len(letters) \in Nat  BY <1>4, <2>1
  <2>3. CASE i \in 1 .. Len(letters)
    <3>1. letters'[i] = letters[i]  BY <1>4, <2>1, <2>3
    <3> QED  BY <1>1, <1>2, <2>3, <3>1 DEF Timely, MadeBy
  <2>4. CASE i \notin 1 .. Len(letters)
    <3>1. letters'[i] \in {a, b}  BY <1>4, <2>1, <2>2, <2>4
    <3> QED  BY <1>2, <1>7, <1>11, <3>1 DEF MadeBy
  <2> QED  BY <2>3, <2>4
<1>15. Timely'  BY <1>12, <1>13, <1>14 DEF Timely
<1> QED  BY <1>8, <1>9, <1>10, <1>15 DEF PreviewInv, PreviewTypes

LEMMA HeadOfLetters ==
  ASSUME LettersFine, Timely, letters # <<>>
  PROVE  /\ Head(letters) \in Letters /\ MadeBy(Head(letters), token, selected) /\ Tail(letters) \in Seq(Letters)
         /\ \A i \in 1 .. Len(Tail(letters)) : MadeBy(Tail(letters)[i], token, selected)
<1>1. letters \in Seq(Letters)  BY DEF LettersFine
<1>2. Head(letters) \in Letters /\ Head(letters) = letters[1] /\ 1 \in 1 .. Len(letters)  BY <1>1
<1>3. Tail(letters) \in Seq(Letters)
      /\ \A i \in 1 .. Len(Tail(letters)) : Tail(letters)[i] = letters[i + 1] /\ i + 1 \in 1 .. Len(letters)
  BY <1>1
<1> QED  BY <1>2, <1>3 DEF Timely

LEMMA PreviewArrives == ASSUME PreviewInv, OnPreview PROVE PreviewInv'
<1>1. PaneFine /\ NextFine /\ TaskFine /\ LettersFine /\ CacheFine /\ Timely /\ ShowsTheSelected
  BY DEF PreviewInv, PreviewTypes
<1>2. letters # <<>> /\ letters' = Tail(letters) /\ UNCHANGED <<token, selected, next_up, task>>  BY DEF OnPreview
<1>3. cache' = cache \/ cache' = Kept(Head(letters).file)  BY DEF OnPreview
<1>4. \/ preparing' = preparing /\ shown' = shown
      \/ preparing' = FALSE /\ shown' = NoFile
      \/ preparing' = FALSE /\ shown' = Head(letters).file /\ Head(letters).token = token
  BY DEF OnPreview, ForThisFile
<1>5. /\ Head(letters) \in Letters /\ MadeBy(Head(letters), token, selected) /\ letters' \in Seq(Letters)
      /\ \A i \in 1 .. Len(letters') : MadeBy(letters'[i], token, selected)
  BY <1>1, <1>2, HeadOfLetters
<1>6. Head(letters).file \in Files  BY <1>5 DEF Letters
<1>7. cache \in Seq(Files) /\ Len(cache) \in Nat /\ Len(cache) <= CacheSize /\ CacheSize \in Nat \ {0}
  BY <1>1, PreviewAssumption DEF CacheFine
<1>8. CacheFine'
  <2>1. CASE cache' = cache  BY <1>7, <2>1 DEF CacheFine
  <2>2. CASE cache' = Kept(Head(letters).file)
    <3> DEFINE all == IF Cached(Head(letters).file) THEN cache ELSE Append(cache, Head(letters).file)
    <3>1. all \in Seq(Files) /\ Len(all) <= CacheSize + 1 /\ Len(all) \in Nat  BY <1>6, <1>7
    <3>2. cache' = IF Len(all) > CacheSize THEN Tail(all) ELSE all  BY <2>2 DEF Kept
    <3> HIDE DEF all
    <3>3. CASE Len(all) > CacheSize
      <4>1. all # <<>>  BY <1>7, <3>3
      <4>2. Tail(all) \in Seq(Files) /\ Len(Tail(all)) = Len(all) - 1  BY <3>1, <4>1
      <4> QED  BY <1>7, <3>1, <3>2, <3>3, <4>2 DEF CacheFine
    <3>4. CASE ~(Len(all) > CacheSize)  BY <1>7, <3>1, <3>2, <3>4 DEF CacheFine
    <3> QED  BY <3>3, <3>4
  <2> QED  BY <1>3, <2>1, <2>2
<1>9. PaneFine'  BY <1>1, <1>2, <1>4, <1>6 DEF PaneFine
<1>10. ShowsTheSelected'  BY <1>1, <1>2, <1>4, <1>5 DEF ShowsTheSelected, MadeBy
<1>11. NextFine' /\ TaskFine' /\ LettersFine'  BY <1>1, <1>2, <1>5 DEF NextFine, TaskFine, LettersFine
<1>12. Timely'  BY <1>1, <1>2, <1>5 DEF Timely, MadeBy
<1> QED  BY <1>8, <1>9, <1>10, <1>11, <1>12 DEF PreviewInv, PreviewTypes

LEMMA PreviewThreadEnds == ASSUME PreviewInv, OnPreviewThread PROVE PreviewInv'
<1>1. PaneFine /\ NextFine /\ TaskFine /\ LettersFine /\ CacheFine /\ Timely /\ ShowsTheSelected
  BY DEF PreviewInv, PreviewTypes
<1>2. letters # <<>> /\ letters' = Tail(letters) /\ next_up' = {} /\ AfterThread
      /\ UNCHANGED <<token, selected, shown, preparing, cache>>
  BY DEF OnPreviewThread
<1>3. letters' \in Seq(Letters) /\ \A i \in 1 .. Len(letters') : MadeBy(letters'[i], token, selected)
  BY <1>1, <1>2, HeadOfLetters
<1>4. PaneFine' /\ NextFine' /\ LettersFine' /\ CacheFine' /\ ShowsTheSelected'
  BY <1>1, <1>2, <1>3 DEF PaneFine, NextFine, LettersFine, CacheFine, ShowsTheSelected
<1>5. task' = {} \/ \E w \in next_up : task' = {[token |-> w.token, file |-> w.file, aborted |-> FALSE, stage |-> "runs"]}
  BY <1>2 DEF AfterThread, StartPreview
<1>6. TaskFine' /\ \A r \in task' : MadeBy(r, token, selected)
  <2>1. CASE task' = {}  BY <2>1 DEF TaskFine
  <2>2. ASSUME NEW w \in next_up, task' = {[token |-> w.token, file |-> w.file, aborted |-> FALSE, stage |-> "runs"]}
        PROVE  TaskFine' /\ \A r \in task' : MadeBy(r, token, selected)
    <3>1. w \in Stamp /\ MadeBy(w, token, selected)  BY <1>1, <2>2 DEF NextFine, Timely
    <3>2. [token |-> w.token, file |-> w.file, aborted |-> FALSE, stage |-> "runs"] \in PreviewJobs
      BY <3>1 DEF Stamp, PreviewJobs
    <3>3. TaskFine'  BY <2>2, <3>2 DEF TaskFine
    <3>4. \A r \in task' : r.token = w.token /\ r.file = w.file  BY <2>2
    <3> QED  BY <3>1, <3>3, <3>4 DEF MadeBy
  <2> QED  BY <1>5, <2>1, <2>2
<1>7. Timely'  BY <1>2, <1>3, <1>6 DEF Timely, MadeBy
<1> QED  BY <1>4, <1>6, <1>7 DEF PreviewInv, PreviewTypes

LEMMA PreviewStep == ASSUME PreviewInv, PreviewNext PROVE PreviewInv'
BY SelectKeeps, JobKeeps, PreviewArrives, PreviewThreadEnds DEF PreviewNext, Computes

LEMMA PreviewStutters == ASSUME PreviewInv, UNCHANGED preview_vars PROVE PreviewInv'
BY DEF PreviewInv, PreviewTypes, PaneFine, NextFine, TaskFine, LettersFine, CacheFine, ShowsTheSelected, Timely,
       MadeBy, preview_vars

-----------------------------------------------------------------------------
(* The link, the identity and the storage. *)

(* The fields of what the window knows, and the values that matter here. *)
Shape(w) ==
  w = [conn |-> w.conn, link |-> w.link, in_flight |-> w.in_flight, link_timer |-> w.link_timer, info |-> w.info,
       storage |-> w.storage, reading |-> w.reading, rerun |-> w.rerun, storage_timer |-> w.storage_timer,
       jobs |-> w.jobs]
Numbers == 1 .. MaxSettings
Fits(link) ==
  /\ link.state \in {"idle", "checking", "connected", "reconnecting", "disconnected"}
  /\ link.failures = CASE link.state = "reconnecting" -> 1 [] link.state = "disconnected" -> 2 [] OTHER -> 0
JobShape(job) == job = [kind |-> job.kind, conn |-> job.conn, current |-> job.current, cancelled |-> job.cancelled]
JobFine(w, job) ==
  /\ JobShape(job) /\ job.kind \in Jobs /\ job.conn \in Settings(job.conn.no)
  /\ job.conn.no \in Numbers /\ job.conn.no <= w.conn.no /\ job.conn.host # NoHost
(* The fields of the storage. *)
Disk(d) == d = [ok |-> d.ok, stale |-> d.stale, of |-> d.of, by |-> d.by]

LinkFine(w) ==
  /\ Shape(w) /\ Fits(w.link) /\ Disk(w.storage) /\ w.conn \in Settings(w.conn.no) /\ w.conn.no \in Numbers
  /\ w.reading \in 0 .. w.conn.no /\ \A job \in w.jobs : JobFine(w, job)

(* Settings without a sensor of their own to ask. *)
Unasked(w) == w.conn.demo \/ w.conn.host = NoHost

(* A job whose token was not raised is for the settings that are saved. *)
OwnLink(w) == \A job \in w.jobs : job.kind = "link" /\ job.current => job.conn.no = w.conn.no
OwnInfo(w) == \A job \in w.jobs : job.kind = "info" /\ job.current => job.conn.no = w.conn.no \/ Unasked(w)
OwnStorage(w) == \A job \in w.jobs : job.kind = "storage" /\ job.current => job.conn.no = w.conn.no \/ Unasked(w)

(* The read for these settings is the one in flight, and the only one that was not cancelled. *)
OneRead(w) ==
  \A job \in w.jobs : job.kind = "storage" /\ job.conn.no = w.conn.no =>
    /\ w.reading = w.conn.no /\ ~Unasked(w) /\ job.current /\ ~job.cancelled
    /\ \A other \in w.jobs \ {job} : other.kind = "storage" => other.cancelled

Current(w) == OwnLink(w) /\ OwnInfo(w) /\ OwnStorage(w) /\ OneRead(w)
LinkInv == alive \in BOOLEAN /\ LinkFine(win) /\ (alive => Current(win))

(* What is shown in v and was not in w is of the settings. *)
ShowsOwn(w, v) ==
  /\ v.conn = w.conn
  /\ v.link = w.link \/ v.conn.demo \/ v.link.by = v.conn.no
  /\ v.info = w.info \/ v.conn.demo \/ v.info.by = v.conn.no
  /\ v.storage = w.storage \/ Unasked(v) \/ v.storage.by = v.conn.no

LEMMA ShowsNothing == ASSUME NEW w PROVE ShowsOwn(w, w)
BY DEF ShowsOwn

LEMMA ShowsMore == ASSUME NEW w, NEW v, NEW u, ShowsOwn(w, v), ShowsOwn(v, u) PROVE ShowsOwn(w, u)
BY DEF ShowsOwn, Unasked

(* Raising a token and cancelling a read change the jobs only. *)
LEMMA OutdateFine ==
  ASSUME NEW w, LinkFine(w), NEW kind \in Jobs
  PROVE  /\ LinkFine(Outdate(w, kind)) /\ ShowsOwn(w, Outdate(w, kind))
         /\ Outdate(w, kind) = [w EXCEPT !.jobs = Outdate(w, kind).jobs]
         /\ \A j \in Outdate(w, kind).jobs : \E k \in w.jobs :
              /\ j.kind = k.kind /\ j.conn = k.conn
              /\ j.kind # kind => j = k
              /\ j.kind = kind => j.current = FALSE
<1> DEFINE v == Outdate(w, kind)
           raised(job) == IF job.kind = kind THEN [job EXCEPT !.current = FALSE] ELSE job
<1>1. Shape(w)  BY DEF LinkFine
<1>2. v = [w EXCEPT !.jobs = {raised(job) : job \in w.jobs}]  BY <1>1 DEF Outdate, Shape
<1>3. v.jobs = {raised(job) : job \in w.jobs}  BY <1>1, <1>2 DEF Shape
<1>4. ASSUME NEW k \in w.jobs
      PROVE  /\ raised(k).kind = k.kind /\ raised(k).conn = k.conn /\ JobShape(raised(k))
             /\ raised(k).kind # kind => raised(k) = k
             /\ raised(k).kind = kind => raised(k).current = FALSE
  <2>1. JobShape(k)  BY DEF LinkFine, JobFine
  <2>2. CASE k.kind = kind
    <3>1. raised(k) = [k EXCEPT !.current = FALSE]  BY <2>2
    <3>2. raised(k) = [kind |-> k.kind, conn |-> k.conn, current |-> FALSE, cancelled |-> k.cancelled]
      BY <2>1, <3>1 DEF JobShape
    <3> QED  BY <2>2, <3>2 DEF JobShape
  <2>3. CASE k.kind # kind  BY <2>1, <2>3
  <2> QED  BY <2>2, <2>3
<1> HIDE DEF raised
<1>5. \A j \in v.jobs : \E k \in w.jobs :
        /\ j.kind = k.kind /\ j.conn = k.conn /\ JobShape(j)
        /\ j.kind # kind => j = k
        /\ j.kind = kind => j.current = FALSE
  BY <1>3, <1>4
<1>6. Shape(v) /\ v.conn = w.conn /\ v.link = w.link /\ v.info = w.info /\ v.storage = w.storage /\ v.reading = w.reading
  BY <1>1, <1>2 DEF Shape
<1>7. v = [w EXCEPT !.jobs = v.jobs]  BY <1>2, <1>3
<1> HIDE DEF v
<1>8. \A j \in v.jobs : JobFine(v, j)
  <2> SUFFICES ASSUME NEW j \in v.jobs PROVE JobFine(v, j)  OBVIOUS
  <2>1. PICK k \in w.jobs : j.kind = k.kind /\ j.conn = k.conn /\ JobShape(j)  BY <1>5
  <2>2. JobFine(w, k)  BY DEF LinkFine
  <2> QED  BY <1>6, <2>1, <2>2 DEF JobFine
<1>9. LinkFine(v)  BY <1>6, <1>8 DEF LinkFine
<1>10. ShowsOwn(w, v)  BY <1>6 DEF ShowsOwn
<1> QED  BY <1>5, <1>7, <1>9, <1>10 DEF v

LEMMA CancelFine ==
  ASSUME NEW w, LinkFine(w)
  PROVE  /\ LinkFine(CancelRead(w)) /\ ShowsOwn(w, CancelRead(w))
         /\ CancelRead(w) = [w EXCEPT !.jobs = CancelRead(w).jobs]
         /\ \A j \in CancelRead(w).jobs : \E k \in w.jobs :
              /\ j.kind = k.kind /\ j.conn = k.conn /\ j.current = k.current
              /\ j.kind # "storage" => j = k
              /\ j.kind = "storage" => j.cancelled = TRUE
<1> DEFINE v == CancelRead(w)
           dropped(job) == IF job.kind = "storage" THEN [job EXCEPT !.cancelled = TRUE] ELSE job
<1>1. Shape(w)  BY DEF LinkFine
<1>2. v = [w EXCEPT !.jobs = {dropped(job) : job \in w.jobs}]  BY <1>1 DEF CancelRead, Shape
<1>3. v.jobs = {dropped(job) : job \in w.jobs}  BY <1>1, <1>2 DEF Shape
<1>4. ASSUME NEW k \in w.jobs
      PROVE  /\ dropped(k).kind = k.kind /\ dropped(k).conn = k.conn /\ dropped(k).current = k.current /\ JobShape(dropped(k))
             /\ dropped(k).kind # "storage" => dropped(k) = k
             /\ dropped(k).kind = "storage" => dropped(k).cancelled = TRUE
  <2>1. JobShape(k)  BY DEF LinkFine, JobFine
  <2>2. CASE k.kind = "storage"
    <3>1. dropped(k) = [k EXCEPT !.cancelled = TRUE]  BY <2>2
    <3>2. dropped(k) = [kind |-> k.kind, conn |-> k.conn, current |-> k.current, cancelled |-> TRUE]
      BY <2>1, <3>1 DEF JobShape
    <3> QED  BY <2>2, <3>2 DEF JobShape
  <2>3. CASE k.kind # "storage"  BY <2>1, <2>3
  <2> QED  BY <2>2, <2>3
<1> HIDE DEF dropped
<1>5. \A j \in v.jobs : \E k \in w.jobs :
        /\ j.kind = k.kind /\ j.conn = k.conn /\ j.current = k.current /\ JobShape(j)
        /\ j.kind # "storage" => j = k
        /\ j.kind = "storage" => j.cancelled = TRUE
  BY <1>3, <1>4
<1>6. Shape(v) /\ v.conn = w.conn /\ v.link = w.link /\ v.info = w.info /\ v.storage = w.storage /\ v.reading = w.reading
  BY <1>1, <1>2 DEF Shape
<1>7. v = [w EXCEPT !.jobs = v.jobs]  BY <1>2, <1>3
<1> HIDE DEF v
<1>8. \A j \in v.jobs : JobFine(v, j)
  <2> SUFFICES ASSUME NEW j \in v.jobs PROVE JobFine(v, j)  OBVIOUS
  <2>1. PICK k \in w.jobs : j.kind = k.kind /\ j.conn = k.conn /\ JobShape(j)  BY <1>5
  <2>2. JobFine(w, k)  BY DEF LinkFine
  <2> QED  BY <1>6, <2>1, <2>2 DEF JobFine
<1>9. LinkFine(v)  BY <1>6, <1>8 DEF LinkFine
<1>10. ShowsOwn(w, v)  BY <1>6 DEF ShowsOwn
<1> QED  BY <1>5, <1>7, <1>9, <1>10 DEF v

(* A read that is out for these settings is not repeated.  Fresh: the next RefreshStorage sees to it
   that the jobs whose token was not raised are for these settings.                                *)
Fresh(w) == OwnStorage(w) \/ w.reading # w.conn.no

(* What every handler keeps to. *)
Keeps(w, v) ==
  /\ LinkFine(v) /\ ShowsOwn(w, v)
  /\ OwnLink(w) => OwnLink(v)
  /\ OwnInfo(w) => OwnInfo(v)
  /\ OwnStorage(w) => OwnStorage(v)
  /\ OneRead(w) => OneRead(v)
  /\ Fresh(w) => Fresh(v)

LEMMA KeepsMore == ASSUME NEW w, NEW v, NEW u, Keeps(w, v), Keeps(v, u) PROVE Keeps(w, u)
BY ShowsMore DEF Keeps

LEMMA KeepsJobs ==
  ASSUME NEW w, LinkFine(w), NEW v, Shape(v), Fits(v.link), Disk(v.storage), ShowsOwn(w, v), v.jobs = w.jobs, v.reading = w.reading
  PROVE  Keeps(w, v)
<1>1. v.conn = w.conn  BY DEF ShowsOwn
<1>2. LinkFine(v)  BY <1>1 DEF LinkFine, JobFine
<1> QED  BY <1>1, <1>2 DEF Keeps, OwnLink, OwnInfo, OwnStorage, OneRead, Fresh, Unasked

LEMMA JobIsNew ==
  ASSUME NEW w, NEW kind
  PROVE  /\ Job(w, kind).kind = kind /\ Job(w, kind).conn = w.conn
         /\ Job(w, kind).current = TRUE /\ Job(w, kind).cancelled = FALSE
BY DEF Job

LEMMA JobStarts ==
  ASSUME NEW w, LinkFine(w), HasHost(w), NEW kind \in Jobs
  PROVE  /\ LinkFine(StartJob(w, kind)) /\ ShowsOwn(w, StartJob(w, kind))
         /\ StartJob(w, kind).jobs = w.jobs \cup {Job(w, kind)} /\ StartJob(w, kind).reading = w.reading
<1> DEFINE v == StartJob(w, kind)
           new == Job(w, kind)
<1>1. Shape(w)  BY DEF LinkFine
<1>2. v = [w EXCEPT !.jobs = @ \cup {new}]  BY DEF StartJob
<1>3. Shape(v) /\ v.conn = w.conn /\ v.link = w.link /\ v.info = w.info /\ v.storage = w.storage /\ v.reading = w.reading
      /\ v.jobs = w.jobs \cup {new}
  <2> HIDE DEF new
  <2> QED  BY <1>1, <1>2 DEF Shape
<1>4. new.kind = kind /\ new.conn = w.conn /\ new.current = TRUE /\ new.cancelled = FALSE /\ JobShape(new)
  BY DEF Job, JobShape
<1> HIDE DEF v, new
<1>5. JobFine(v, new)
  <2>1. w.conn \in Settings(w.conn.no) /\ w.conn.no \in Numbers /\ w.conn.host # NoHost  BY DEF LinkFine, HasHost
  <2>2. w.conn.no <= w.conn.no  BY <2>1 DEF Numbers
  <2> QED  BY <1>3, <1>4, <2>1, <2>2 DEF JobFine
<1>6. \A j \in v.jobs : JobFine(v, j)  BY <1>3, <1>5 DEF LinkFine, JobFine
<1>7. LinkFine(v)  BY <1>3, <1>6 DEF LinkFine
<1>8. ShowsOwn(w, v)  BY <1>3 DEF ShowsOwn
<1> QED  BY <1>3, <1>4, <1>7, <1>8 DEF v, new

LEMMA StorageRefreshed ==
  ASSUME NEW w, LinkFine(w)
  PROVE  Keeps(w, RefreshStorage(w)) /\ (Fresh(w) => OwnStorage(RefreshStorage(w)))
<1> DEFINE v == RefreshStorage(w)
<1>1. Shape(w) /\ Fits(w.link) /\ Disk(w.storage)  BY DEF LinkFine
<1>2. CASE ~HasHost(w)
  <2>1. v = [w EXCEPT !.storage_timer = FALSE, !.storage = Unavailable(w)]  BY <1>2 DEF RefreshStorage
  <2>2. Shape(v) /\ v.conn = w.conn /\ v.link = w.link /\ v.info = w.info /\ v.jobs = w.jobs /\ v.reading = w.reading
    BY <1>1, <2>1 DEF Shape
  <2>3. Unasked(v)  BY <1>2, <2>2 DEF Unasked, HasHost
  <2>4. ShowsOwn(w, v)  BY <2>2, <2>3 DEF ShowsOwn
  <2>7. v.storage = Unavailable(w)  BY <1>1, <2>1 DEF Shape
  <2>8. Disk(v.storage)  BY <2>7 DEF Unavailable, Disk
  <2>5. Keeps(w, v)  BY <1>1, <2>2, <2>4, <2>8, KeepsJobs
  <2>6. OwnStorage(v)  BY <2>3 DEF OwnStorage
  <2> QED  BY <2>5, <2>6
<1>3. CASE HasHost(w) /\ w.conn.demo
  <2>1. v = [w EXCEPT !.storage_timer = TRUE, !.storage = Reading(w)]  BY <1>3 DEF RefreshStorage
  <2>2. Shape(v) /\ v.conn = w.conn /\ v.link = w.link /\ v.info = w.info /\ v.jobs = w.jobs /\ v.reading = w.reading
    BY <1>1, <2>1 DEF Shape
  <2>3. Unasked(v)  BY <1>3, <2>2 DEF Unasked
  <2>4. ShowsOwn(w, v)  BY <2>2, <2>3 DEF ShowsOwn
  <2>7. v.storage = Reading(w)  BY <1>1, <2>1 DEF Shape
  <2>8. Disk(v.storage)  BY <2>7 DEF Reading, Disk
  <2>5. Keeps(w, v)  BY <1>1, <2>2, <2>4, <2>8, KeepsJobs
  <2>6. OwnStorage(v)  BY <2>3 DEF OwnStorage
  <2> QED  BY <2>5, <2>6
<1>4. CASE HasHost(w) /\ ~w.conn.demo /\ w.reading = w.conn.no
  <2>1. v = [w EXCEPT !.storage_timer = TRUE, !.rerun = TRUE]  BY <1>4 DEF RefreshStorage
  <2>2. Shape(v) /\ v.conn = w.conn /\ v.link = w.link /\ v.info = w.info /\ v.jobs = w.jobs /\ v.reading = w.reading
        /\ v.storage = w.storage
    BY <1>1, <2>1 DEF Shape
  <2>3. ShowsOwn(w, v)  BY <2>2 DEF ShowsOwn
  <2>4. Keeps(w, v)  BY <1>1, <2>2, <2>3, KeepsJobs
  <2>5. Fresh(w) => OwnStorage(v)  BY <1>4, <2>4 DEF Fresh, Keeps
  <2> QED  BY <2>4, <2>5
<1>5. CASE HasHost(w) /\ ~w.conn.demo /\ w.reading # w.conn.no
  <2> DEFINE a == Outdate(w, "storage")
             b == CancelRead(a)
             c == [b EXCEPT !.storage_timer = TRUE, !.reading = w.conn.no, !.rerun = FALSE]
             new == Job(c, "storage")
  <2>1. v = StartJob(c, "storage")  BY <1>5 DEF RefreshStorage
  <2>2. "storage" \in Jobs  BY DEF Jobs
  <2>3. LinkFine(a) /\ ShowsOwn(w, a)
        /\ \A j \in a.jobs : \E k \in w.jobs :
             /\ j.kind = k.kind /\ j.conn = k.conn
             /\ j.kind # "storage" => j = k
             /\ j.kind = "storage" => j.current = FALSE
    BY <2>2, OutdateFine
  <2> HIDE DEF a
  <2>4. LinkFine(b) /\ ShowsOwn(a, b)
        /\ \A j \in b.jobs : \E k \in a.jobs :
             /\ j.kind = k.kind /\ j.conn = k.conn /\ j.current = k.current
             /\ j.kind # "storage" => j = k
             /\ j.kind = "storage" => j.cancelled = TRUE
    BY <2>3, CancelFine
  <2> HIDE DEF b
  <2>5. b.conn = w.conn /\ Shape(b) /\ b.link \in {b.link} /\ Fits(b.link)  BY <2>3, <2>4 DEF ShowsOwn, LinkFine
  <2>6. Shape(c) /\ c.conn = b.conn /\ c.link = b.link /\ c.info = b.info /\ c.storage = b.storage /\ c.jobs = b.jobs
        /\ c.reading = w.conn.no
    <3> DEFINE no == w.conn.no
    <3>1. Shape(b)  BY <2>5
    <3>2. c = [b EXCEPT !.storage_timer = TRUE, !.reading = no, !.rerun = FALSE]  OBVIOUS
    <3> HIDE DEF c, v, new, no
    <3>3. Shape(c)  BY <3>1, <3>2 DEF Shape
    <3>4. c.conn = b.conn /\ c.link = b.link /\ c.info = b.info /\ c.storage = b.storage /\ c.jobs = b.jobs
      BY <3>1, <3>2 DEF Shape
    <3>5. c.reading = no  BY <3>1, <3>2 DEF Shape
    <3> QED  BY <3>3, <3>4, <3>5 DEF no
  <2>7. w.conn.no \in 0 .. w.conn.no  BY DEF LinkFine, Numbers
  <2> HIDE DEF c
  <2>8. LinkFine(c)  BY <2>4, <2>5, <2>6, <2>7 DEF LinkFine, JobFine
  <2>9. ShowsOwn(w, c)
    <3>1. ShowsOwn(b, c)  BY <2>6 DEF ShowsOwn
    <3>2. ShowsOwn(w, b)  BY <2>3, <2>4, ShowsMore
    <3> QED  BY <3>1, <3>2, ShowsMore
  <2>10. HasHost(c)  BY <1>5, <2>5, <2>6 DEF HasHost
  <2>11. /\ LinkFine(v) /\ ShowsOwn(c, v) /\ v.jobs = c.jobs \cup {new} /\ v.reading = w.conn.no
         /\ new.kind = "storage" /\ new.conn = w.conn /\ new.current = TRUE /\ new.cancelled = FALSE
    <3>1. /\ LinkFine(StartJob(c, "storage")) /\ ShowsOwn(c, StartJob(c, "storage"))
          /\ StartJob(c, "storage").jobs = c.jobs \cup {new} /\ StartJob(c, "storage").reading = c.reading
          /\ new.kind = "storage" /\ new.conn = c.conn /\ new.current = TRUE /\ new.cancelled = FALSE
      <4>1. /\ LinkFine(StartJob(c, "storage")) /\ ShowsOwn(c, StartJob(c, "storage"))
            /\ StartJob(c, "storage").jobs = c.jobs \cup {new} /\ StartJob(c, "storage").reading = c.reading
        BY <2>2, <2>8, <2>10, JobStarts
      <4>2. new.kind = "storage" /\ new.conn = c.conn /\ new.current = TRUE /\ new.cancelled = FALSE
        BY JobIsNew, Zenon
      <4> QED  BY <4>1, <4>2, Zenon
    <3> HIDE DEF v, new
    <3> QED  BY <2>1, <2>5, <2>6, <3>1
  <2>12. ShowsOwn(w, v)  BY <2>9, <2>11, ShowsMore
  <2> HIDE DEF v, new
  <2>13. \A j \in v.jobs : j = new \/ \E k \in w.jobs :
           /\ j.kind = k.kind /\ j.conn = k.conn
           /\ j.kind # "storage" => j = k
           /\ j.kind = "storage" => j.current = FALSE /\ j.cancelled = TRUE
    BY <2>3, <2>4, <2>6, <2>11
  <2>14. v.conn = w.conn  BY <2>12 DEF ShowsOwn
  <2>15. OwnLink(w) => OwnLink(v)  BY <2>11, <2>13, <2>14 DEF OwnLink
  <2>16. OwnInfo(w) => OwnInfo(v)  BY <2>11, <2>13, <2>14 DEF OwnInfo, Unasked
  <2>17. OwnStorage(v)  BY <2>11, <2>13, <2>14 DEF OwnStorage
  <2>18. OneRead(w) => OneRead(v)
    <3> SUFFICES ASSUME OneRead(w), NEW job \in v.jobs, job.kind = "storage", job.conn.no = v.conn.no
                 PROVE  /\ v.reading = v.conn.no /\ ~Unasked(v) /\ job.current /\ ~job.cancelled
                        /\ \A other \in v.jobs \ {job} : other.kind = "storage" => other.cancelled
      BY DEF OneRead
    <3>1. ASSUME job # new PROVE FALSE
      <4>1. PICK k \in w.jobs : job.kind = k.kind /\ job.conn = k.conn  BY <2>13, <3>1
      <4>2. w.reading = w.conn.no  BY <2>14, <4>1 DEF OneRead
      <4> QED  BY <1>5, <4>2
    <3>2. job = new  BY <3>1
    <3>3. \A other \in v.jobs \ {job} : other.kind = "storage" => other.cancelled = TRUE  BY <2>13, <3>2
    <3>4. ~Unasked(v)  BY <1>5, <2>14 DEF Unasked, HasHost
    <3> QED  BY <2>11, <2>14, <3>2, <3>3, <3>4
  <2> QED  BY <2>11, <2>12, <2>15, <2>16, <2>17, <2>18 DEF Keeps, Fresh, v
<1> QED  BY <1>2, <1>3, <1>4, <1>5

(* What a handler that raises another token than that of the storage keeps to. *)
LEMMA OutdateKeeps ==
  ASSUME NEW w, LinkFine(w), NEW kind \in {"link", "info"}
  PROVE  /\ Keeps(w, Outdate(w, kind))
         /\ kind = "link" => OwnLink(Outdate(w, kind))
         /\ kind = "info" => OwnInfo(Outdate(w, kind))
<1> DEFINE v == Outdate(w, kind)
<1>1. kind \in Jobs /\ kind # "storage"  BY DEF Jobs
<1>2. LinkFine(v) /\ ShowsOwn(w, v) /\ v = [w EXCEPT !.jobs = v.jobs]
      /\ \A j \in v.jobs : \E k \in w.jobs :
           /\ j.kind = k.kind /\ j.conn = k.conn
           /\ j.kind # kind => j = k
           /\ j.kind = kind => j.current = FALSE
  BY <1>1, OutdateFine
<1> HIDE DEF v
<1>3. v.conn = w.conn  BY <1>2 DEF ShowsOwn
<1>4. v.reading = w.reading  BY <1>2 DEF LinkFine, Shape
<1>5. OwnLink(w) => OwnLink(v)  BY <1>2, <1>3 DEF OwnLink
<1>6. OwnInfo(w) => OwnInfo(v)  BY <1>2, <1>3 DEF OwnInfo, Unasked
<1>7. OwnStorage(w) => OwnStorage(v)  BY <1>1, <1>2, <1>3 DEF OwnStorage, Unasked
<1>8. OneRead(w) => OneRead(v)
  <2> SUFFICES ASSUME OneRead(w), NEW job \in v.jobs, job.kind = "storage", job.conn.no = v.conn.no
               PROVE  /\ v.reading = v.conn.no /\ ~Unasked(v) /\ job.current /\ ~job.cancelled
                      /\ \A other \in v.jobs \ {job} : other.kind = "storage" => other.cancelled
    BY DEF OneRead
  <2>1. \A j \in v.jobs : j.kind = "storage" => j \in w.jobs  BY <1>1, <1>2
  <2>2. job \in w.jobs /\ job.conn.no = w.conn.no  BY <1>3, <2>1
  <2>3. w.reading = w.conn.no /\ ~Unasked(w) /\ job.current /\ ~job.cancelled
        /\ \A other \in w.jobs \ {job} : other.kind = "storage" => other.cancelled
    BY <2>2 DEF OneRead
  <2>4. ~Unasked(v)  BY <1>3, <2>3 DEF Unasked
  <2> QED  BY <1>3, <1>4, <2>1, <2>3, <2>4
<1>9. Fresh(w) => Fresh(v)  BY <1>3, <1>4, <1>7 DEF Fresh
<1>10. kind = "link" => OwnLink(v)  BY <1>2 DEF OwnLink
<1>11. kind = "info" => OwnInfo(v)  BY <1>2 DEF OwnInfo
<1> QED  BY <1>2, <1>5, <1>6, <1>7, <1>8, <1>9, <1>10, <1>11 DEF Keeps, v

LEMMA StartKeeps ==
  ASSUME NEW w, LinkFine(w), HasHost(w), NEW kind \in {"link", "info"}
  PROVE  Keeps(w, StartJob(w, kind))
<1> DEFINE v == StartJob(w, kind)
           new == Job(w, kind)
<1>1. kind \in Jobs /\ kind # "storage"  BY DEF Jobs
<1>a. LinkFine(v) /\ ShowsOwn(w, v) /\ v.jobs = w.jobs \cup {new} /\ v.reading = w.reading
  BY <1>1, JobStarts
<1>b. new.kind = kind /\ new.conn = w.conn
  BY JobIsNew
<1>2. LinkFine(v) /\ ShowsOwn(w, v) /\ v.jobs = w.jobs \cup {new} /\ v.reading = w.reading
      /\ new.kind = kind /\ new.conn = w.conn
  BY <1>a, <1>b
<1> HIDE DEF v, new
<1>3. v.conn = w.conn  BY <1>2 DEF ShowsOwn
<1>4. OwnLink(w) => OwnLink(v)  BY <1>2, <1>3 DEF OwnLink
<1>5. OwnInfo(w) => OwnInfo(v)  BY <1>2, <1>3 DEF OwnInfo, Unasked
<1>6. OwnStorage(w) => OwnStorage(v)  BY <1>1, <1>2, <1>3 DEF OwnStorage, Unasked
<1>7. OneRead(w) => OneRead(v)  BY <1>1, <1>2, <1>3 DEF OneRead, Unasked
<1>8. Fresh(w) => Fresh(v)  BY <1>2, <1>3, <1>6 DEF Fresh
<1> QED  BY <1>2, <1>4, <1>5, <1>6, <1>7, <1>8 DEF Keeps, v

(* The answer to an identity request of these settings. *)
LEMMA InfoApplied ==
  ASSUME NEW w, LinkFine(w), NEW conn, conn.no = w.conn.no \/ w.conn.demo, NEW connected \in BOOLEAN
  PROVE  Keeps(w, ApplyInfo(w, conn, connected))
<1> DEFINE info == [by |-> conn.no, connected |-> connected]
           noted == [w EXCEPT !.info = info]
<1>1. Shape(w) /\ Fits(w.link) /\ Disk(w.storage)  BY DEF LinkFine
<1>2. info.by = conn.no  OBVIOUS
<1> HIDE DEF info
<1>3. Shape(noted) /\ noted.conn = w.conn /\ noted.link = w.link /\ noted.info = info /\ noted.storage = w.storage
      /\ noted.jobs = w.jobs /\ noted.reading = w.reading
  BY <1>1 DEF Shape
<1>4. ShowsOwn(w, noted)  BY <1>2, <1>3 DEF ShowsOwn
<1>5. Keeps(w, noted)  BY <1>1, <1>3, <1>4, KeepsJobs
<1>6. ApplyInfo(w, conn, connected) =
        IF connected THEN RefreshStorage([noted EXCEPT !.link = NoteSuccess(@, conn)])
        ELSE IF ~HasHost(w) THEN [noted EXCEPT !.link = ResetLink(w.conn)] ELSE noted
  BY DEF ApplyInfo, info
<1> HIDE DEF noted
<1>7. CASE connected
  <2> DEFINE v == [noted EXCEPT !.link = NoteSuccess(@, conn)]
             link == NoteSuccess(noted.link, conn)
  <2>1. v = [noted EXCEPT !.link = link]  OBVIOUS
  <2>2. Fits(link) /\ link.by = conn.no  BY DEF NoteSuccess, Fits
  <2> HIDE DEF link, v
  <2>3. Shape(v) /\ v.conn = w.conn /\ v.link = link /\ v.info = noted.info /\ v.storage = noted.storage
        /\ v.jobs = w.jobs /\ v.reading = w.reading
    BY <1>3, <2>1 DEF Shape
  <2>4. ShowsOwn(noted, v)  BY <1>3, <2>2, <2>3 DEF ShowsOwn
  <2>5. Keeps(w, v)
    <3>1. ShowsOwn(w, v)  BY <1>4, <2>4, ShowsMore
    <3> QED  BY <1>1, <1>3, <2>2, <2>3, <3>1, KeepsJobs
  <2>6. Keeps(v, RefreshStorage(v))  BY <2>5, StorageRefreshed DEF Keeps
  <2>7. Keeps(w, RefreshStorage(v))  BY <2>5, <2>6, KeepsMore
  <2> QED  BY <1>6, <1>7, <2>7 DEF v
<1>8. CASE ~connected /\ ~HasHost(w)
  <2> DEFINE v == [noted EXCEPT !.link = ResetLink(w.conn)]
             link == ResetLink(w.conn)
  <2>1. v = [noted EXCEPT !.link = link]  OBVIOUS
  <2>2. Fits(link) /\ link.by = w.conn.no  BY DEF ResetLink, Fits
  <2> HIDE DEF link, v
  <2>3. Shape(v) /\ v.conn = w.conn /\ v.link = link /\ v.info = noted.info /\ v.storage = noted.storage
        /\ v.jobs = w.jobs /\ v.reading = w.reading
    BY <1>3, <2>1 DEF Shape
  <2>4. ShowsOwn(noted, v)  BY <1>3, <2>2, <2>3 DEF ShowsOwn
  <2>5. Keeps(w, v)
    <3>1. ShowsOwn(w, v)  BY <1>4, <2>4, ShowsMore
    <3> QED  BY <1>1, <1>3, <2>2, <2>3, <3>1, KeepsJobs
  <2> QED  BY <1>6, <1>8, <2>5 DEF v
<1>9. CASE ~connected /\ HasHost(w)  BY <1>5, <1>6, <1>9
<1> QED  BY <1>7, <1>8, <1>9

LEMMA InfoRefreshed ==
  ASSUME NEW w, LinkFine(w)
  PROVE  Keeps(w, RefreshInfo(w)) /\ OwnInfo(RefreshInfo(w))
<1> DEFINE v == RefreshInfo(w)
<1>1. ASSUME Keeps(w, v), Unasked(w) PROVE OwnInfo(v)
  <2> HIDE DEF v
  <2>1. v.conn = w.conn  BY <1>1 DEF Keeps, ShowsOwn
  <2> QED  BY <1>1, <2>1 DEF OwnInfo, Unasked
<1>2. CASE ~HasHost(w)
  <2>1. v = ApplyInfo(w, w.conn, FALSE)  BY <1>2 DEF RefreshInfo
  <2>2. Keeps(w, v)  BY <2>1, InfoApplied
  <2> QED  BY <1>1, <1>2, <2>2 DEF Unasked, HasHost
<1>3. CASE HasHost(w) /\ w.conn.demo
  <2>1. v = ApplyInfo(w, w.conn, TRUE)  BY <1>3 DEF RefreshInfo
  <2>2. Keeps(w, v)  BY <2>1, InfoApplied
  <2> QED  BY <1>1, <1>3, <2>2 DEF Unasked
<1> DEFINE a == Outdate(w, "info")
<1>4. Keeps(w, a) /\ OwnInfo(a)  BY OutdateKeeps
<1>5. LinkFine(a) /\ a.conn = w.conn  BY <1>4 DEF Keeps, ShowsOwn
<1>6. CASE HasHost(w) /\ ~w.conn.demo /\ w.conn.host \in Invalid
  <2>1. v = ApplyInfo(a, w.conn, FALSE)  BY <1>6 DEF RefreshInfo
  <2> HIDE DEF a, v
  <2>2. Keeps(a, v)  BY <1>5, <2>1, InfoApplied
  <2>3. Keeps(w, v)  BY <1>4, <2>2, KeepsMore
  <2> QED  BY <1>4, <2>2, <2>3 DEF Keeps, v
<1>7. CASE HasHost(w) /\ ~w.conn.demo /\ w.conn.host \notin Invalid
  <2>1. v = StartJob(a, "info")  BY <1>7 DEF RefreshInfo
  <2> HIDE DEF a, v
  <2>2. HasHost(a)  BY <1>5, <1>7 DEF HasHost
  <2>3. Keeps(a, v)  BY <1>5, <2>1, <2>2, StartKeeps
  <2>4. Keeps(w, v)  BY <1>4, <2>3, KeepsMore
  <2> QED  BY <1>4, <2>3, <2>4 DEF Keeps, v
<1> QED  BY <1>2, <1>3, <1>6, <1>7

(* The answer to a check of the link of these settings. *)
LEMMA LinkApplied ==
  ASSUME NEW w, LinkFine(w), NEW conn, conn.no = w.conn.no \/ w.conn.demo, NEW ok \in BOOLEAN
  PROVE  Keeps(w, ApplyLink(w, conn, ok))
<1> DEFINE link == IF ok THEN NoteSuccess(w.link, conn) ELSE NoteFailure(w.link, conn)
           noted == [w EXCEPT !.in_flight = FALSE, !.link = IF ok THEN NoteSuccess(@, conn) ELSE NoteFailure(@, conn)]
<1>1. Shape(w) /\ Fits(w.link) /\ Disk(w.storage)  BY DEF LinkFine
<1>2. Fits(link) /\ link.by = conn.no
  <2>1. CASE ok  BY <2>1 DEF NoteSuccess, Fits
  <2>2. CASE ~ok /\ w.link.failures = 0  BY <2>2 DEF NoteFailure, Fits
  <2>3. CASE ~ok /\ w.link.failures # 0  BY <2>3 DEF NoteFailure, Fits
  <2> QED  BY <2>1, <2>2, <2>3
<1>3. noted = [w EXCEPT !.in_flight = FALSE, !.link = link]  OBVIOUS
<1>4. ApplyLink(w, conn, ok) = IF ok /\ w.link.state # "connected" THEN RefreshStorage(RefreshInfo(noted)) ELSE noted
  BY DEF ApplyLink
<1> HIDE DEF link, noted
<1>5. Shape(noted) /\ noted.conn = w.conn /\ noted.link = link /\ noted.info = w.info /\ noted.storage = w.storage
      /\ noted.jobs = w.jobs /\ noted.reading = w.reading
  BY <1>1, <1>3 DEF Shape
<1>6. ShowsOwn(w, noted)  BY <1>2, <1>5 DEF ShowsOwn
<1>7. Keeps(w, noted)  BY <1>1, <1>2, <1>5, <1>6, KeepsJobs
<1>8. Keeps(noted, RefreshInfo(noted))  BY <1>7, InfoRefreshed DEF Keeps
<1>9. Keeps(RefreshInfo(noted), RefreshStorage(RefreshInfo(noted)))  BY <1>8, StorageRefreshed DEF Keeps
<1>10. Keeps(w, RefreshStorage(RefreshInfo(noted)))  BY <1>7, <1>8, <1>9, KeepsMore
<1> QED  BY <1>4, <1>7, <1>10

LEMMA CheckStarts ==
  ASSUME NEW w, LinkFine(w), NEW force \in BOOLEAN
  PROVE  Keeps(w, StartLinkCheck(w, force))
<1> DEFINE v == StartLinkCheck(w, force)
<1>1. Shape(w) /\ Fits(w.link) /\ Disk(w.storage)  BY DEF LinkFine
<1>2. CASE (w.in_flight /\ ~force) \/ ~HasHost(w)
  <2>1. v = w  BY <1>2 DEF StartLinkCheck
  <2> QED  BY <1>1, <2>1, KeepsJobs, ShowsNothing
<1>3. CASE ~((w.in_flight /\ ~force) \/ ~HasHost(w)) /\ w.conn.host \in Invalid
  <2>1. v = ApplyLink(w, w.conn, FALSE)  BY <1>3 DEF StartLinkCheck
  <2> QED  BY <2>1, LinkApplied
<1>4. CASE ~((w.in_flight /\ ~force) \/ ~HasHost(w)) /\ w.conn.host \notin Invalid
  <2> DEFINE flag == TRUE
             a == [w EXCEPT !.in_flight = flag]
  <2>1. v = StartJob(a, "link")  BY <1>4 DEF StartLinkCheck
  <2> HIDE DEF flag
  <2>2. Shape(a) /\ a.conn = w.conn /\ a.link = w.link /\ a.info = w.info /\ a.storage = w.storage
        /\ a.jobs = w.jobs /\ a.reading = w.reading
    BY <1>1 DEF Shape
  <2> HIDE DEF a
  <2>3. Keeps(w, a)
    <3>1. ShowsOwn(w, a)  BY <2>2 DEF ShowsOwn
    <3> QED  BY <1>1, <2>2, <3>1, KeepsJobs
  <2>4. LinkFine(a) /\ HasHost(a)  BY <1>4, <2>2, <2>3 DEF Keeps, HasHost
  <2>5. Keeps(a, v)  BY <2>1, <2>4, StartKeeps
  <2> QED  BY <2>3, <2>5, KeepsMore
<1> QED  BY <1>2, <1>3, <1>4

LEMMA MonitorRestarts ==
  ASSUME NEW w, LinkFine(w)
  PROVE  Keeps(w, RestartLinkMonitor(w)) /\ OwnLink(RestartLinkMonitor(w))
<1> DEFINE a == Outdate(w, "link")
           reset == [a EXCEPT !.in_flight = FALSE, !.link = ResetLink(w.conn), !.link_timer = HasHost(w)]
           link == ResetLink(w.conn)
           timer == HasHost(w)
<1>1. Keeps(w, a) /\ OwnLink(a)  BY OutdateKeeps
<1>2. RestartLinkMonitor(w) = IF HasHost(w) THEN StartLinkCheck(reset, TRUE) ELSE reset  BY DEF RestartLinkMonitor
<1>3. Fits(link) /\ link.by = w.conn.no  BY DEF ResetLink, Fits
<1>4. reset = [a EXCEPT !.in_flight = FALSE, !.link = link, !.link_timer = timer]  OBVIOUS
<1> HIDE DEF a, reset, link, timer
<1>5. LinkFine(a) /\ Disk(a.storage) /\ a.conn = w.conn  BY <1>1 DEF Keeps, ShowsOwn, LinkFine
<1>6. Shape(reset) /\ reset.conn = a.conn /\ reset.link = link /\ reset.info = a.info /\ reset.storage = a.storage
      /\ reset.jobs = a.jobs /\ reset.reading = a.reading
  BY <1>4, <1>5 DEF LinkFine, Shape
<1>7. ShowsOwn(a, reset)  BY <1>3, <1>5, <1>6 DEF ShowsOwn
<1>8. Keeps(a, reset)  BY <1>3, <1>5, <1>6, <1>7, KeepsJobs
<1>9. Keeps(w, reset) /\ OwnLink(reset)  BY <1>1, <1>8, KeepsMore DEF Keeps
<1>10. Keeps(reset, StartLinkCheck(reset, TRUE))  BY <1>9, CheckStarts DEF Keeps
<1>11. Keeps(w, StartLinkCheck(reset, TRUE)) /\ OwnLink(StartLinkCheck(reset, TRUE))
  <2>1. Keeps(w, StartLinkCheck(reset, TRUE))  BY <1>9, <1>10, KeepsMore
  <2> QED  BY <2>1, <1>9, <1>10 DEF Keeps
<1> QED  BY <1>2, <1>9, <1>11

-----------------------------------------------------------------------------
(* The handlers. *)

(* What a step shows. *)
StepShows ==
  /\ win'.link # win.link => alive /\ (win'.conn.demo \/ win'.link.by = win'.conn.no)
  /\ win'.info # win.info => alive /\ (win'.conn.demo \/ win'.info.by = win'.conn.no)
  /\ win'.storage # win.storage =>
       alive /\ (win'.conn.demo \/ win'.conn.host = NoHost \/ win'.storage.by = win'.conn.no)

LEMMA CurrentKept == ASSUME NEW w, NEW v, Keeps(w, v), Current(w) PROVE Current(v)
BY DEF Keeps, Current

(* A step of the open window that goes on from w, where w shows what the window shows. *)
LEMMA LinkGoesOn ==
  ASSUME LinkInv, alive, UNCHANGED alive, NEW w, Keeps(w, win'), Current(win'),
         w.link = win.link, w.info = win.info, w.storage = win.storage
  PROVE  LinkInv' /\ StepShows
<1>1. LinkFine(win') /\ ShowsOwn(w, win')  BY DEF Keeps
<1>2. StepShows  BY <1>1 DEF ShowsOwn, StepShows, Unasked
<1>3. alive' \in BOOLEAN  BY DEF LinkInv
<1>4. LinkInv'  BY <1>1, <1>3 DEF LinkInv
<1> QED  BY <1>2, <1>4

LEMMA LinkStarts == ASSUME LinkInit PROVE LinkInv
<1>1. PICK conn \in Settings(1) : win = RestartLinkMonitor(RefreshStorage(RefreshInfo(Blank(conn))))  BY DEF LinkInit
<1> DEFINE w == Blank(conn)
<1>2. conn.no = 1  BY DEF Settings
<1>3. LinkFine(w) /\ w.jobs = {}
  <2>1. Shape(w) /\ w.conn = conn /\ w.jobs = {} /\ w.reading = 0  BY DEF Blank, Shape
  <2>2. Fits(w.link)  BY DEF Blank, Fits
  <2>3. Disk(w.storage)  BY DEF Blank, Disk
  <2>4. 1 \in Numbers /\ 0 \in 0 .. 1  BY LinkAssumption DEF Numbers
  <2> HIDE DEF w
  <2> QED  BY <1>2, <2>1, <2>2, <2>3, <2>4 DEF LinkFine
<1> HIDE DEF w
<1>4. Current(w)  BY <1>3 DEF Current, OwnLink, OwnInfo, OwnStorage, OneRead
<1> DEFINE a == RefreshInfo(w)
           b == RefreshStorage(a)
           c == RestartLinkMonitor(b)
<1>5. Keeps(w, a)  BY <1>3, InfoRefreshed
<1> HIDE DEF a
<1>6. Keeps(a, b)  BY <1>5, StorageRefreshed DEF Keeps
<1> HIDE DEF b
<1>7. Keeps(b, c)  BY <1>6, MonitorRestarts DEF Keeps
<1> HIDE DEF c
<1>8. Current(c) /\ LinkFine(c)  BY <1>4, <1>5, <1>6, <1>7, CurrentKept DEF Keeps
<1>9. win = c  BY <1>1 DEF a, b, c, w
<1>10. alive = TRUE  BY DEF LinkInit
<1>11. alive \in BOOLEAN  BY <1>10
<1> QED  BY <1>8, <1>9, <1>11 DEF LinkInv

LEMMA SaveLinks == ASSUME LinkInv, SaveSettings PROVE LinkInv' /\ StepShows
<1>1. PICK conn \in Settings(win.conn.no + 1) :
        win' = RefreshStorage(RefreshInfo(RestartLinkMonitor([win EXCEPT !.conn = conn])))
  BY DEF SaveSettings
<1>2. alive /\ UNCHANGED alive /\ win.conn.no < MaxSettings  BY DEF SaveSettings
<1> DEFINE w == [win EXCEPT !.conn = conn]
<1>3. LinkFine(win)  BY DEF LinkInv
<1>4. conn.no = win.conn.no + 1  BY DEF Settings
<1>5. conn.no \in Numbers /\ win.conn.no \in Numbers  BY <1>2, <1>3, <1>4, LinkAssumption DEF LinkFine, Numbers
<1>6. Shape(w) /\ w.conn = conn /\ w.link = win.link /\ w.info = win.info /\ w.storage = win.storage
      /\ w.jobs = win.jobs /\ w.reading = win.reading
  BY <1>3 DEF LinkFine, Shape
<1> HIDE DEF w
<1>7. \A job \in w.jobs : JobFine(w, job) /\ job.conn.no # w.conn.no
  <2> SUFFICES ASSUME NEW job \in w.jobs PROVE JobFine(w, job) /\ job.conn.no # w.conn.no  OBVIOUS
  <2>1. JobFine(win, job)  BY <1>3, <1>6 DEF LinkFine
  <2>2. job.conn.no \in Numbers /\ job.conn.no <= win.conn.no  BY <2>1 DEF JobFine
  <2>3. job.conn.no <= conn.no /\ job.conn.no # conn.no  BY <1>4, <1>5, <2>2 DEF Numbers
  <2> QED  BY <1>6, <2>1, <2>3 DEF JobFine
<1>8. w.reading \in 0 .. w.conn.no /\ w.reading # w.conn.no
  <2>1. win.reading \in 0 .. win.conn.no  BY <1>3 DEF LinkFine
  <2> QED  BY <1>4, <1>5, <1>6, <2>1 DEF Numbers
<1>9. LinkFine(w)
  <2>1. Fits(w.link) /\ Disk(w.storage)  BY <1>3, <1>6 DEF LinkFine
  <2> QED  BY <1>4, <1>5, <1>6, <1>7, <1>8, <2>1 DEF LinkFine
<1>10. OneRead(w) /\ Fresh(w)  BY <1>7, <1>8 DEF OneRead, Fresh
<1> DEFINE a == RestartLinkMonitor(w)
           b == RefreshInfo(a)
           c == RefreshStorage(b)
<1>11. Keeps(w, a) /\ OwnLink(a)  BY <1>9, MonitorRestarts
<1> HIDE DEF a
<1>12. Keeps(a, b) /\ OwnInfo(b)  BY <1>11, InfoRefreshed DEF Keeps
<1> HIDE DEF b
<1>13. Keeps(b, c) /\ (Fresh(b) => OwnStorage(c))  BY <1>12, StorageRefreshed DEF Keeps
<1> HIDE DEF c
<1>14. win' = c  BY <1>1 DEF a, b, c, w
<1>15. Keeps(w, c)  BY <1>11, <1>12, <1>13, KeepsMore
<1>16. Current(c)
  <2>1. OwnLink(c)  BY <1>11, <1>12, <1>13 DEF Keeps
  <2>2. OwnInfo(c)  BY <1>12, <1>13 DEF Keeps
  <2>3. OwnStorage(c)  BY <1>10, <1>11, <1>12, <1>13 DEF Keeps
  <2>4. OneRead(c)  BY <1>10, <1>15 DEF Keeps
  <2> QED  BY <2>1, <2>2, <2>3, <2>4 DEF Current
<1> QED  BY <1>2, <1>6, <1>14, <1>15, <1>16, LinkGoesOn

LEMMA PollLinks == ASSUME LinkInv, PollLink \/ PollStorage PROVE LinkInv' /\ StepShows
<1>1. alive /\ UNCHANGED alive  BY DEF PollLink, PollStorage
<1>2. LinkFine(win) /\ Current(win)  BY <1>1 DEF LinkInv
<1>3. Keeps(win, win')
  <2>1. CASE PollLink
    <3>1. win' = StartLinkCheck(win, FALSE)  BY <2>1 DEF PollLink
    <3> QED  BY <1>2, <3>1, CheckStarts
  <2>2. CASE PollStorage
    <3>1. win' = RefreshStorage(win)  BY <2>2 DEF PollStorage
    <3> QED  BY <1>2, <3>1, StorageRefreshed
  <2> QED  BY <2>1, <2>2
<1>4. Current(win')  BY <1>2, <1>3, CurrentKept
<1> QED  BY <1>1, <1>3, <1>4, LinkGoesOn

(* A job that ended is gone. *)
LEMMA JobIsGone ==
  ASSUME LinkInv, NEW job \in win.jobs
  PROVE  /\ Shape(Ended(job)) /\ Keeps(win, Ended(job)) /\ Ended(job).jobs = win.jobs \ {job}
         /\ Ended(job).conn = win.conn /\ Ended(job).link = win.link /\ Ended(job).info = win.info
         /\ Ended(job).storage = win.storage /\ Ended(job).reading = win.reading
<1> DEFINE v == Ended(job)
           left == win.jobs \ {job}
<1>1. LinkFine(win) /\ Shape(win)  BY DEF LinkInv, LinkFine
<1>2. v = [win EXCEPT !.jobs = left]  BY DEF Ended
<1> HIDE DEF left, v
<1>3. Shape(v) /\ v.conn = win.conn /\ v.link = win.link /\ v.info = win.info /\ v.storage = win.storage
      /\ v.reading = win.reading /\ v.jobs = left
  BY <1>1, <1>2 DEF Shape
<1>4. \A j \in left : j \in win.jobs  BY DEF left
<1>5. LinkFine(v)  BY <1>1, <1>3, <1>4 DEF LinkFine, JobFine
<1>6. ShowsOwn(win, v)  BY <1>3 DEF ShowsOwn
<1>7. OwnLink(win) => OwnLink(v)  BY <1>3, <1>4 DEF OwnLink
<1>8. OwnInfo(win) => OwnInfo(v)  BY <1>3, <1>4 DEF OwnInfo, Unasked
<1>9. OwnStorage(win) => OwnStorage(v)  BY <1>3, <1>4 DEF OwnStorage, Unasked
<1>10. OneRead(win) => OneRead(v)  BY <1>3, <1>4 DEF OneRead, Unasked
<1>11. Fresh(win) => Fresh(v)  BY <1>3, <1>9 DEF Fresh
<1>12. Keeps(win, v)  BY <1>5, <1>6, <1>7, <1>8, <1>9, <1>10, <1>11 DEF Keeps
<1> QED  BY <1>3, <1>12 DEF v, left

(* An answer that is not shown leaves what is shown. *)
LEMMA NotTaken ==
  ASSUME LinkInv, NEW job \in win.jobs, win' = Ended(job), UNCHANGED alive
  PROVE  LinkInv' /\ StepShows
<1>1. Keeps(win, win') /\ win'.link = win.link /\ win'.info = win.info /\ win'.storage = win.storage  BY JobIsGone
<1>2. StepShows  BY <1>1 DEF StepShows
<1>3. alive' \in BOOLEAN  BY DEF LinkInv
<1>4. ASSUME alive' PROVE Current(win')
  <2>1. Current(win)  BY <1>4 DEF LinkInv
  <2> QED  BY <1>1, <2>1, CurrentKept
<1> QED  BY <1>1, <1>2, <1>3, <1>4 DEF LinkInv, Keeps

(* An answer that is shown is of the settings, but for the demo and for settings without a sensor. *)
LEMMA TakenIsOwn ==
  ASSUME LinkInv, NEW job \in win.jobs, Taken(job)
  PROVE  /\ alive /\ job.current /\ Current(win)
         /\ job.kind \in {"link", "info"} => job.conn.no = win.conn.no \/ win.conn.demo
         /\ job.kind = "storage" => job.conn.no = win.conn.no \/ Unasked(win)
<1>1. alive /\ job.current /\ (job.kind = "info" => job.conn.host = win.conn.host)  BY DEF Taken
<1>2. Current(win)  BY <1>1 DEF LinkInv
<1>3. JobFine(win, job)  BY DEF LinkInv, LinkFine
<1>4. job.kind = "link" => job.conn.no = win.conn.no  BY <1>1, <1>2 DEF Current, OwnLink
<1>5. job.kind = "info" => job.conn.no = win.conn.no \/ win.conn.demo
  <2>1. job.kind = "info" => win.conn.host # NoHost  BY <1>1, <1>3 DEF JobFine
  <2> QED  BY <1>1, <1>2, <2>1 DEF Current, OwnInfo, Unasked
<1>6. job.kind = "storage" => job.conn.no = win.conn.no \/ Unasked(win)  BY <1>1, <1>2 DEF Current, OwnStorage
<1> QED  BY <1>1, <1>2, <1>4, <1>5, <1>6

LEMMA LinkAnswers ==
  ASSUME LinkInv, NEW job \in win.jobs, NEW ok \in BOOLEAN, LinkAnswer(job, ok) \/ InfoAnswer(job, ok)
  PROVE  LinkInv' /\ StepShows
<1> DEFINE w == Ended(job)
<1>1. UNCHANGED alive  BY DEF LinkAnswer, InfoAnswer
<1>2. CASE win' = Ended(job)  BY <1>1, <1>2, NotTaken
<1>3. ASSUME Taken(job), job.kind \in {"link", "info"}, win' = ApplyLink(w, job.conn, ok) \/ win' = ApplyInfo(w, job.conn, ok)
      PROVE  LinkInv' /\ StepShows
  <2>1. alive /\ Current(win) /\ (job.conn.no = win.conn.no \/ win.conn.demo)  BY <1>3, TakenIsOwn
  <2>2. Keeps(win, w) /\ w.conn = win.conn /\ w.link = win.link /\ w.info = win.info /\ w.storage = win.storage
    BY JobIsGone
  <2> HIDE DEF w
  <2>3. LinkFine(w) /\ Current(w)  BY <2>1, <2>2, CurrentKept DEF Keeps
  <2>4. Keeps(w, win')
    <3>1. job.conn.no = w.conn.no \/ w.conn.demo  BY <2>1, <2>2
    <3>2. CASE win' = ApplyLink(w, job.conn, ok)  BY <2>3, <3>1, <3>2, LinkApplied
    <3>3. CASE win' = ApplyInfo(w, job.conn, ok)  BY <2>3, <3>1, <3>3, InfoApplied
    <3> QED  BY <1>3, <3>2, <3>3
  <2>5. Current(win')  BY <2>3, <2>4, CurrentKept
  <2> QED  BY <1>1, <2>1, <2>2, <2>4, <2>5, LinkGoesOn
<1>4. CASE LinkAnswer(job, ok)
  <2>1. job.kind = "link" /\ win' = IF Taken(job) THEN ApplyLink(w, job.conn, ok) ELSE Ended(job)
    BY <1>4 DEF LinkAnswer
  <2> QED  BY <1>2, <1>3, <2>1
<1>5. CASE InfoAnswer(job, ok)
  <2>1. job.kind = "info"
        /\ \/ win' = IF Taken(job) THEN ApplyInfo(w, job.conn, ok) ELSE Ended(job)
           \/ win' = Ended(job)
    BY <1>5 DEF InfoAnswer
  <2> QED  BY <1>2, <1>3, <2>1
<1> QED  BY <1>4, <1>5

(* The read that was answered is no longer in flight, and no other one for these settings is. *)
LEMMA StorageAnswers ==
  ASSUME LinkInv, NEW job \in win.jobs, NEW ok \in BOOLEAN, StorageAnswer(job, ok)
  PROVE  LinkInv' /\ StepShows
<1> DEFINE disk == IF ok THEN [ok |-> TRUE, stale |-> FALSE, of |-> Sensor(job.conn), by |-> job.conn.no]
                   ELSE FailedStorage(win, job.conn)
           w == Ended(job)
           v == [w EXCEPT !.reading = 0, !.rerun = FALSE, !.storage = disk]
<1>1. job.kind = "storage" /\ UNCHANGED alive
      /\ win' = IF ~Taken(job) THEN Ended(job) ELSE IF win.rerun THEN RefreshStorage(v) ELSE v
  BY DEF StorageAnswer
<1>2. CASE ~Taken(job)  BY <1>1, <1>2, NotTaken
<1>3. CASE Taken(job)
  <2>1. alive /\ job.current /\ Current(win) /\ (job.conn.no = win.conn.no \/ Unasked(win))  BY <1>1, <1>3, TakenIsOwn
  <2>2. LinkFine(win)  BY DEF LinkInv
  <2>3. Disk(disk) /\ disk.by = job.conn.no
    <3>1. CASE ok  BY <3>1 DEF Disk
    <3>2. CASE ~ok
      <4>1. disk = [win.storage EXCEPT !.stale = win.storage.ok, !.by = job.conn.no]  BY <3>2 DEF FailedStorage
      <4>2. Disk(win.storage)  BY <2>2 DEF LinkFine
      <4> HIDE DEF disk
      <4> QED  BY <4>1, <4>2 DEF Disk
    <3> QED  BY <3>1, <3>2
  <2>4. Shape(w) /\ Keeps(win, w) /\ w.jobs = win.jobs \ {job} /\ w.conn = win.conn /\ w.link = win.link
        /\ w.info = win.info /\ w.storage = win.storage /\ w.reading = win.reading
    BY JobIsGone
  <2> HIDE DEF disk, w
  <2>5. v.conn = w.conn /\ v.link = w.link /\ v.info = w.info /\ v.storage = disk /\ v.jobs = w.jobs
    BY <2>4 DEF Shape
  <2>6. v.reading = 0 /\ Shape(v)
    <3> DEFINE none == 0
    <3>1. v = [w EXCEPT !.reading = none, !.rerun = FALSE, !.storage = disk]  OBVIOUS
    <3> HIDE DEF none, v
    <3>2. v.reading = none  BY <2>4, <3>1 DEF Shape
    <3>3. Shape(v)  BY <2>4, <3>1 DEF Shape
    <3> QED  BY <3>2, <3>3 DEF none
  <2> HIDE DEF v
  <2>7. LinkFine(w) /\ Current(w)  BY <2>1, <2>4, CurrentKept DEF Keeps
  <2>8. v.conn = win.conn /\ v.jobs = win.jobs \ {job}  BY <2>4, <2>5
  <2>9. LinkFine(v)
    <3>1. 0 \in 0 .. v.conn.no  BY <2>2, <2>8 DEF LinkFine, Numbers
    <3> QED  BY <2>3, <2>5, <2>6, <2>7, <3>1 DEF LinkFine, JobFine
  <2>10. OwnLink(v) /\ OwnInfo(v) /\ OwnStorage(v)
    BY <2>5, <2>7 DEF Current, OwnLink, OwnInfo, OwnStorage, Unasked
  <2>11. OneRead(v)
    <3> SUFFICES ASSUME NEW other \in v.jobs, other.kind = "storage", other.conn.no = v.conn.no PROVE FALSE
      BY DEF OneRead
    <3>1. other \in win.jobs /\ other # job /\ other.conn.no = win.conn.no  BY <2>8
    <3>2. OneRead(win)  BY <2>1 DEF Current
    <3>3. ~Unasked(win) /\ ~other.cancelled  BY <3>1, <3>2 DEF OneRead
    <3>4. job.conn.no = win.conn.no  BY <2>1, <3>3
    <3>5. \A k \in win.jobs \ {job} : k.kind = "storage" => k.cancelled  BY <1>1, <3>2, <3>4 DEF OneRead
    <3> QED  BY <3>1, <3>3, <3>5
  <2>12. Current(v)  BY <2>10, <2>11 DEF Current
  <2>13. v.link = win.link /\ v.info = win.info /\ (v.storage.by = v.conn.no \/ Unasked(v))
    BY <2>1, <2>3, <2>4, <2>5, <2>8 DEF Unasked
  <2>14. Keeps(v, win') /\ Current(win')
    <3>1. CASE win.rerun
      <4>1. win' = RefreshStorage(v)  BY <1>1, <1>3, <3>1
      <4>2. Keeps(v, win')  BY <2>9, <4>1, StorageRefreshed
      <4> QED  BY <2>12, <4>2, CurrentKept
    <3>2. CASE ~win.rerun
      <4>1. win' = v  BY <1>1, <1>3, <3>2
      <4>2. Keeps(v, v)  BY <2>9, ShowsNothing DEF Keeps
      <4> QED  BY <2>12, <4>1, <4>2
    <3> QED  BY <3>1, <3>2
  <2>15. win'.conn = v.conn /\ LinkFine(win') /\ ShowsOwn(v, win')  BY <2>14 DEF Keeps, ShowsOwn
  <2>16. ShowsOwn(win, win')
    <3>1. ShowsOwn(win, v)  BY <2>8, <2>13 DEF ShowsOwn
    <3> QED  BY <2>15, <3>1, ShowsMore
  <2>17. StepShows  BY <2>1, <2>16 DEF StepShows, ShowsOwn, Unasked
  <2>18. alive' \in BOOLEAN  BY <1>1 DEF LinkInv
  <2> QED  BY <2>14, <2>15, <2>17, <2>18 DEF LinkInv
<1> QED  BY <1>2, <1>3

LEMMA WindowCloses == ASSUME LinkInv, CloseWindow PROVE LinkInv' /\ StepShows
<1> DEFINE a == Outdate(win, "link")
           b == CancelRead(a)
<1>1. LinkFine(win)  BY DEF LinkInv
<1>2. LinkFine(a) /\ a = [win EXCEPT !.jobs = a.jobs]  BY <1>1, OutdateFine DEF Jobs
<1> HIDE DEF a
<1>3. LinkFine(b) /\ b = [a EXCEPT !.jobs = b.jobs]  BY <1>2, CancelFine
<1> HIDE DEF b
<1>4. win' = [b EXCEPT !.link_timer = FALSE, !.storage_timer = FALSE, !.in_flight = FALSE]
  BY DEF CloseWindow, a, b
<1>5. Shape(win) /\ Shape(a) /\ Shape(b)  BY <1>1, <1>2, <1>3 DEF LinkFine
<1>6. a.link = win.link /\ a.info = win.info /\ a.storage = win.storage  BY <1>2, <1>5 DEF Shape
<1>7. b.link = a.link /\ b.info = a.info /\ b.storage = a.storage  BY <1>3, <1>5 DEF Shape
<1>8. Shape(win') /\ win'.conn = b.conn /\ win'.link = b.link /\ win'.info = b.info /\ win'.storage = b.storage
      /\ win'.jobs = b.jobs /\ win'.reading = b.reading
  <2> DEFINE off == FALSE
             v == [b EXCEPT !.link_timer = off, !.storage_timer = off, !.in_flight = off]
  <2>1. win' = v  BY <1>4
  <2>4. v = [b EXCEPT !.link_timer = off, !.storage_timer = off, !.in_flight = off]  OBVIOUS
  <2> HIDE DEF off, v
  <2>2. v.conn = b.conn /\ v.link = b.link /\ v.info = b.info /\ v.storage = b.storage
        /\ v.jobs = b.jobs /\ v.reading = b.reading
    BY <1>5, <2>4 DEF Shape
  <2>3. Shape(v)  BY <1>5, <2>4 DEF Shape
  <2> QED  BY <2>1, <2>2, <2>3
<1>9. LinkFine(win')  BY <1>3, <1>8 DEF LinkFine, JobFine
<1>10. StepShows  BY <1>6, <1>7, <1>8 DEF StepShows
<1>11. alive' = FALSE  BY DEF CloseWindow
<1>12. alive' \in BOOLEAN  BY <1>11
<1> QED  BY <1>9, <1>10, <1>11, <1>12 DEF LinkInv

(* A step of the window, and none. *)
LEMMA LinkStep == ASSUME LinkInv, LinkNext PROVE LinkInv' /\ StepShows
<1>1. CASE SaveSettings  BY <1>1, SaveLinks
<1>2. CASE PollLink \/ PollStorage  BY <1>2, PollLinks
<1>3. CASE Answer
  <2>1. PICK job \in win.jobs, ok \in BOOLEAN : LinkAnswer(job, ok) \/ InfoAnswer(job, ok) \/ StorageAnswer(job, ok)
    BY <1>3 DEF Answer
  <2> QED  BY <2>1, LinkAnswers, StorageAnswers
<1>4. CASE CloseWindow  BY <1>4, WindowCloses
<1> QED  BY <1>1, <1>2, <1>3, <1>4 DEF LinkNext

LEMMA LinkStutters == ASSUME LinkInv, UNCHANGED link_vars PROVE LinkInv' /\ StepShows
<1>1. win' = win /\ alive' = alive  BY DEF link_vars
<1> QED  BY <1>1 DEF LinkInv, StepShows

LEMMA LinkTypesAgree == ASSUME LinkInv PROVE LinkTypeOK /\ OneStorageRead
<1>1. LinkFine(win)  BY DEF LinkInv
<1>2. LinkTypeOK
  <2>1. alive \in BOOLEAN  BY DEF LinkInv
  <2>2. win.conn.no \in 1 .. MaxSettings /\ win.conn \in Settings(win.conn.no) /\ Fits(win.link)
        /\ win.reading \in 0 .. win.conn.no /\ \A job \in win.jobs : job.kind \in Jobs /\ job.conn \in Settings(job.conn.no)
    BY <1>1 DEF LinkFine, JobFine, Numbers
  <2> QED  BY <2>1, <2>2 DEF LinkTypeOK, Fits
<1>3. OneStorageRead
  <2>1. ASSUME alive PROVE OneRead(win)  BY <2>1 DEF LinkInv, Current
  <2> QED  BY <2>1 DEF OneStorageRead, OneRead
<1> QED  BY <1>2, <1>3

-----------------------------------------------------------------------------
(* The three together. *)

AllInv == WindowInv /\ OneWindow /\ PreviewInv /\ LinkInv
all_vars == <<part, vars, preview_vars, link_vars>>

(* A main window that no sensor is looked at from: nothing is in flight. *)
LEMMA LinkRests == ASSUME LinkAtRest PROVE LinkInv
<1> DEFINE conn == [no |-> 1, host |-> NoHost, demo |-> FALSE]
           w == Blank(conn)
<1>1. conn.no = 1 /\ conn \in Settings(1)  BY DEF Settings
<1>2. win = w /\ alive = FALSE  BY DEF LinkAtRest
<1> HIDE DEF conn
<1>3. Shape(w) /\ w.conn = conn /\ w.jobs = {} /\ w.reading = 0  BY DEF Blank, Shape
<1>4. Fits(w.link)  BY DEF Blank, Fits
<1>5. Disk(w.storage)  BY DEF Blank, Disk
<1>6. 1 \in Numbers /\ 0 \in 0 .. 1  BY LinkAssumption DEF Numbers
<1> HIDE DEF w
<1>7. LinkFine(w)  BY <1>1, <1>3, <1>4, <1>5, <1>6 DEF LinkFine
<1>8. alive \in BOOLEAN  BY <1>2
<1> QED  BY <1>2, <1>7, <1>8 DEF LinkInv

LEMMA AllStart == ASSUME MCInit PROVE AllInv
<1>1. Init /\ PreviewInit /\ (LinkAtRest \/ LinkInit)  BY DEF MCInit
<1> QED  BY <1>1, WindowStarts, HolesStart, PreviewStarts, LinkRests, LinkStarts DEF AllInv

LEMMA AllStep == ASSUME AllInv, [MCNext]_all_vars PROVE AllInv' /\ KeepsWhole /\ HolesCut /\ StartsNone /\ StepShows
<1>1. WindowInv /\ OneWindow /\ PreviewInv /\ LinkInv  BY DEF AllInv
<1>2. WindowInv' /\ OneWindow' /\ KeepsWhole /\ HolesCut /\ StartsNone
  <2>1. Next \/ UNCHANGED vars  BY DEF MCNext, all_vars
  <2> QED  BY <1>1, <2>1, WindowStep, WindowStutters, HolesStep DEF SafeStep
<1>3. PreviewInv'
  <2>1. PreviewNext \/ UNCHANGED preview_vars  BY DEF MCNext, all_vars
  <2> QED  BY <1>1, <2>1, PreviewStep, PreviewStutters
<1>4. LinkInv' /\ StepShows
  <2>1. LinkNext \/ UNCHANGED link_vars  BY DEF MCNext, all_vars
  <2> QED  BY <1>1, <2>1, LinkStep, LinkStutters
<1> QED  BY <1>2, <1>3, <1>4 DEF AllInv

(* What the Sensor Files window calls saved, verified or finished is there, what it gives to the merge
   is there in the sizes of the listing, the preview and its note are of the file that is selected, and one SFTP session
   reads the storage: the window's _on_* handlers, PreviewLoader and _refresh_storage() in any order of
   the answers of their threads.                                                                      *)
THEOREM WindowsRight == FairSpec => []WindowsAreRight
<1>1. AllInv => WindowsAreRight
  <2>1. WindowInv => FilesAreWhole  BY TypesAgree DEF WindowInv, FilesAreWhole
  <2>2. PreviewInv => PreviewTypeOK /\ ShowsTheSelected  BY PreviewTypesAgree DEF PreviewInv
  <2>3. LinkInv => LinkTypeOK /\ OneStorageRead  BY LinkTypesAgree
  <2> QED  BY <2>1, <2>2, <2>3 DEF AllInv, WindowsAreRight
<1>2. MCInit => AllInv  BY AllStart
<1>3. AllInv /\ [MCNext]_all_vars => AllInv'  BY AllStep
<1> QED  BY <1>1, <1>2, <1>3, PTL DEF FairSpec, all_vars

(* A transfer keeps as many bytes as the sensor holds, or nothing, and is the only one then that has
   the file open; with a hole only where a transfer of another window opened the file after it did;
   after Cancel no transfer of the batch starts: FileDownloadWorker.run(), ParamikoSftpBrowser.download(),
   finalize_download() and _cancel_downloads().                                                      *)
THEOREM TransfersSafe == FairSpec => TransfersAreSafe
<1> DEFINE KeepsRight ==
      \A p \in Parts :
        /\ copies'[p] # copies[p] =>
             /\ copies'[p] \ copies[p] = {remote[p]}
             /\ Cardinality({b \in Batches : worker[b][p] = "open"}) = 1
        /\ holed'[p] # holed[p] =>
             /\ closings > 0
             /\ \E b \in Batches : worker[b][p] = "open" /\ p \in cut[b]
<1>1. AllInv /\ [MCNext]_all_vars => AllInv' /\ [KeepsRight]_vars /\ [StartsNone]_vars
  BY AllStep DEF KeepsWhole, HolesCut
<1>2. MCInit => AllInv  BY AllStart
<1> QED  BY <1>1, <1>2, PTL DEF FairSpec, all_vars, TransfersAreSafe, NothingIncompleteKept, CancelStops, StartsNone

(* No answer that the sensor gave for earlier settings is shown: _show_link_result(),
   _show_sensor_info_result() and _show_storage_result() against the tokens that were raised since. *)
THEOREM AnswersTimely == FairSpec => AnswersAreOfTheSettings
<1>1. AllInv /\ [MCNext]_all_vars => AllInv' /\ [StepShows]_link_vars  BY AllStep
<1>2. MCInit => AllInv  BY AllStart
<1> QED  BY <1>1, <1>2, PTL DEF FairSpec, all_vars, AnswersAreOfTheSettings, StepShows
===============================================================================
