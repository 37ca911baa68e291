---------------------------- MODULE ConverterProofs ---------------------------
(***************************************************************************)
(* The IQ Spectrogram Converter, for every batch, number of jobs and       *)
(* choice of the fields, and for any recordings of the same name:          *)
(*                                                                         *)
(*   ImagesRight   an image is that of its own file and settings or none,  *)
(*                 whatever is cancelled, closed or fails;                 *)
(*   MarksRight    what is marked in it is true of the file.               *)
(*                                                                         *)
(* That a file reported as saved is in place (SavedIsItsOwn) is not        *)
(* inductive: the report only repeats what the worker has put in ok, file  *)
(* by file, while jobs go on after it.  Saved says it of any set of files  *)
(* and any pictures, so it is kept for the worker that runs, for its       *)
(* message on the way and for the last report alike.  That at most one     *)
(* worker runs, and that none does when another is started, is TurnFine.   *)
(***************************************************************************)
EXTENDS SpectrogramConverter, FrequencyFacts, SequenceTheorems, FiniteSetTheorems, TLAPS

-----------------------------------------------------------------------------
(* The names of the pictures of a batch *)
LEMMA Appended ==
  ASSUME NEW s, IsName(s), NEW n
  PROVE  Len(Append(s, n)) = Len(s) + 1
<1> DEFINE S == {s[i] : i \in 1 .. Len(s)} \cup {n}
<1>1. Len(s) \in Nat \ {0} /\ s = [i \in 1 .. Len(s) |-> s[i]]
  BY DEF IsName
<1>2. (\A i \in 1 .. Len(s) : s[i] \in S) /\ n \in S
  OBVIOUS
<1> HIDE DEF S
<1>3. s \in [1 .. Len(s) -> S]
  BY <1>1, <1>2
<1>4. s \in Seq(S)
  BY <1>1, <1>3, IsASeq
<1> QED
  BY <1>2, <1>4, AppendProperties

EarlierNamed(batch, k) == {i \in 1 .. k - 1 : batch[i][2] = batch[k][2]}

LEMMA NamesApart ==
  ASSUME NEW batch \in Batches
  PROVE  LET names == OutputNames(batch)
         IN /\ Len(batch) \in Nat \ {0} /\ DOMAIN names = 1 .. Len(batch)
            /\ \A i, k \in DOMAIN names : i # k /\ names[i] = names[k] => Len(names[k]) > 1
<1> DEFINE names == OutputNames(batch)
           E(k) == Cardinality(EarlierNamed(batch, k))
           stem(k) == batch[k][2]
<1>1. Len(batch) \in Nat \ {0} /\ DOMAIN batch = 1 .. Len(batch) /\ \A k \in DOMAIN batch : IsName(stem(k))
  BY ConverterAssumption
<1>2. DOMAIN names = 1 .. Len(batch) /\ \A k \in 1 .. Len(batch) : names[k] = IF E(k) = 0 THEN stem(k) ELSE Append(stem(k), E(k) + 1)
  BY <1>1 DEF OutputNames, EarlierNamed
<1>3. \A k \in 1 .. Len(batch) : IsFiniteSet(EarlierNamed(batch, k)) /\ E(k) \in Nat
  <2> TAKE k \in 1 .. Len(batch)
  <2>1. IsFiniteSet(1 .. k - 1)
    BY FS_Interval
  <2>2. EarlierNamed(batch, k) \in SUBSET (1 .. k - 1)
    BY DEF EarlierNamed
  <2>3. IsFiniteSet(EarlierNamed(batch, k))
    BY <2>1, <2>2, FS_Subset
  <2> QED
    BY <2>3, FS_CardinalityType
<1>4. \A i, k \in 1 .. Len(batch) : i < k /\ stem(i) = stem(k) => E(i) < E(k)
  <2> SUFFICES ASSUME NEW i \in 1 .. Len(batch), NEW k \in 1 .. Len(batch), i < k, stem(i) = stem(k) PROVE E(i) < E(k)
    OBVIOUS
  <2>1. i \notin EarlierNamed(batch, i) /\ EarlierNamed(batch, i) \cup {i} \in SUBSET EarlierNamed(batch, k)
    BY <1>1 DEF EarlierNamed
  <2>2. Cardinality(EarlierNamed(batch, i) \cup {i}) = E(i) + 1
    BY <1>3, <2>1, FS_AddElement
  <2>3. Cardinality(EarlierNamed(batch, i) \cup {i}) <= E(k)
    BY <1>3, <2>1, FS_Subset
  <2> QED
    BY <1>3, <2>2, <2>3
<1>5. \A i, k \in 1 .. Len(batch) : i # k /\ stem(i) = stem(k) => E(i) # E(k)
  BY <1>1, <1>3, <1>4
<1> HIDE DEF E, stem, names
<1>6. ASSUME NEW i \in 1 .. Len(batch), NEW k \in 1 .. Len(batch), i # k, names[i] = names[k]
      PROVE  Len(names[k]) > 1
  <2>1. IsName(stem(i)) /\ IsName(stem(k)) /\ E(i) \in Nat /\ E(k) \in Nat
    BY <1>1, <1>3
  <2>2. Len(stem(i)) \in Nat \ {0} /\ Len(stem(k)) \in Nat \ {0}
    BY <2>1 DEF IsName
  <2>3. CASE E(i) = 0 /\ E(k) = 0
    BY <1>2, <1>5, <1>6, <2>3
  <2>4. CASE E(k) # 0
    <3>1. Len(Append(stem(k), E(k) + 1)) = Len(stem(k)) + 1
      BY <2>1, Appended
    <3> QED
      BY <1>2, <2>2, <2>4, <3>1
  <2>5. CASE E(i) # 0
    <3>1. Len(Append(stem(i), E(i) + 1)) = Len(stem(i)) + 1
      BY <2>1, Appended
    <3> QED
      BY <1>2, <1>6, <2>2, <2>5, <3>1
  <2> QED
    BY <2>3, <2>4, <2>5
<1> QED
  BY <1>1, <1>2, <1>6 DEF names
-----------------------------------------------------------------------------
(* What a conversion holds and tells *)
AnyNames == {OutputNames(b) : b \in Batches}
WorkerRecords ==
  [jobs : Batches, names : AnyNames, at : Nat \ {0}, step : Steps, ok : SUBSET Nat, failed : SUBSET Nat,
   cancelled : BOOLEAN, made_with : Values]
Messages == [job : 1 .. Jobs, ok : SUBSET Nat, names : AnyNames, failed : SUBSET Nat, cancelled : BOOLEAN]

(* What job j calls saved is in images, unless a later job or a file of its own of the same name came after it;
   and it has nothing else there.                                                                          *)
Saved(j, ok, names, images) ==
  /\ ok \subseteq DOMAIN names
  /\ \A k \in ok : /\ names[k] \in DOMAIN images
                   /\ \/ images[names[k]].of[1] > j
                      \/ \E i \in ok : images[names[k]].of = <<j, i>> /\ names[i] = names[k]
  /\ \A p \in DOMAIN images : images[p].of[1] = j => images[p].of[2] \in ok

Doing(j, w, images, late, stopped, settings) ==
  /\ w \in WorkerRecords /\ w.names = OutputNames(w.jobs)
  /\ Saved(j, w.ok, w.names, images)
  /\ w.step \in {"convert", "check", "replace"} => w.at \in DOMAIN w.names
  /\ w.step \in {"check", "replace"} => w.made_with = settings
  /\ late = 1 => j \in stopped /\ w.step \in {"next", "end"}

Bools == converting \in BOOLEAN /\ cancel_requested \in BOOLEAN /\ closing \in BOOLEAN

FieldsFine ==
  /\ fields \in Values /\ token \in Nat /\ info \in [kind : {"hint", "reading", "shown"}, of : Values]
  /\ inspecting \subseteq [token : Nat, of : Values \ {0}] /\ InfoIsCurrent
  /\ job_settings \in Values
  /\ status \in {"ready", "converting", "cancelling", "cancelled", "saved", "partly_saved", "failed"}

Counted ==
  /\ chosen \in Seq(Values) /\ placed_late \in Seq({0, 1}) /\ Len(placed_late) = Len(chosen) /\ Len(chosen) <= Jobs
  /\ job_id \in Nat /\ cancels \subseteq 1 .. Jobs
  /\ ~closing => job_id = Len(chosen)
  /\ closing => job_id = Len(chosen) + 1

Picture(x, started) ==
  /\ x.made_with \in Values /\ x.of[1] \in 1 .. Len(started) /\ x.made_with = started[x.of[1]]

ImagesFine == \A p \in DOMAIN png : Picture(png[p], chosen)

WorkFine ==
  \A j \in DOMAIN worker :
    /\ j = Len(chosen) /\ j \in 1 .. Jobs /\ chosen[j] = job_settings
    /\ Doing(j, worker[j], png, placed_late[j], cancels, job_settings)

InHand(j) == j \in DOMAIN worker /\ worker[j].step \in {"check", "replace"}
TempsFine == temps \subseteq 1 .. Jobs /\ (~closing => \A j \in temps : InHand(j))

IsTold(m, images) == m \in Messages /\ m.job = Len(chosen) /\ Saved(m.job, m.ok, m.names, images)
TurnFine ==
  ~closing =>
    /\ converting => \/ DOMAIN worker = {Len(chosen)} /\ ui_queue = <<>>
                     \/ DOMAIN worker = {} /\ \E m : ui_queue = <<m>> /\ IsTold(m, png)
    /\ ~converting => DOMAIN worker = {} /\ ui_queue = <<>>
    /\ cancel_requested => job_id \in cancels

ReportFine ==
  /\ reported \in {NoReport} \cup Messages /\ reported.job \in Nat /\ reported.job <= Len(chosen)
  /\ Saved(reported.job, reported.ok, reported.names, png)
  /\ \A j \in DOMAIN worker : reported.job < j

ConvInv ==
  /\ Bools /\ FieldsFine /\ Counted /\ ImagesFine /\ WorkFine /\ TempsFine /\ TurnFine /\ ReportFine

LEMMA ConverterSizes == Jobs \in Nat \ {0} /\ Values \subseteq Nat /\ 0 \in Values
BY ConverterAssumption

-----------------------------------------------------------------------------
(* A later job's picture changes nothing of what is saved. *)
LEMMA SavedStays ==
  ASSUME NEW r \in Nat, NEW ok, NEW names, NEW images, Saved(r, ok, names, images),
         NEW j \in Nat, j > r, NEW p, NEW x, x.of[1] = j
  PROVE  Saved(r, ok, names, With(images, p, x))
<1> DEFINE put == With(images, p, x)
<1>1. DOMAIN put = DOMAIN images \cup {p} /\ put[p] = x /\ \A q \in DOMAIN images : q # p => put[q] = images[q]
  BY DEF With
<1> HIDE DEF put
<1>2. \A k \in ok : /\ names[k] \in DOMAIN put
                    /\ \/ put[names[k]].of[1] > r
                       \/ \E i \in ok : put[names[k]].of = <<r, i>> /\ names[i] = names[k]
  <2> TAKE k \in ok
  <2>1. CASE names[k] = p
    BY <1>1, <2>1
  <2>2. CASE names[k] # p
    <3>1. names[k] \in DOMAIN images /\ put[names[k]] = images[names[k]]
      BY <1>1, <2>2 DEF Saved
    <3> QED
      BY <1>1, <3>1 DEF Saved
  <2> QED
    BY <2>1, <2>2
<1>3. \A q \in DOMAIN put : put[q].of[1] = r => put[q].of[2] \in ok
  BY <1>1 DEF Saved
<1> QED
  BY <1>2, <1>3 DEF Saved, put

(* A picture of the job itself is one more. *)
LEMMA SavedMore ==
  ASSUME NEW j \in Nat, NEW ok, NEW names, NEW images, Saved(j, ok, names, images),
         NEW i \in DOMAIN names, NEW x, x.of = <<j, i>>
  PROVE  Saved(j, ok \cup {i}, names, With(images, names[i], x))
<1> DEFINE p == names[i]
           put == With(images, p, x)
           more == ok \cup {i}
<1>1. DOMAIN put = DOMAIN images \cup {p} /\ put[p] = x /\ \A q \in DOMAIN images : q # p => put[q] = images[q]
  BY DEF With
<1> HIDE DEF put
<1>2. \A k \in more : /\ names[k] \in DOMAIN put
                      /\ \/ put[names[k]].of[1] > j
                         \/ \E l \in more : put[names[k]].of = <<j, l>> /\ names[l] = names[k]
  <2> TAKE k \in more
  <2>1. CASE names[k] = p
    BY <1>1, <2>1
  <2>2. CASE names[k] # p
    <3>1. k \in ok
      BY <2>2
    <3>2. names[k] \in DOMAIN images /\ put[names[k]] = images[names[k]]
      BY <1>1, <2>2, <3>1 DEF Saved
    <3> QED
      BY <1>1, <3>1, <3>2 DEF Saved
  <2> QED
    BY <2>1, <2>2
<1>3. \A q \in DOMAIN put : put[q].of[1] = j => put[q].of[2] \in more
  BY <1>1 DEF Saved
<1>4. more \subseteq DOMAIN names
  BY DEF Saved
<1> QED
  BY <1>2, <1>3, <1>4 DEF Saved, put

-----------------------------------------------------------------------------
(* The worker's record *)
LEMMA StepGoes ==
  ASSUME NEW w \in WorkerRecords, NEW s \in Steps
  PROVE  LET v == [w EXCEPT !.step = s]
         IN v \in WorkerRecords /\ v.step = s /\ v.jobs = w.jobs /\ v.names = w.names /\ v.at = w.at /\ v.ok = w.ok
            /\ v.made_with = w.made_with
BY DEF WorkerRecords

LEMMA StepStops ==
  ASSUME NEW w \in WorkerRecords
  PROVE  LET v == [w EXCEPT !.step = "end", !.cancelled = TRUE]
         IN v \in WorkerRecords /\ v.step = "end" /\ v.jobs = w.jobs /\ v.names = w.names /\ v.at = w.at /\ v.ok = w.ok
            /\ v.made_with = w.made_with
BY DEF WorkerRecords, Steps

LEMMA StepMade ==
  ASSUME NEW w \in WorkerRecords, NEW f \in Values
  PROVE  LET v == [w EXCEPT !.step = "check", !.made_with = f]
         IN v \in WorkerRecords /\ v.step = "check" /\ v.jobs = w.jobs /\ v.names = w.names /\ v.at = w.at /\ v.ok = w.ok
            /\ v.made_with = f
BY DEF WorkerRecords, Steps

LEMMA StepNext ==
  ASSUME NEW u \in WorkerRecords
  PROVE  LET v == [u EXCEPT !.at = @ + 1, !.step = "next"]
         IN v \in WorkerRecords /\ v.step = "next" /\ v.jobs = u.jobs /\ v.names = u.names /\ v.ok = u.ok
<1> DEFINE n == u.at + 1
           v == [u EXCEPT !.at = n, !.step = "next"]
<1>1. n \in Nat \ {0}
  BY DEF WorkerRecords
<1> HIDE DEF n
<1>2. v \in WorkerRecords /\ v.step = "next" /\ v.jobs = u.jobs /\ v.names = u.names /\ v.ok = u.ok
  BY <1>1 DEF WorkerRecords, Steps
<1> QED
  BY <1>2, Zenon DEF n

LEMMA FileFails ==
  ASSUME NEW w \in WorkerRecords
  PROVE  LET v == [[w EXCEPT !.failed = @ \cup {w.at}] EXCEPT !.at = @ + 1, !.step = "next"]
         IN v \in WorkerRecords /\ v.step = "next" /\ v.jobs = w.jobs /\ v.names = w.names /\ v.ok = w.ok
<1> DEFINE u == [w EXCEPT !.failed = @ \cup {w.at}]
<1>1. u \in WorkerRecords /\ u.jobs = w.jobs /\ u.names = w.names /\ u.ok = w.ok
  BY DEF WorkerRecords
<1> HIDE DEF u
<1>2. LET v == [u EXCEPT !.at = @ + 1, !.step = "next"]
      IN v \in WorkerRecords /\ v.step = "next" /\ v.jobs = u.jobs /\ v.names = u.names /\ v.ok = u.ok
  BY <1>1, StepNext
<1> QED
  BY <1>1, <1>2, Zenon DEF u

LEMMA FileSaved ==
  ASSUME NEW w \in WorkerRecords
  PROVE  LET v == [[w EXCEPT !.ok = @ \cup {w.at}] EXCEPT !.at = @ + 1, !.step = "next"]
         IN v \in WorkerRecords /\ v.step = "next" /\ v.jobs = w.jobs /\ v.names = w.names /\ v.ok = w.ok \cup {w.at}
<1> DEFINE u == [w EXCEPT !.ok = @ \cup {w.at}]
<1>1. u \in WorkerRecords /\ u.jobs = w.jobs /\ u.names = w.names /\ u.ok = w.ok \cup {w.at}
  BY DEF WorkerRecords
<1> HIDE DEF u
<1>2. LET v == [u EXCEPT !.at = @ + 1, !.step = "next"]
      IN v \in WorkerRecords /\ v.step = "next" /\ v.jobs = u.jobs /\ v.names = u.names /\ v.ok = u.ok
  BY <1>1, StepNext
<1> QED
  BY <1>1, <1>2, Zenon DEF u
-----------------------------------------------------------------------------
(* What the steps of the worker leave alone *)
LEMMA Parted ==
  ASSUME ConvInv
  PROVE  Bools /\ FieldsFine /\ Counted /\ ImagesFine /\ WorkFine /\ TempsFine /\ TurnFine /\ ReportFine
BY Zenon DEF ConvInv

LEMMA RestStays ==
  ASSUME Bools, UNCHANGED WorkerRest
  PROVE  /\ Bools' /\ (converting' <=> converting) /\ (closing' <=> closing) /\ (cancel_requested' <=> cancel_requested)
         /\ fields' = fields /\ token' = token /\ inspecting' = inspecting /\ info' = info /\ job_id' = job_id
         /\ job_settings' = job_settings /\ status' = status /\ cancels' = cancels /\ reported' = reported
         /\ chosen' = chosen
<1>1. converting' = converting /\ closing' = closing /\ cancel_requested' = cancel_requested
  BY Zenon DEF WorkerRest, window
<1>2. /\ fields' = fields /\ token' = token /\ inspecting' = inspecting /\ info' = info /\ job_id' = job_id
      /\ job_settings' = job_settings /\ status' = status /\ cancels' = cancels /\ reported' = reported
      /\ chosen' = chosen
  BY Zenon DEF WorkerRest, window, inspection
<1>3. (converting' <=> converting) /\ (closing' <=> closing) /\ (cancel_requested' <=> cancel_requested)
  BY <1>1, Zenon
<1>4. Bools'
  BY <1>1, Zenon DEF Bools
<1> QED
  BY <1>2, <1>3, <1>4, Zenon

LEMMA OneWorker ==
  ASSUME ConvInv, NEW j \in DOMAIN worker
  PROVE  /\ DOMAIN worker = {j} /\ j = Len(chosen) /\ j \in 1 .. Jobs /\ j \in Nat /\ chosen[j] = job_settings
         /\ Doing(j, worker[j], png, placed_late[j], cancels, job_settings) /\ worker[j] \in WorkerRecords
         /\ reported.job < j /\ reported.job \in Nat
         /\ ~closing => /\ converting /\ ui_queue = <<>> /\ job_id = j
                        /\ \A t \in temps : t = j /\ worker[j].step \in {"check", "replace"}
         /\ closing => job_id = j + 1
<1>1. /\ \A i \in DOMAIN worker : i = Len(chosen)
      /\ j \in 1 .. Jobs /\ chosen[j] = job_settings /\ Doing(j, worker[j], png, placed_late[j], cancels, job_settings)
  BY Parted DEF WorkFine
<1>2. DOMAIN worker = {j} /\ j = Len(chosen)
  BY <1>1
<1>3. j \in Nat
  BY <1>1, ConverterSizes
<1>4. worker[j] \in WorkerRecords
  BY <1>1 DEF Doing
<1>5. reported.job < j /\ reported.job \in Nat
  BY Parted DEF ReportFine
<1>6. ~closing => converting /\ ui_queue = <<>>
  BY <1>2, Parted DEF TurnFine
<1>7. ~closing => \A t \in temps : t = j /\ worker[j].step \in {"check", "replace"}
  BY <1>2, Parted DEF TempsFine, InHand
<1>8. (~closing => job_id = j) /\ (closing => job_id = j + 1)
  BY <1>2, Parted DEF Counted
<1> QED
  BY <1>1, <1>2, <1>3, <1>4, <1>5, <1>6, <1>7, <1>8

LEMMA WorkerKeeps ==
  ASSUME ConvInv, UNCHANGED WorkerRest, NEW j \in DOMAIN worker,
         placed_late' \in Seq({0, 1}), Len(placed_late') = Len(placed_late),
         \A p \in DOMAIN png' : Picture(png'[p], chosen),
         Saved(reported.job, reported.ok, reported.names, png'),
         temps' \subseteq 1 .. Jobs,
         ~closing => \A t \in temps' : t \in DOMAIN worker' /\ worker'[t].step \in {"check", "replace"},
         \/ /\ DOMAIN worker' = {j} /\ ui_queue' = ui_queue
            /\ Doing(j, worker'[j], png', placed_late'[j], cancels, job_settings)
         \/ DOMAIN worker' = {} /\ (~closing => \E m : ui_queue' = <<m>> /\ IsTold(m, png'))
  PROVE  ConvInv'
<1>1. /\ Bools' /\ (converting' <=> converting) /\ (closing' <=> closing) /\ (cancel_requested' <=> cancel_requested)
      /\ fields' = fields /\ token' = token /\ inspecting' = inspecting /\ info' = info /\ job_id' = job_id
      /\ job_settings' = job_settings /\ status' = status /\ cancels' = cancels /\ reported' = reported
      /\ chosen' = chosen
  BY Parted, RestStays, Zenon
<1>2. FieldsFine'
  BY <1>1, Parted DEF FieldsFine, InfoIsCurrent
<1>3. Counted'
  BY <1>1, Parted DEF Counted
<1>4. ImagesFine'
  BY <1>1 DEF ImagesFine
<1>5. WorkFine'
  <2>1. j = Len(chosen) /\ j \in 1 .. Jobs /\ chosen[j] = job_settings
    BY OneWorker
  <2> QED
    BY <1>1, <2>1 DEF WorkFine
<1>6. TempsFine'
  BY <1>1 DEF TempsFine, InHand
<1>7. TurnFine'
  <2> SUFFICES ASSUME ~closing'
               PROVE  /\ \/ DOMAIN worker' = {Len(chosen')} /\ ui_queue' = <<>>
                         \/ DOMAIN worker' = {} /\ (\E m : ui_queue' = <<m>> /\ IsTold(m, png)')
                      /\ converting' /\ (cancel_requested' => job_id' \in cancels')
    BY Zenon DEF TurnFine
  <2>1. ~closing
    BY <1>1, Zenon
  <2>2. j = Len(chosen) /\ converting /\ ui_queue = <<>>
    BY <2>1, OneWorker
  <2>3. cancel_requested => job_id \in cancels
    BY <2>1, Parted, Zenon DEF TurnFine
  <2>4. \A m : IsTold(m, png') => IsTold(m, png)'
    BY <1>1 DEF IsTold
  <2>5. \/ DOMAIN worker' = {j} /\ ui_queue' = ui_queue
        \/ DOMAIN worker' = {} /\ (\E m : ui_queue' = <<m>> /\ IsTold(m, png)')
    <3>1. CASE DOMAIN worker' = {j} /\ ui_queue' = ui_queue
      BY <3>1, Zenon
    <3>2. CASE DOMAIN worker' = {} /\ (~closing => \E m : ui_queue' = <<m>> /\ IsTold(m, png'))
      BY <2>1, <2>4, <3>2, Zenon
    <3> QED
      BY <3>1, <3>2, Zenon
  <2> QED
    BY <1>1, <2>2, <2>3, <2>5, Zenon
<1>8. ReportFine'
  <2>1. reported.job < j
    BY OneWorker
  <2>2. /\ reported \in {NoReport} \cup Messages /\ reported.job \in Nat /\ reported.job <= Len(chosen)
    BY Parted DEF ReportFine
  <2> QED
    BY <1>1, <2>1, <2>2 DEF ReportFine
<1> QED
  BY <1>1, <1>2, <1>3, <1>4, <1>5, <1>6, <1>7, <1>8, Zenon DEF ConvInv

(* Steps that put no picture anywhere *)
LEMMA WorkerKeepsFiles ==
  ASSUME ConvInv, UNCHANGED WorkerRest, NEW j \in DOMAIN worker, png' = png, placed_late' = placed_late,
         temps' \subseteq 1 .. Jobs,
         ~closing => \A t \in temps' : t \in DOMAIN worker' /\ worker'[t].step \in {"check", "replace"},
         \/ /\ DOMAIN worker' = {j} /\ ui_queue' = ui_queue
            /\ Doing(j, worker'[j], png, placed_late[j], cancels, job_settings)
         \/ DOMAIN worker' = {} /\ (~closing => \E m : ui_queue' = <<m>> /\ IsTold(m, png))
  PROVE  ConvInv'
<1>1. placed_late' \in Seq({0, 1}) /\ Len(placed_late') = Len(placed_late)
  BY Parted DEF Counted
<1>2. \A p \in DOMAIN png' : Picture(png'[p], chosen)
  BY Parted DEF ImagesFine
<1>3. Saved(reported.job, reported.ok, reported.names, png')
  BY Parted DEF ReportFine
<1> QED
  BY <1>1, <1>2, <1>3, WorkerKeeps

LEMMA StepSets ==
  ASSUME NEW j \in DOMAIN worker, DOMAIN worker = {j}, NEW v, worker' = [worker EXCEPT ![j] = v]
  PROVE  DOMAIN worker' = {j} /\ worker'[j] = v
OBVIOUS

LEMMA GoneIs ==
  ASSUME NEW j, DOMAIN worker = {j}, worker' = Gone(j)
  PROVE  DOMAIN worker' = {}
<1>1. DOMAIN worker' = DOMAIN worker \ {j}
  BY DEF Gone
<1> QED
  BY <1>1

-----------------------------------------------------------------------------
LEMMA NextKept ==
  ASSUME ConvInv, NEW j \in DOMAIN worker, NextFile(j)
  PROVE  ConvInv'
<1> DEFINE w == worker[j]
           v == IF w.at > Len(w.jobs) THEN [w EXCEPT !.step = "end"]
                ELSE IF j \in cancels THEN [w EXCEPT !.step = "end", !.cancelled = TRUE]
                ELSE [w EXCEPT !.step = "convert"]
<1>1. /\ w.step = "next" /\ ui_queue' = ui_queue /\ png' = png /\ temps' = temps /\ placed_late' = placed_late
      /\ UNCHANGED WorkerRest
  BY DEF NextFile, files
<1>2. \/ Orphaned(j) /\ worker' = Gone(j)
      \/ worker' = [worker EXCEPT ![j] = v]
  BY DEF NextFile
<1>3. DOMAIN worker = {j} /\ Doing(j, w, png, placed_late[j], cancels, job_settings) /\ w \in WorkerRecords
  BY OneWorker
<1>4. ~closing => job_id = j /\ temps = {}
  BY <1>1, OneWorker
<1>5. temps \subseteq 1 .. Jobs
  BY Parted DEF TempsFine
<1>6. CASE Orphaned(j) /\ worker' = Gone(j)
  <2>1. closing
    BY <1>4, <1>6 DEF Orphaned
  <2>2. DOMAIN worker' = {}
    BY <1>3, <1>6, GoneIs
  <2> QED
    BY <1>1, <1>5, <2>1, <2>2, WorkerKeepsFiles
<1>7. CASE worker' = [worker EXCEPT ![j] = v]
  <2>1. /\ v \in WorkerRecords /\ v.jobs = w.jobs /\ v.names = w.names /\ v.ok = w.ok
        /\ v.step = "end" \/ (v.step = "convert" /\ ~(w.at > Len(w.jobs)) /\ j \notin cancels /\ v.at = w.at)
    <3>1. "end" \in Steps /\ "convert" \in Steps
      BY DEF Steps
    <3> HIDE DEF w
    <3>2. CASE w.at > Len(w.jobs)
      BY <1>3, <3>1, <3>2, StepGoes
    <3>3. CASE ~(w.at > Len(w.jobs)) /\ j \in cancels
      BY <1>3, <3>3, StepStops
    <3>4. CASE ~(w.at > Len(w.jobs)) /\ j \notin cancels
      BY <1>3, <3>1, <3>4, StepGoes
    <3> QED
      BY <3>2, <3>3, <3>4
  <2>m. v.step \in {"check", "replace"} => v.made_with = job_settings
    BY <2>1
  <2> HIDE DEF v
  <2>2. DOMAIN worker' = {j} /\ worker'[j] = v
    BY <1>3, <1>7, StepSets
  <2>3. v.step = "convert" => v.at \in DOMAIN v.names
    <3>1. w.jobs \in Batches /\ w.at \in Nat /\ w.names = OutputNames(w.jobs)
      BY <1>3 DEF Doing, WorkerRecords
    <3>2. DOMAIN w.names = 1 .. Len(w.jobs) /\ Len(w.jobs) \in Nat
      BY <3>1, NamesApart
    <3>z. w.at # 0
      BY <1>3 DEF Doing, WorkerRecords
    <3> QED
      BY <2>1, <3>1, <3>2, <3>z
  <2>4. placed_late[j] = 1 => j \in cancels /\ v.step \in {"next", "end"}
    BY <1>3, <2>1 DEF Doing
  <2>5. Doing(j, v, png, placed_late[j], cancels, job_settings)
    BY <1>3, <2>1, <2>m, <2>3, <2>4 DEF Doing
  <2> QED
    BY <1>1, <1>4, <1>5, <2>2, <2>5, WorkerKeepsFiles
<1> QED
  BY <1>2, <1>6, <1>7

LEMMA ConvertKept ==
  ASSUME ConvInv, NEW j \in DOMAIN worker, Convert(j)
  PROVE  ConvInv'
<1> DEFINE w == worker[j]
<1>1. w.step = "convert" /\ ui_queue' = ui_queue /\ png' = png /\ placed_late' = placed_late /\ UNCHANGED WorkerRest
  BY DEF Convert
<1>2. \/ worker' = [worker EXCEPT ![j] = [w EXCEPT !.step = "check", !.made_with = job_settings]] /\ temps' = temps \cup {j}
      \/ worker' = [worker EXCEPT ![j] = [w EXCEPT !.step = "end", !.cancelled = TRUE]] /\ j \in cancels /\ temps' = temps
      \/ worker' = [worker EXCEPT ![j] = [[w EXCEPT !.failed = @ \cup {w.at}] EXCEPT !.at = @ + 1, !.step = "next"]] /\ temps' = temps
  BY DEF Convert, Cancelled, Fails, EndsFile
<1>3. DOMAIN worker = {j} /\ Doing(j, w, png, placed_late[j], cancels, job_settings) /\ w \in WorkerRecords /\ j \in 1 .. Jobs
  BY OneWorker
<1>4. (~closing => temps = {}) /\ temps \subseteq 1 .. Jobs
  BY <1>1, OneWorker, Parted DEF TempsFine
<1>5. placed_late[j] # 1
  BY <1>1, <1>3 DEF Doing
<1>6. job_settings \in Values
  BY Parted DEF FieldsFine
<1> HIDE DEF w
<1>7. CASE worker' = [worker EXCEPT ![j] = [w EXCEPT !.step = "check", !.made_with = job_settings]] /\ temps' = temps \cup {j}
  <2> DEFINE v == [w EXCEPT !.step = "check", !.made_with = job_settings]
  <2>1. v \in WorkerRecords /\ v.step = "check" /\ v.jobs = w.jobs /\ v.names = w.names /\ v.at = w.at /\ v.ok = w.ok
        /\ v.made_with = job_settings
    BY <1>3, <1>6, StepMade
  <2>0. worker' = [worker EXCEPT ![j] = v]
    BY <1>7
  <2> HIDE DEF v
  <2>2. DOMAIN worker' = {j} /\ worker'[j] = v
    BY <1>3, <2>0, StepSets
  <2>3. Doing(j, v, png, placed_late[j], cancels, job_settings)
    BY <1>1, <1>3, <1>5, <2>1 DEF Doing
  <2>4. temps' \subseteq 1 .. Jobs /\ (~closing => \A t \in temps' : t \in DOMAIN worker' /\ worker'[t].step \in {"check", "replace"})
    BY <1>3, <1>4, <1>7, <2>1, <2>2
  <2> QED
    BY <1>1, <2>2, <2>3, <2>4, WorkerKeepsFiles
<1>8. CASE worker' = [worker EXCEPT ![j] = [w EXCEPT !.step = "end", !.cancelled = TRUE]] /\ j \in cancels /\ temps' = temps
  <2> DEFINE v == [w EXCEPT !.step = "end", !.cancelled = TRUE]
  <2>1. v \in WorkerRecords /\ v.step = "end" /\ v.jobs = w.jobs /\ v.names = w.names /\ v.at = w.at /\ v.ok = w.ok
    BY <1>3, StepStops
  <2>0. worker' = [worker EXCEPT ![j] = v]
    BY <1>8
  <2> HIDE DEF v
  <2>2. DOMAIN worker' = {j} /\ worker'[j] = v
    BY <1>3, <2>0, StepSets
  <2>3. Doing(j, v, png, placed_late[j], cancels, job_settings)
    BY <1>1, <1>3, <1>5, <2>1 DEF Doing
  <2> QED
    BY <1>1, <1>4, <1>8, <2>2, <2>3, WorkerKeepsFiles
<1>9. CASE worker' = [worker EXCEPT ![j] = [[w EXCEPT !.failed = @ \cup {w.at}] EXCEPT !.at = @ + 1, !.step = "next"]] /\ temps' = temps
  <2> DEFINE v == [[w EXCEPT !.failed = @ \cup {w.at}] EXCEPT !.at = @ + 1, !.step = "next"]
  <2>1. v \in WorkerRecords /\ v.step = "next" /\ v.jobs = w.jobs /\ v.names = w.names /\ v.ok = w.ok
    BY <1>3, FileFails
  <2>0. worker' = [worker EXCEPT ![j] = v]
    BY <1>9
  <2> HIDE DEF v
  <2>2. DOMAIN worker' = {j} /\ worker'[j] = v
    BY <1>3, <2>0, StepSets
  <2>3. Doing(j, v, png, placed_late[j], cancels, job_settings)
    BY <1>1, <1>3, <1>5, <2>1 DEF Doing
  <2> QED
    BY <1>1, <1>4, <1>9, <2>2, <2>3, WorkerKeepsFiles
<1> QED
  BY <1>2, <1>7, <1>8, <1>9 DEF w

LEMMA CheckKept ==
  ASSUME ConvInv, NEW j \in DOMAIN worker, CheckCancel(j)
  PROVE  ConvInv'
<1> DEFINE w == worker[j]
<1>1. w.step = "check" /\ ui_queue' = ui_queue /\ png' = png /\ placed_late' = placed_late /\ UNCHANGED WorkerRest
  BY DEF CheckCancel
<1>2. \/ worker' = [worker EXCEPT ![j] = [w EXCEPT !.step = "end", !.cancelled = TRUE]] /\ temps' = temps \ {j}
      \/ worker' = [worker EXCEPT ![j] = [w EXCEPT !.step = "replace"]] /\ temps' = temps
  BY DEF CheckCancel, Cancelled
<1>3. DOMAIN worker = {j} /\ Doing(j, w, png, placed_late[j], cancels, job_settings) /\ w \in WorkerRecords /\ j \in 1 .. Jobs
  BY OneWorker
<1>4. (~closing => \A t \in temps : t = j) /\ temps \subseteq 1 .. Jobs
  BY OneWorker, Parted DEF TempsFine
<1>5. placed_late[j] # 1
  BY <1>1, <1>3 DEF Doing
<1> HIDE DEF w
<1>6. CASE worker' = [worker EXCEPT ![j] = [w EXCEPT !.step = "end", !.cancelled = TRUE]] /\ temps' = temps \ {j}
  <2> DEFINE v == [w EXCEPT !.step = "end", !.cancelled = TRUE]
  <2>1. v \in WorkerRecords /\ v.step = "end" /\ v.jobs = w.jobs /\ v.names = w.names /\ v.at = w.at /\ v.ok = w.ok
    BY <1>3, StepStops
  <2>0. worker' = [worker EXCEPT ![j] = v]
    BY <1>6
  <2> HIDE DEF v
  <2>2. DOMAIN worker' = {j} /\ worker'[j] = v
    BY <1>3, <2>0, StepSets
  <2>3. Doing(j, v, png, placed_late[j], cancels, job_settings)
    BY <1>1, <1>3, <1>5, <2>1 DEF Doing
  <2> QED
    BY <1>1, <1>4, <1>6, <2>2, <2>3, WorkerKeepsFiles
<1>7. CASE worker' = [worker EXCEPT ![j] = [w EXCEPT !.step = "replace"]] /\ temps' = temps
  <2> DEFINE v == [w EXCEPT !.step = "replace"]
  <2>1. v \in WorkerRecords /\ v.step = "replace" /\ v.jobs = w.jobs /\ v.names = w.names /\ v.at = w.at /\ v.ok = w.ok
        /\ v.made_with = w.made_with
    <3>1. "replace" \in Steps
      BY DEF Steps
    <3> QED
      BY <1>3, <3>1, StepGoes
  <2>0. worker' = [worker EXCEPT ![j] = v]
    BY <1>7
  <2> HIDE DEF v
  <2>2. DOMAIN worker' = {j} /\ worker'[j] = v
    BY <1>3, <2>0, StepSets
  <2>3. Doing(j, v, png, placed_late[j], cancels, job_settings)
    BY <1>1, <1>3, <1>5, <2>1 DEF Doing
  <2> QED
    BY <1>1, <1>4, <1>7, <2>1, <2>2, <2>3, WorkerKeepsFiles
<1> QED
  BY <1>2, <1>6, <1>7 DEF w

LEMMA ReplaceKept ==
  ASSUME ConvInv, NEW j \in DOMAIN worker, ReplacePng(j)
  PROVE  ConvInv'
<1> DEFINE w == worker[j]
           name == w.names[w.at]
           image == [of |-> <<j, w.at>>, made_with |-> w.made_with]
           late == IF j = job_id /\ cancel_requested THEN [placed_late EXCEPT ![j] = @ + 1] ELSE placed_late
<1>1. w.step = "replace" /\ ui_queue' = ui_queue /\ temps' = temps \ {j} /\ UNCHANGED WorkerRest
  BY DEF ReplacePng
<1>2. \/ /\ png' = With(png, name, image) /\ placed_late' = late
         /\ worker' = [worker EXCEPT ![j] = [[w EXCEPT !.ok = @ \cup {w.at}] EXCEPT !.at = @ + 1, !.step = "next"]]
      \/ /\ png' = png /\ placed_late' = placed_late
         /\ worker' = [worker EXCEPT ![j] = [[w EXCEPT !.failed = @ \cup {w.at}] EXCEPT !.at = @ + 1, !.step = "next"]]
  BY DEF ReplacePng, EndsFile, Fails, Current
<1>3. /\ DOMAIN worker = {j} /\ Doing(j, w, png, placed_late[j], cancels, job_settings) /\ w \in WorkerRecords /\ j \in 1 .. Jobs
      /\ j = Len(chosen) /\ chosen[j] = job_settings /\ reported.job < j /\ reported.job \in Nat /\ j \in Nat
  BY OneWorker
<1>4. (~closing => \A t \in temps : t = j) /\ temps \subseteq 1 .. Jobs
  BY OneWorker, Parted DEF TempsFine
<1>5. placed_late[j] # 1 /\ w.at \in DOMAIN w.names /\ w.made_with = job_settings
  BY <1>1, <1>3 DEF Doing
<1>6. job_settings \in Values
  BY Parted DEF FieldsFine
<1>7. ~closing => \A t \in temps' : t \in DOMAIN worker' /\ worker'[t].step \in {"check", "replace"}
  BY <1>1, <1>4
<1>8. temps' \subseteq 1 .. Jobs
  BY <1>1, <1>4
<1> HIDE DEF w
<1>9. CASE /\ png' = png /\ placed_late' = placed_late
           /\ worker' = [worker EXCEPT ![j] = [[w EXCEPT !.failed = @ \cup {w.at}] EXCEPT !.at = @ + 1, !.step = "next"]]
  <2> DEFINE v == [[w EXCEPT !.failed = @ \cup {w.at}] EXCEPT !.at = @ + 1, !.step = "next"]
  <2>1. v \in WorkerRecords /\ v.step = "next" /\ v.jobs = w.jobs /\ v.names = w.names /\ v.ok = w.ok
    BY <1>3, FileFails
  <2>0. worker' = [worker EXCEPT ![j] = v]
    BY <1>9
  <2> HIDE DEF v
  <2>2. DOMAIN worker' = {j} /\ worker'[j] = v
    BY <1>3, <2>0, StepSets
  <2>3. Doing(j, v, png, placed_late[j], cancels, job_settings)
    BY <1>1, <1>3, <1>5, <2>1 DEF Doing
  <2> QED
    BY <1>1, <1>7, <1>8, <1>9, <2>2, <2>3, WorkerKeepsFiles
<1>10. CASE /\ png' = With(png, name, image) /\ placed_late' = late
            /\ worker' = [worker EXCEPT ![j] = [[w EXCEPT !.ok = @ \cup {w.at}] EXCEPT !.at = @ + 1, !.step = "next"]]
  <2> DEFINE v == [[w EXCEPT !.ok = @ \cup {w.at}] EXCEPT !.at = @ + 1, !.step = "next"]
  <2>1. v \in WorkerRecords /\ v.step = "next" /\ v.jobs = w.jobs /\ v.names = w.names /\ v.ok = w.ok \cup {w.at}
    BY <1>3, FileSaved
  <2>0. worker' = [worker EXCEPT ![j] = v]
    BY <1>10
  <2> HIDE DEF v
  <2>2. DOMAIN worker' = {j} /\ worker'[j] = v
    BY <1>3, <2>0, StepSets
  <2>i. image.of = <<j, w.at>> /\ image.of[1] = j /\ image.made_with = w.made_with
    OBVIOUS
  <2>p. png' = With(png, name, image)
    BY <1>10
  <2> HIDE DEF image
  <2>3. Saved(j, w.ok \cup {w.at}, w.names, png')
    <3>1. Saved(j, w.ok, w.names, png)
      BY <1>3 DEF Doing
    <3> QED
      BY <1>3, <1>5, <2>i, <2>p, <3>1, SavedMore
  <2>4. Saved(reported.job, reported.ok, reported.names, png')
    <3>1. Saved(reported.job, reported.ok, reported.names, png)
      BY Parted DEF ReportFine
    <3> QED
      BY <1>3, <2>i, <2>p, <3>1, SavedStays
  <2>5. \A p \in DOMAIN png' : Picture(png'[p], chosen)
    <3>1. \A p \in DOMAIN png : Picture(png[p], chosen)
      BY Parted DEF ImagesFine
    <3>2. Picture(image, chosen)
      BY <1>3, <1>5, <1>6, <2>i DEF Picture
    <3>3. \A p \in DOMAIN png' : (p \in DOMAIN png /\ png'[p] = png[p]) \/ png'[p] = image
      BY <2>p DEF With
    <3> QED
      BY <3>1, <3>2, <3>3, Zenon
  <2>6. placed_late' \in Seq({0, 1}) /\ Len(placed_late') = Len(placed_late) /\ (placed_late'[j] = 1 => j \in cancels)
    <3>1. placed_late \in Seq({0, 1}) /\ Len(placed_late) = Len(chosen)
      BY Parted DEF Counted
    <3>2. j \in 1 .. Len(placed_late) /\ placed_late[j] = 0
      BY <1>3, <1>5, <3>1
    <3>3. CASE j = job_id /\ cancel_requested
      <4>1. placed_late' = [placed_late EXCEPT ![j] = 1]
        BY <1>10, <3>2, <3>3
      <4>2. placed_late' \in Seq({0, 1}) /\ Len(placed_late') = Len(placed_late)
        BY <3>1, <3>2, <4>1
      <4>3. ~closing
        <5>1. closing => job_id = j + 1
          BY OneWorker
        <5> QED
          BY <1>3, <3>3, <5>1
      <4>4. j \in cancels
        BY <3>3, <4>3, Parted DEF TurnFine
      <4> QED
        BY <4>2, <4>4
    <3>4. CASE ~(j = job_id /\ cancel_requested)
      <4>1. placed_late' = placed_late
        BY <1>10, <3>4
      <4> QED
        BY <3>1, <3>2, <4>1
    <3> QED
      BY <3>3, <3>4
  <2>7. Doing(j, v, png', placed_late'[j], cancels, job_settings)
    BY <1>3, <2>1, <2>3, <2>6 DEF Doing
  <2> QED
    BY <1>1, <1>7, <1>8, <2>2, <2>4, <2>5, <2>6, <2>7, WorkerKeeps
<1> QED
  BY <1>2, <1>9, <1>10 DEF w

LEMMA EndKept ==
  ASSUME ConvInv, NEW j \in DOMAIN worker, WorkerEnds(j)
  PROVE  ConvInv'
<1> DEFINE w == worker[j]
           m == [job |-> j, ok |-> w.ok, names |-> w.names, failed |-> w.failed, cancelled |-> w.cancelled]
<1>1. w.step = "end" /\ worker' = Gone(j) /\ png' = png /\ temps' = temps /\ placed_late' = placed_late /\ UNCHANGED WorkerRest
  BY DEF WorkerEnds, files
<1>2. ~closing => ui_queue' = ui_queue \o (IF TellsEnd(j) THEN <<m>> ELSE <<>>)
  BY DEF WorkerEnds, Tell
<1>3. DOMAIN worker = {j} /\ Doing(j, w, png, placed_late[j], cancels, job_settings) /\ w \in WorkerRecords /\ j \in 1 .. Jobs /\ j = Len(chosen)
  BY OneWorker
<1>4. ~closing => job_id = j /\ ui_queue = <<>> /\ temps = {}
  BY <1>1, OneWorker
<1>5. DOMAIN worker' = {}
  BY <1>1, <1>3, GoneIs
<1>6. temps \subseteq 1 .. Jobs
  BY Parted DEF TempsFine
<1>7. m \in Messages
  <2> HIDE DEF w
  <2>1. w.ok \in SUBSET Nat /\ w.names \in AnyNames /\ w.failed \in SUBSET Nat
    BY <1>3 DEF WorkerRecords
  <2>2. w.cancelled \in BOOLEAN
    BY <1>3, Zenon DEF WorkerRecords
  <2> QED
    BY <1>3, <2>1, <2>2 DEF Messages
<1>8. m.job = j /\ m.ok = w.ok /\ m.names = w.names
  OBVIOUS
<1> HIDE DEF m
<1>9. IsTold(m, png)
  BY <1>3, <1>7, <1>8 DEF IsTold, Doing
<1>10. ~closing => ui_queue' = <<m>>
  <2> SUFFICES ASSUME ~closing PROVE ui_queue' = <<m>>
    OBVIOUS
  <2>1. TellsEnd(j)
    BY <1>4 DEF TellsEnd, Orphaned
  <2>2. ui_queue' = <<>> \o <<m>>
    BY <1>2, <1>4, <2>1
  <2>3. <<m>> \in Seq({m})
    OBVIOUS
  <2> QED
    BY <2>2, <2>3, ConcatEmptySeq
<1> QED
  BY <1>1, <1>4, <1>5, <1>6, <1>9, <1>10, WorkerKeepsFiles
-----------------------------------------------------------------------------
(* What the steps of the Tk thread leave alone *)
LEMMA ViewStays ==
  ASSUME ConvInv, FieldsFine', Bools', Counted', (closing' <=> closing), UNCHANGED <<chosen, png, reported, worker, placed_late, temps, ui_queue>>,
         job_settings' = job_settings, cancels \subseteq cancels',
         ~closing => ((converting' <=> converting) /\ (cancel_requested' => job_id' \in cancels'))
  PROVE  ConvInv'
<1>1. chosen' = chosen /\ png' = png /\ reported' = reported /\ worker' = worker /\ placed_late' = placed_late
      /\ temps' = temps /\ ui_queue' = ui_queue
  BY Zenon
<1>2. ImagesFine'
  BY <1>1, Parted DEF ImagesFine
<1>3. WorkFine'
  <2>1. SUFFICES ASSUME NEW j \in DOMAIN worker
                 PROVE  /\ j = Len(chosen) /\ j \in 1 .. Jobs /\ chosen[j] = job_settings
                        /\ Doing(j, worker[j], png, placed_late[j], cancels', job_settings)
    BY <1>1 DEF WorkFine
  <2>2. /\ j = Len(chosen) /\ j \in 1 .. Jobs /\ chosen[j] = job_settings
        /\ Doing(j, worker[j], png, placed_late[j], cancels, job_settings)
    BY Parted DEF WorkFine
  <2>3. Doing(j, worker[j], png, placed_late[j], cancels', job_settings)
    BY <2>2 DEF Doing
  <2> QED
    BY <2>2, <2>3
<1>4. TempsFine'
  BY <1>1, Parted DEF TempsFine, InHand
<1>5. TurnFine'
  <2> SUFFICES ASSUME ~closing'
               PROVE  /\ converting' => \/ DOMAIN worker' = {Len(chosen')} /\ ui_queue' = <<>>
                                        \/ DOMAIN worker' = {} /\ \E m : ui_queue' = <<m>> /\ IsTold(m, png)'
                      /\ ~converting' => DOMAIN worker' = {} /\ ui_queue' = <<>>
                      /\ cancel_requested' => job_id' \in cancels'
    BY Zenon DEF TurnFine
  <2>1. ~closing
    BY Zenon
  <2>2. /\ converting => \/ DOMAIN worker = {Len(chosen)} /\ ui_queue = <<>>
                         \/ DOMAIN worker = {} /\ \E m : ui_queue = <<m>> /\ IsTold(m, png)
        /\ ~converting => DOMAIN worker = {} /\ ui_queue = <<>>
    BY <2>1, Parted, Zenon DEF TurnFine
  <2>3. \A m : IsTold(m, png) => IsTold(m, png)'
    BY <1>1 DEF IsTold
  <2>4. converting' => \/ DOMAIN worker' = {Len(chosen')} /\ ui_queue' = <<>>
                       \/ DOMAIN worker' = {} /\ \E m : ui_queue' = <<m>> /\ IsTold(m, png)'
    BY <1>1, <2>1, <2>2, <2>3, Zenon
  <2>5. ~converting' => DOMAIN worker' = {} /\ ui_queue' = <<>>
    BY <1>1, <2>1, <2>2, Zenon
  <2> QED
    BY <2>1, <2>4, <2>5, Zenon
<1>6. ReportFine'
  BY <1>1, Parted DEF ReportFine
<1> QED
  BY <1>2, <1>3, <1>4, <1>5, <1>6, Zenon DEF ConvInv

LEMMA BoolsStay ==
  ASSUME ConvInv, converting' = converting, cancel_requested' = cancel_requested, closing' = closing
  PROVE  Bools' /\ (converting' <=> converting) /\ (cancel_requested' <=> cancel_requested) /\ (closing' <=> closing)
<1>1. Bools
  BY Parted
<1> QED
  BY <1>1, Zenon DEF Bools

LEMMA CountedStays ==
  ASSUME ConvInv, (closing' <=> closing), UNCHANGED <<chosen, placed_late, job_id, cancels>>
  PROVE  Counted'
BY Parted DEF Counted

LEMMA AskedStays ==
  ASSUME ConvInv, (closing' <=> closing), (converting' <=> converting), (cancel_requested' <=> cancel_requested),
         job_id' = job_id, cancels' = cancels
  PROVE  ~closing => ((converting' <=> converting) /\ (cancel_requested' => job_id' \in cancels'))
<1>1. TurnFine
  BY Parted
<1> QED
  BY <1>1, Zenon DEF TurnFine

LEMMA InspectFine ==
  ASSUME ConvInv, NEW f \in Values, ScheduleInspect(f), fields' = f, job_settings' = job_settings,
         status' \in {"ready", "converting", "cancelling", "cancelled", "saved", "partly_saved", "failed"}
  PROVE  FieldsFine'
<1>1. fields \in Values /\ token \in Nat /\ inspecting \subseteq [token : Nat, of : Values \ {0}] /\ job_settings \in Values
  BY Parted DEF FieldsFine
<1>2. token' = token + 1 /\ token' \in Nat
  BY <1>1 DEF ScheduleInspect
<1>3. info' \in [kind : {"hint", "reading", "shown"}, of : Values] /\ info'.kind # "shown"
  BY ConverterSizes DEF ScheduleInspect, Hint
<1>4. inspecting' \subseteq [token : Nat, of : Values \ {0}]
  BY <1>1, <1>2 DEF ScheduleInspect
<1> QED
  BY <1>1, <1>2, <1>3, <1>4 DEF FieldsFine, InfoIsCurrent

LEMMA ChangeKept ==
  ASSUME ConvInv, NEW f \in Values, ChangeFields(f)
  PROVE  ConvInv'
<1>1. /\ ScheduleInspect(f) /\ fields' = f /\ status' = "ready" /\ job_settings' = job_settings
      /\ UNCHANGED <<chosen, png, reported, worker, placed_late, temps, ui_queue>> /\ job_id' = job_id /\ cancels' = cancels
  BY Zenon DEF ChangeFields, files
<1>2. converting' = converting /\ cancel_requested' = cancel_requested /\ closing' = closing
  BY Zenon DEF ChangeFields
<1>3. FieldsFine'
  BY <1>1, InspectFine
<1>4. Bools' /\ (converting' <=> converting) /\ (cancel_requested' <=> cancel_requested) /\ (closing' <=> closing)
  BY <1>2, BoolsStay
<1>5. Counted'
  BY <1>1, <1>4, CountedStays, Zenon
<1>6. ~closing => ((converting' <=> converting) /\ (cancel_requested' => job_id' \in cancels'))
  BY <1>1, <1>4, AskedStays, Zenon
<1>7. cancels \subseteq cancels'
  BY <1>1
<1> QED
  BY <1>1, <1>3, <1>4, <1>5, <1>6, <1>7, ViewStays, Zenon

LEMMA InspectedKept ==
  ASSUME ConvInv, NEW i \in inspecting, Inspected(i)
  PROVE  ConvInv'
<1>1. /\ fields' = fields /\ token' = token /\ inspecting' = inspecting \ {i}
      /\ info' = IF IsAwaited(i) THEN [kind |-> "shown", of |-> i.of] ELSE info
      /\ UNCHANGED <<chosen, png, reported, worker, placed_late, temps, ui_queue>>
  BY DEF Inspected, files
<1>0. job_id' = job_id /\ cancels' = cancels /\ job_settings' = job_settings /\ status' = status
  BY DEF Inspected, window
<1>2. converting' = converting /\ cancel_requested' = cancel_requested /\ closing' = closing
  BY Zenon DEF Inspected, window
<1>3. FieldsFine'
  <2>1. /\ fields \in Values /\ token \in Nat /\ inspecting \subseteq [token : Nat, of : Values \ {0}]
        /\ info \in [kind : {"hint", "reading", "shown"}, of : Values] /\ job_settings \in Values /\ (info.kind = "shown" => info.of = fields)
        /\ status \in {"ready", "converting", "cancelling", "cancelled", "saved", "partly_saved", "failed"}
    BY Parted DEF FieldsFine, InfoIsCurrent
  <2>2. i.of \in Values
    BY <2>1
  <2>3. IsAwaited(i) => i.of = fields
    BY DEF IsAwaited
  <2>4. info' \in [kind : {"hint", "reading", "shown"}, of : Values] /\ (info'.kind = "shown" => info'.of = fields)
    BY <1>1, <2>1, <2>2, <2>3
  <2> QED
    BY <1>1, <1>0, <2>1, <2>4 DEF FieldsFine, InfoIsCurrent
<1>4. Bools' /\ (converting' <=> converting) /\ (cancel_requested' <=> cancel_requested) /\ (closing' <=> closing)
  BY <1>2, BoolsStay
<1>5. Counted'
  BY <1>0, <1>1, <1>4, CountedStays, Zenon
<1>6. ~closing => ((converting' <=> converting) /\ (cancel_requested' => job_id' \in cancels'))
  BY <1>0, <1>4, AskedStays, Zenon
<1>7. cancels \subseteq cancels'
  BY <1>0
<1> QED
  BY <1>0, <1>1, <1>3, <1>4, <1>5, <1>6, <1>7, ViewStays, Zenon

LEMMA FieldsStay ==
  ASSUME ConvInv, fields' = fields, token' \in Nat, inspecting' \subseteq inspecting, info' = info, job_settings' = job_settings,
         status' \in {"ready", "converting", "cancelling", "cancelled", "saved", "partly_saved", "failed"}
  PROVE  FieldsFine'
BY Parted DEF FieldsFine, InfoIsCurrent

LEMMA TickKept ==
  ASSUME ConvInv, Tick
  PROVE  ConvInv'
<1>1. /\ fields' = fields /\ token' = token /\ inspecting' = inspecting /\ info' = info /\ status' = "converting"
      /\ UNCHANGED <<chosen, png, reported, worker, placed_late, temps, ui_queue>> /\ job_settings' = job_settings
      /\ job_id' = job_id /\ cancels' = cancels
  BY Zenon DEF Tick, files, inspection
<1>2. converting' = converting /\ cancel_requested' = cancel_requested /\ closing' = closing
  BY Zenon DEF Tick
<1>3. FieldsFine'
  <2>1. token \in Nat
    BY Parted DEF FieldsFine
  <2> QED
    BY <1>1, <2>1, FieldsStay
<1>4. Bools' /\ (converting' <=> converting) /\ (cancel_requested' <=> cancel_requested) /\ (closing' <=> closing)
  BY <1>2, BoolsStay
<1>5. Counted'
  BY <1>1, <1>4, CountedStays, Zenon
<1>6. ~closing => ((converting' <=> converting) /\ (cancel_requested' => job_id' \in cancels'))
  BY <1>1, <1>4, AskedStays, Zenon
<1>7. cancels \subseteq cancels'
  BY <1>1
<1> QED
  BY <1>1, <1>3, <1>4, <1>5, <1>6, <1>7, ViewStays, Zenon

LEMMA CancelKept ==
  ASSUME ConvInv, CancelConversion
  PROVE  ConvInv'
<1>1. /\ fields' = fields /\ token' = token /\ inspecting' = inspecting /\ info' = info /\ status' = "cancelling"
      /\ UNCHANGED <<chosen, png, reported, worker, placed_late, temps, ui_queue>> /\ job_settings' = job_settings
      /\ job_id' = job_id /\ cancels' = cancels \cup {job_id}
  BY Zenon DEF CancelConversion, files, inspection
<1>2. converting' = converting /\ cancel_requested' = TRUE /\ closing' = closing /\ ~closing /\ converting
  BY Zenon DEF CancelConversion
<1>3. FieldsFine'
  <2>1. token \in Nat
    BY Parted DEF FieldsFine
  <2> QED
    BY <1>1, <2>1, FieldsStay
<1>4. Bools' /\ (converting' <=> converting) /\ (closing' <=> closing)
  <2>1. Bools
    BY Parted
  <2> QED
    BY <1>2, <2>1, Zenon DEF Bools
<1>5. Counted'
  <2>1. ~closing
    BY <1>2, Zenon
  <2>2. job_id = Len(chosen) /\ job_id \in Nat /\ Len(chosen) <= Jobs
    BY <2>1, Parted DEF Counted
  <2>3. Len(chosen) # 0
    <3>1. (\E m : ui_queue = <<m>> /\ IsTold(m, png)) \/ DOMAIN worker = {Len(chosen)}
      BY <1>2, Parted, Zenon DEF TurnFine
    <3>2. CASE \E m : ui_queue = <<m>> /\ IsTold(m, png)
      BY <3>2, ConverterSizes DEF IsTold, Messages
    <3>3. CASE DOMAIN worker = {Len(chosen)}
      BY <3>3, ConverterSizes, Parted DEF WorkFine
    <3> QED
      BY <3>1, <3>2, <3>3
  <2>4. job_id \in 1 .. Jobs
    BY <2>2, <2>3, ConverterSizes
  <2>5. cancels' \subseteq 1 .. Jobs
    BY <1>1, <2>4, Parted DEF Counted
  <2>6. (~closing => job_id = Len(chosen)) /\ (closing => job_id = Len(chosen) + 1)
        /\ chosen \in Seq(Values) /\ placed_late \in Seq({0, 1}) /\ Len(placed_late) = Len(chosen) /\ Len(chosen) <= Jobs
    BY Parted DEF Counted
  <2> QED
    BY <1>1, <1>4, <2>2, <2>5, <2>6 DEF Counted
<1>6. cancel_requested' => job_id' \in cancels'
  BY <1>1
<1>7. cancels \subseteq cancels'
  BY <1>1
<1> QED
  BY <1>1, <1>3, <1>4, <1>5, <1>6, <1>7, ViewStays, Zenon

(* Once the window is closed, nothing more is asked of the Tk thread. *)
LEMMA ClosedStays ==
  ASSUME ConvInv, closing', Bools', FieldsFine', Counted', UNCHANGED <<chosen, png, reported, placed_late, temps>>,
         job_settings' = job_settings, worker' = worker \/ worker' = <<>>, cancels \subseteq cancels'
  PROVE  ConvInv'
<1>1. ImagesFine'
  BY Parted DEF ImagesFine
<1>2. WorkFine'
  <2>1. CASE worker' = <<>>
    BY <2>1 DEF WorkFine
  <2>2. CASE worker' = worker
    <3>1. SUFFICES ASSUME NEW j \in DOMAIN worker
                   PROVE  /\ j = Len(chosen) /\ j \in 1 .. Jobs /\ chosen[j] = job_settings
                          /\ Doing(j, worker[j], png, placed_late[j], cancels', job_settings)
      BY <2>2 DEF WorkFine
    <3>2. /\ j = Len(chosen) /\ j \in 1 .. Jobs /\ chosen[j] = job_settings
          /\ Doing(j, worker[j], png, placed_late[j], cancels, job_settings)
      BY Parted DEF WorkFine
    <3>3. Doing(j, worker[j], png, placed_late[j], cancels', job_settings)
      BY <3>2 DEF Doing
    <3> QED
      BY <3>2, <3>3
  <2> QED
    BY <2>1, <2>2
<1>3. TempsFine'
  <2>1. temps' \subseteq 1 .. Jobs
    BY Parted DEF TempsFine
  <2> QED
    BY <2>1, Zenon DEF TempsFine
<1>4. TurnFine'
  BY Zenon DEF TurnFine
<1>5. ReportFine'
  BY Parted DEF ReportFine
<1> QED
  BY <1>1, <1>2, <1>3, <1>4, <1>5, Zenon DEF ConvInv

LEMMA CloseKept ==
  ASSUME ConvInv, OnClose
  PROVE  ConvInv'
<1>1. /\ fields' = fields /\ token' = token + 1 /\ inspecting' = inspecting /\ info' = info /\ status' = status
      /\ UNCHANGED <<chosen, png, reported, placed_late, temps>> /\ worker' = worker /\ job_settings' = job_settings
      /\ job_id' = job_id + 1 /\ cancels' = cancels \cup ({job_id} \ {0})
  BY DEF OnClose, files
<1>2. closing' = TRUE /\ converting' = FALSE /\ cancel_requested' = cancel_requested /\ ~closing
  BY Zenon DEF OnClose
<1>3. FieldsFine'
  <2>1. token \in Nat /\ status \in {"ready", "converting", "cancelling", "cancelled", "saved", "partly_saved", "failed"}
    BY Parted DEF FieldsFine
  <2>2. token' \in Nat
    BY <1>1, <2>1
  <2> QED
    BY <1>1, <2>1, <2>2, FieldsStay
<1>4. Bools' /\ closing'
  <2>1. Bools
    BY Parted
  <2> QED
    BY <1>2, <2>1, Zenon DEF Bools
<1>5. Counted'
  <2>1. ~closing
    BY <1>2, Zenon
  <2>2. /\ job_id = Len(chosen) /\ job_id \in Nat /\ Len(chosen) <= Jobs /\ cancels \subseteq 1 .. Jobs
        /\ chosen \in Seq(Values) /\ placed_late \in Seq({0, 1}) /\ Len(placed_late) = Len(chosen)
    BY <2>1, Parted DEF Counted
  <2>3. cancels' \subseteq 1 .. Jobs
    <3>1. job_id # 0 => job_id \in 1 .. Jobs
      BY <2>2, ConverterSizes
    <3> QED
      BY <1>1, <2>2, <3>1
  <2>4. job_id' = Len(chosen') + 1 /\ job_id' \in Nat
    BY <1>1, <2>2
  <2> QED
    BY <1>1, <1>4, <2>2, <2>3, <2>4 DEF Counted
<1>6. cancels \subseteq cancels'
  BY <1>1
<1> QED
  BY <1>1, <1>3, <1>4, <1>5, <1>6, ClosedStays, Zenon

LEMMA ProcessKept ==
  ASSUME ConvInv, ProcessEnds
  PROVE  ConvInv'
<1>1. /\ fields' = fields /\ token' = token /\ inspecting' = {} /\ info' = info
      /\ UNCHANGED <<chosen, png, reported, placed_late, temps>> /\ worker' = <<>> /\ cancels' = cancels
  BY DEF ProcessEnds, files
<1>0. job_settings' = job_settings /\ job_id' = job_id /\ status' = status
  BY DEF ProcessEnds, window
<1>2. converting' = converting /\ cancel_requested' = cancel_requested /\ closing' = closing /\ closing
  BY Zenon DEF ProcessEnds, window
<1>3. FieldsFine'
  <2>1. token \in Nat /\ status \in {"ready", "converting", "cancelling", "cancelled", "saved", "partly_saved", "failed"}
    BY Parted DEF FieldsFine
  <2> QED
    BY <1>0, <1>1, <2>1, FieldsStay
<1>4. Bools' /\ (closing' <=> closing) /\ closing'
  BY <1>2, BoolsStay, Zenon
<1>5. Counted'
  BY <1>0, <1>1, <1>4, CountedStays, Zenon
<1>6. cancels \subseteq cancels'
  BY <1>1
<1> QED
  BY <1>0, <1>1, <1>3, <1>4, <1>5, <1>6, ClosedStays, Zenon

-----------------------------------------------------------------------------
(* A conversion starts *)
LEMMA StartKept ==
  ASSUME ConvInv, NEW batch \in Batches, StartJobs(batch)
  PROVE  ConvInv'
<1> DEFINE job == job_id + 1
           w == [jobs |-> batch, names |-> OutputNames(batch), at |-> 1, step |-> "next",
                 ok |-> {}, failed |-> {}, cancelled |-> FALSE, made_with |-> 0]
<1>1. /\ job_id < Jobs /\ job_id' = job /\ worker' = With(worker, job, w)
      /\ chosen' = Append(chosen, fields) /\ placed_late' = Append(placed_late, 0)
      /\ job_settings' = fields /\ status' = "converting" /\ fields' = fields /\ token' = token /\ inspecting' = inspecting
      /\ info' = info /\ cancels' = cancels /\ ui_queue' = ui_queue /\ png' = png /\ temps' = temps /\ reported' = reported
  BY DEF StartJobs, inspection, files
<1>2. ~converting /\ ~closing /\ converting' = TRUE /\ cancel_requested' = FALSE /\ closing' = closing
  BY Zenon DEF StartJobs, MayStart
<1>3. /\ fields \in Values /\ token \in Nat /\ info \in [kind : {"hint", "reading", "shown"}, of : Values]
      /\ inspecting \subseteq [token : Nat, of : Values \ {0}] /\ (info.kind = "shown" => info.of = fields)
  BY Parted DEF FieldsFine, InfoIsCurrent
<1>4. /\ chosen \in Seq(Values) /\ placed_late \in Seq({0, 1}) /\ Len(placed_late) = Len(chosen)
      /\ job_id = Len(chosen) /\ job_id \in Nat /\ cancels \subseteq 1 .. Jobs
  <2>1. ~closing
    BY <1>2, Zenon
  <2> QED
    BY <2>1, Parted DEF Counted
<1>5. DOMAIN worker = {} /\ ui_queue = <<>> /\ ~closing
  BY <1>2, Parted, Zenon DEF TurnFine
<1>6. w \in WorkerRecords /\ w.jobs = batch /\ w.names = OutputNames(batch) /\ w.step = "next" /\ w.ok = {}
  <2>1. OutputNames(batch) \in AnyNames
    BY DEF AnyNames
  <2>2. 0 \in Values
    BY ConverterSizes
  <2> QED
    BY <2>1, <2>2 DEF WorkerRecords, Steps
<1>7. job \in 1 .. Jobs /\ job \in Nat /\ job > job_id
  BY <1>1, <1>4, ConverterSizes
<1>8. job = Len(chosen) + 1 /\ Len(chosen) < Jobs
  BY <1>1, <1>4
<1> HIDE DEF w, job
<1>9. /\ chosen' \in Seq(Values) /\ Len(chosen') = job /\ chosen'[job] = fields
      /\ \A k \in 1 .. Len(chosen) : chosen'[k] = chosen[k]
  BY <1>1, <1>3, <1>4, <1>8, AppendProperties
<1>10. /\ placed_late' \in Seq({0, 1}) /\ Len(placed_late') = job /\ placed_late'[job] = 0
  BY <1>1, <1>4, <1>8, AppendProperties
<1>11. DOMAIN worker' = {job} /\ worker'[job] = w
  BY <1>1, <1>5 DEF With
<1>12. Bools'
  <2>1. Bools
    BY Parted
  <2> QED
    BY <1>2, <2>1, Zenon DEF Bools
<1>13. FieldsFine'
  BY <1>1, <1>3 DEF FieldsFine, InfoIsCurrent
<1>14. Counted'
  <2>1. ~closing' /\ Len(chosen') <= Jobs
    <3>1. ~closing'
      BY <1>2, <1>5, Zenon
    <3> QED
      BY <1>7, <1>9, <3>1, ConverterSizes
  <2> QED
    BY <1>1, <1>4, <1>7, <1>9, <1>10, <2>1 DEF Counted
<1>15. \A p \in DOMAIN png : Picture(png[p], chosen) /\ Picture(png[p], chosen') /\ png[p].of[1] \in 1 .. Len(chosen)
  <2>1. TAKE p \in DOMAIN png
  <2>2. Picture(png[p], chosen)
    BY Parted DEF ImagesFine
  <2>3. png[p].of[1] \in 1 .. Len(chosen)
    BY <2>2 DEF Picture
  <2>4. chosen'[png[p].of[1]] = chosen[png[p].of[1]] /\ png[p].of[1] \in 1 .. Len(chosen')
    BY <1>8, <1>9, <2>3
  <2>5. Picture(png[p], chosen')
    BY <2>2, <2>4 DEF Picture
  <2> QED
    BY <2>2, <2>3, <2>5
<1>16. ImagesFine'
  BY <1>1, <1>15 DEF ImagesFine
<1>17. WorkFine'
  <2>1. Saved(job, {}, w.names, png)
    BY <1>8, <1>15 DEF Saved
  <2>2. Doing(job, w, png, placed_late'[job], cancels, fields)
    BY <1>6, <1>10, <2>1 DEF Doing
  <2> QED
    BY <1>1, <1>7, <1>9, <1>11, <2>2 DEF WorkFine
<1>18. TempsFine'
  <2>1. temps = {}
    BY <1>5, Parted DEF TempsFine, InHand
  <2> QED
    BY <1>1, <2>1 DEF TempsFine
<1>19. TurnFine'
  <2>1. DOMAIN worker' = {Len(chosen')} /\ ui_queue' = <<>>
    BY <1>1, <1>5, <1>9, <1>11
  <2> QED
    BY <1>2, <2>1, Zenon DEF TurnFine
<1>20. ReportFine'
  <2>1. /\ reported \in {NoReport} \cup Messages /\ reported.job \in Nat /\ reported.job <= Len(chosen)
        /\ Saved(reported.job, reported.ok, reported.names, png)
    BY Parted DEF ReportFine
  <2>2. reported.job < job /\ reported.job <= Len(chosen')
    BY <1>7, <1>8, <1>9, <2>1
  <2> QED
    BY <1>1, <1>11, <2>1, <2>2 DEF ReportFine
<1> QED
  BY <1>12, <1>13, <1>14, <1>16, <1>17, <1>18, <1>19, <1>20, Zenon DEF ConvInv

-----------------------------------------------------------------------------
(* The Tk thread hears of the end *)
LEMMA OutcomeIs ==
  ASSUME NEW m
  PROVE  OutcomeOf(m) \in {"ready", "converting", "cancelling", "cancelled", "saved", "partly_saved", "failed"}
<1>1. OutcomeOf(m) = "cancelled" \/ OutcomeOf(m) = "saved" \/ OutcomeOf(m) = "partly_saved" \/ OutcomeOf(m) = "failed"
  BY Zenon DEF OutcomeOf
<1> DEFINE o == OutcomeOf(m)
<1> HIDE DEF o
<1>2. o = "cancelled" \/ o = "saved" \/ o = "partly_saved" \/ o = "failed"
  BY <1>1, Zenon DEF o
<1>3. o \in {"ready", "converting", "cancelling", "cancelled", "saved", "partly_saved", "failed"}
  BY <1>2
<1> QED
  BY <1>3, Zenon DEF o

LEMMA PumpKept ==
  ASSUME ConvInv, PumpQueue
  PROVE  ConvInv'
<1>1. /\ ui_queue # <<>> /\ ui_queue' = Tail(ui_queue) /\ status' = OutcomeOf(Head(ui_queue)) /\ reported' = Head(ui_queue)
      /\ ScheduleInspect(fields) /\ job_id' = job_id /\ job_settings' = job_settings /\ fields' = fields /\ worker' = worker
      /\ cancels' = cancels /\ png' = png /\ temps' = temps /\ chosen' = chosen /\ placed_late' = placed_late
  BY Zenon DEF PumpQueue, ConversionFinished, AfterJob, files
<1>2. ~closing /\ converting' = FALSE /\ cancel_requested' = FALSE /\ closing' = closing
  BY Zenon DEF PumpQueue, ConversionFinished
<1>3. DOMAIN worker = {} /\ \E m : ui_queue = <<m>> /\ IsTold(m, png)
  BY <1>1, <1>2, Parted, Zenon DEF TurnFine
<1>4. PICK m : ui_queue = <<m>> /\ IsTold(m, png)
  BY <1>3
<1>5. Head(ui_queue) = m /\ Tail(ui_queue) = <<>>
  BY <1>4
<1>6. m \in Messages /\ m.job = Len(chosen) /\ Saved(m.job, m.ok, m.names, png)
  BY <1>4 DEF IsTold
<1>7. status' \in {"ready", "converting", "cancelling", "cancelled", "saved", "partly_saved", "failed"}
  BY <1>1, OutcomeIs
<1>8. FieldsFine'
  <2>1. fields \in Values
    BY Parted DEF FieldsFine
  <2> QED
    BY <1>1, <1>7, <2>1, InspectFine
<1>9. Bools' /\ (closing' <=> closing)
  <2>1. Bools
    BY Parted
  <2> QED
    BY <1>2, <2>1, Zenon DEF Bools
<1>10. Counted'
  BY <1>1, <1>9, CountedStays, Zenon
<1>11. ImagesFine'
  BY <1>1, Parted DEF ImagesFine
<1>12. WorkFine'
  BY <1>1, <1>3 DEF WorkFine
<1>13. TempsFine'
  <2>1. temps = {}
    BY <1>2, <1>3, Parted DEF TempsFine, InHand
  <2> QED
    BY <1>1, <2>1 DEF TempsFine
<1>14. TurnFine'
  <2>1. DOMAIN worker' = {} /\ ui_queue' = <<>>
    BY <1>1, <1>3, <1>5
  <2> QED
    BY <1>2, <2>1, Zenon DEF TurnFine
<1>15. ReportFine'
  <2>1. Len(chosen) \in Nat
    BY Parted DEF Counted
  <2>2. reported' = m
    BY <1>1, <1>5
  <2> QED
    BY <1>1, <1>3, <1>6, <2>1, <2>2 DEF ReportFine
<1> QED
  BY <1>8, <1>9, <1>10, <1>11, <1>12, <1>13, <1>14, <1>15, Zenon DEF ConvInv

-----------------------------------------------------------------------------
(* Every step *)
LEMMA ConvStarts ==
  ASSUME ConverterInit
  PROVE  ConvInv
<1>1. Bools
  BY Zenon DEF ConverterInit, Bools
<1>2. FieldsFine
  BY ConverterSizes DEF ConverterInit, FieldsFine, InfoIsCurrent, Hint
<1>3. Counted
  BY ConverterSizes DEF ConverterInit, Counted
<1>4. ImagesFine /\ WorkFine
  BY DEF ConverterInit, ImagesFine, WorkFine
<1>5. TempsFine
  BY DEF ConverterInit, TempsFine
<1>6. TurnFine
  <2>1. worker = <<>> /\ ui_queue = <<>>
    BY DEF ConverterInit
  <2>2. DOMAIN worker = {}
    BY <2>1
  <2>3. converting = FALSE /\ cancel_requested = FALSE
    BY Zenon DEF ConverterInit
  <2> QED
    BY <2>1, <2>2, <2>3, Zenon DEF TurnFine
<1>7. ReportFine
  <2>1. reported = NoReport /\ png = <<>> /\ worker = <<>> /\ chosen = <<>>
    BY DEF ConverterInit
  <2>2. NoReport.job = 0 /\ NoReport.ok = {}
    BY DEF NoReport
  <2>3. Saved(0, {}, NoReport.names, <<>>)
    BY DEF Saved
  <2> QED
    BY <2>1, <2>2, <2>3 DEF ReportFine
<1> QED
  BY <1>1, <1>2, <1>3, <1>4, <1>5, <1>6, <1>7, Zenon DEF ConvInv

LEMMA ConvKept ==
  ASSUME ConvInv, [ConverterNext]_converter_vars
  PROVE  ConvInv'
<1>1. ASSUME NEW f \in Values, ChangeFields(f) PROVE ConvInv'
  BY <1>1, ChangeKept
<1>2. ASSUME NEW batch \in Batches, StartJobs(batch) PROVE ConvInv'
  BY <1>2, StartKept
<1>3. CASE CancelConversion
  BY <1>3, CancelKept
<1>4. CASE Tick
  BY <1>4, TickKept
<1>5. CASE OnClose
  BY <1>5, CloseKept
<1>6. CASE ProcessEnds
  BY <1>6, ProcessKept
<1>7. ASSUME NEW i \in inspecting, Inspected(i) PROVE ConvInv'
  BY <1>7, InspectedKept
<1>8. ASSUME NEW j \in DOMAIN worker, NextFile(j) \/ Convert(j) \/ CheckCancel(j) \/ ReplacePng(j) \/ WorkerEnds(j)
      PROVE  ConvInv'
  BY <1>8, NextKept, ConvertKept, CheckKept, ReplaceKept, EndKept
<1>9. CASE PumpQueue
  BY <1>9, PumpKept
<1>10. CASE UNCHANGED converter_vars
  <2>1. /\ fields' = fields /\ token' = token /\ inspecting' = inspecting /\ info' = info /\ status' = status
        /\ UNCHANGED <<chosen, png, reported, worker, placed_late, temps, ui_queue>> /\ job_settings' = job_settings
        /\ job_id' = job_id /\ cancels' = cancels
    BY <1>10, Zenon DEF converter_vars, inspection, window, files
  <2>2. converting' = converting /\ cancel_requested' = cancel_requested /\ closing' = closing
    BY <1>10, Zenon DEF converter_vars, window
  <2>3. FieldsFine'
    <3>1. token \in Nat /\ status \in {"ready", "converting", "cancelling", "cancelled", "saved", "partly_saved", "failed"}
      BY Parted DEF FieldsFine
    <3> QED
      BY <2>1, <3>1, FieldsStay
  <2>4. Bools' /\ (converting' <=> converting) /\ (cancel_requested' <=> cancel_requested) /\ (closing' <=> closing)
    BY <2>2, BoolsStay
  <2>5. Counted'
    BY <2>1, <2>4, CountedStays, Zenon
  <2>6. ~closing => ((converting' <=> converting) /\ (cancel_requested' => job_id' \in cancels'))
    BY <2>1, <2>4, AskedStays, Zenon
  <2>7. cancels \subseteq cancels'
    BY <2>1
  <2> QED
    BY <2>1, <2>3, <2>4, <2>5, <2>6, <2>7, ViewStays, Zenon
<1> QED
  BY <1>1, <1>2, <1>3, <1>4, <1>5, <1>6, <1>7, <1>8, <1>9, <1>10, Zenon DEF ConverterNext, Inspects, WorkerStep

(* What the parts say together *)
LEMMA ConvTypes ==
  ASSUME ConvInv
  PROVE  ConverterTypeOK
<1>1. fields \in Values /\ token \in Nat /\ info \in [kind : {"hint", "reading", "shown"}, of : Values]
      /\ inspecting \subseteq [token : Nat, of : Values \ {0}] /\ job_settings \in Values
      /\ status \in {"ready", "converting", "cancelling", "cancelled", "saved", "partly_saved", "failed"}
  BY Parted, Zenon DEF FieldsFine
<1>2. {converting, cancel_requested, closing} \subseteq BOOLEAN
  <2>1. converting \in BOOLEAN /\ cancel_requested \in BOOLEAN /\ closing \in BOOLEAN
    BY Parted, Zenon DEF Bools
  <2> QED
    BY <2>1, Zenon
<1>3. DOMAIN worker \subseteq 1 .. Jobs /\ \A j \in DOMAIN worker : worker[j].step \in Steps
  <2>1. \A j \in DOMAIN worker : j \in 1 .. Jobs /\ worker[j] \in WorkerRecords
    BY OneWorker
  <2> QED
    BY <2>1 DEF WorkerRecords
<1>4. cancels \subseteq 1 .. Jobs /\ temps \subseteq 1 .. Jobs
  BY Parted DEF Counted, TempsFine
<1>5. Cardinality(DOMAIN worker) <= 1
  <2>1. CASE DOMAIN worker = {}
    <3>1. Cardinality(DOMAIN worker) = 0
      BY <2>1, FS_EmptySet
    <3> QED
      BY <3>1
  <2>2. CASE DOMAIN worker # {}
    <3>1. PICK j \in DOMAIN worker : TRUE
      BY <2>2
    <3>2. DOMAIN worker = {j}
      BY <3>1, OneWorker
    <3>3. Cardinality(DOMAIN worker) = 1
      BY <3>2, FS_Singleton
    <3> QED
      BY <3>3
  <2> QED
    BY <2>1, <2>2
<1>6. \A p \in DOMAIN png : png[p].made_with \in Values
  BY Parted DEF ImagesFine, Picture
<1> QED
  BY <1>1, <1>2, <1>3, <1>4, <1>5, <1>6, Zenon DEF ConverterTypeOK

LEMMA ReportedSaved ==
  ASSUME ConvInv
  PROVE  SavedIsItsOwn
<1>1. reported \in {NoReport} \cup Messages /\ Saved(reported.job, reported.ok, reported.names, png) /\ reported.job \in Nat
  BY Parted DEF ReportFine
<1>2. SUFFICES ASSUME NEW k \in reported.ok
               PROVE  LET name == reported.names[k]
                      IN \/ name \in DOMAIN png /\ (png[name].of = <<reported.job, k>> \/ png[name].of[1] > reported.job)
                         \/ \E i \in reported.ok : i # k /\ reported.names[i] = name /\ Len(name) > 1
  BY DEF SavedIsItsOwn
<1>3. reported \in Messages
  BY <1>1 DEF NoReport
<1>4. PICK batch \in Batches : reported.names = OutputNames(batch)
  BY <1>3 DEF Messages, AnyNames
<1> DEFINE names == reported.names
<1>5. \A i, l \in DOMAIN names : i # l /\ names[i] = names[l] => Len(names[l]) > 1
  BY <1>4, NamesApart
<1>6. /\ reported.ok \subseteq DOMAIN names /\ names[k] \in DOMAIN png
      /\ \/ png[names[k]].of[1] > reported.job
         \/ \E i \in reported.ok : png[names[k]].of = <<reported.job, i>> /\ names[i] = names[k]
  BY <1>1 DEF Saved
<1>7. CASE png[names[k]].of[1] > reported.job
  BY <1>6, <1>7
<1>8. ASSUME NEW i \in reported.ok, png[names[k]].of = <<reported.job, i>>, names[i] = names[k]
      PROVE  \/ png[names[k]].of = <<reported.job, k>>
             \/ i # k /\ Len(names[k]) > 1
  BY <1>5, <1>6, <1>8
<1> QED
  BY <1>6, <1>7, <1>8

LEMMA ConvIsRight ==
  ASSUME ConvInv
  PROVE  ImagesAreRight
<1>1. ConverterTypeOK /\ SavedIsItsOwn
  BY ConvTypes, ReportedSaved
<1>2. MadeAsChosen
  BY Parted DEF ImagesFine, Picture, MadeAsChosen
<1>3. UnsavedIsUntouched
  BY Parted DEF ReportFine, Saved, UnsavedIsUntouched
<1>4. CancelStopsTheBatch
  BY Parted DEF Counted, CancelStopsTheBatch
<1>5. TempsAreRemoved
  BY Parted DEF TempsFine, InHand, TempsAreRemoved
<1>6. InfoIsCurrent
  BY Parted DEF FieldsFine
<1> QED
  BY <1>1, <1>2, <1>3, <1>4, <1>5, <1>6, Zenon DEF ImagesAreRight

(* However many jobs are started, cancelled or cut short by closing the window: every PNG was made with
   the settings its job was started with, what a report calls saved is in its place unless a later job or
   a file of the same name came after it, the rest is as it was, at most one PNG is moved into place after
   Cancel, no temporary file outlives its worker and the line under the file is about that file
   (iq_gui.py and _save_spectrogram_png()).                                                             *)
THEOREM ImagesRight == ConverterSpec => []ImagesAreRight
<1>1. ConverterInit => ConvInv
  BY ConvStarts
<1>2. ConvInv /\ [ConverterNext]_converter_vars => ConvInv'
  BY ConvKept
<1>3. ConvInv => ImagesAreRight
  BY ConvIsRight
<1> QED
  BY <1>1, <1>2, <1>3, PTL DEF ConverterSpec
-----------------------------------------------------------------------------
(* The frequencies of a file: nothing is known, or what one look found. *)
FreqInv ==
  /\ chunk \in ChunkOf(Own)
  /\ manifest \in {NoManifest(k) : k \in {"none", "unreadable"}} \cup UNION {ManifestOf(r) : r \in Recorded}
  /\ records.entries \subseteq Entered
  /\ markers \in BOOLEAN
  /\ \/ lookup = NoLookup /\ axis = NoAxis
     \/ lookup = (IF markers THEN FindRequest ELSE Refused("off")) /\ axis = Plan(lookup)

LEMMA RangesAre ==
  ASSUME NEW r \in Recorded
  PROVE  /\ r.range \in Nat \X Nat /\ r.range[1] > 0 /\ r.range[2] > r.range[1] /\ r.range # NoRange
         /\ Centre(r.range) \in Nat \ {0}
<1>1. r.range \in Nat \X Nat /\ r.range[1] > 0 /\ r.range[2] > r.range[1]
  BY FrequencyAssumption DEF Recorded
<1>2. r.range # NoRange
  BY <1>1 DEF NoRange
<1>3. Centre(r.range) \in Nat \ {0}
  <2>1. PICK a \in Nat, b \in Nat : r.range[1] = a /\ r.range[2] = b /\ a > 0 /\ b > a
    BY <1>1
  <2>2. (a + b) \div 2 \in Nat \ {0}
    BY <2>1
  <2> QED
    BY <2>1, <2>2 DEF Centre
<1> QED
  BY <1>1, <1>2, <1>3

(* What the chunk of the own file may say *)
LEMMA ChunkIs ==
  ASSUME chunk \in ChunkOf(Own)
  PROVE  /\ chunk.centre \in {0, Centre(Own.range)} /\ chunk.centre \in Nat
         /\ chunk.receiver \in {"", Own.receiver}
         /\ SensorBandwidth \in Nat /\ (SensorBandwidth # 0 => ~Problem)
<1>0. Centre(Own.range) \in Nat
  BY RangesAre DEF Recorded
<1> DEFINE Absent == [present |-> FALSE, type |-> "", rate_differs |-> FALSE, centre |-> 0, bandwidth |-> 0, receiver |-> ""]
           Present == [present : {TRUE}, type : {"", "real"}, rate_differs : BOOLEAN, centre : {0, Centre(Own.range)},
                       bandwidth : Bandwidths \cup {0}, receiver : {"", Own.receiver}]
<1>a. chunk = Absent \/ chunk \in Present
  BY Zenon DEF ChunkOf
<1>p. Absent.centre = 0 /\ Absent.bandwidth = 0 /\ Absent.receiver = ""
  OBVIOUS
<1>q. chunk \in Present =>
        chunk.centre \in {0, Centre(Own.range)} /\ chunk.bandwidth \in Bandwidths \cup {0} /\ chunk.receiver \in {"", Own.receiver}
  BY Zenon
<1> HIDE DEF Absent, Present
<1>1. chunk.centre \in {0, Centre(Own.range)}
  BY <1>a, <1>p, <1>q, Zenon
<1>r. chunk.receiver \in {"", Own.receiver}
  BY <1>a, <1>p, <1>q, Zenon
<1>b. chunk.bandwidth \in Bandwidths \/ chunk.bandwidth = 0
  BY <1>a, <1>p, <1>q, Zenon
<1>2. chunk.bandwidth \in Nat
  <2>1. Bandwidths \subseteq Nat
    BY FrequencyAssumption
  <2>2. 0 \in Nat
    OBVIOUS
  <2> QED
    BY <1>b, <2>1, <2>2, Zenon
<1>3. SensorBandwidth \in Nat
  BY <1>2 DEF SensorBandwidth
<1>4. SensorBandwidth # 0 => ~Problem
  BY DEF SensorBandwidth
<1>5. chunk.centre \in Nat
  BY <1>0, <1>1
<1> QED
  BY <1>1, <1>r, <1>3, <1>4, <1>5, Zenon

(* A manifest of a capture is of some recording, and its range is that recording's if it is usable. *)
LEMMA ManifestIs ==
  ASSUME manifest \in {NoManifest(k) : k \in {"none", "unreadable"}} \cup UNION {ManifestOf(r) : r \in Recorded}
  PROVE  manifest.kind = "capture" =>
           \E r \in Recorded : /\ manifest \in ManifestOf(r) /\ manifest.serial \in {"", r.receiver}
                               /\ manifest.centre \in {0, Centre(r.range)} /\ ManifestRange \in {r.range, NoRange}
<1> SUFFICES ASSUME manifest.kind = "capture"
             PROVE  \E r \in Recorded : /\ manifest \in ManifestOf(r) /\ manifest.serial \in {"", r.receiver}
                                        /\ manifest.centre \in {0, Centre(r.range)} /\ ManifestRange \in {r.range, NoRange}
  OBVIOUS
<1>1. manifest \notin {NoManifest(k) : k \in {"none", "unreadable"}}
  <2> SUFFICES ASSUME NEW k \in {"none", "unreadable"} PROVE NoManifest(k).kind = k
    OBVIOUS
  <2> QED
    BY DEF NoManifest
<1>2. PICK r \in Recorded : manifest \in ManifestOf(r)
  BY <1>1
<1>3. manifest.serial \in {"", r.receiver} /\ manifest.centre \in {0, Centre(r.range)} /\ ManifestRange \in {r.range, NoRange}
  BY <1>2 DEF ManifestOf, ManifestRange
<1> QED
  BY <1>2, <1>3

LEMMA EntriesAre ==
  ASSUME records.entries \subseteq Entered, NEW e \in Entries
  PROVE  /\ e \in records.entries /\ ~IsOther(e.serial)
         /\ e.centre = Centre(e.range) /\ e.range # NoRange /\ e.centre \in Nat
<1>1. e \in records.entries /\ ~IsOther(e.serial)
  BY DEF Entries
<1>2. PICK r \in Recorded : e \in EntryOf(r)
  BY <1>1 DEF Entered
<1>3. e.range = r.range /\ e.centre = Centre(r.range)
  BY <1>2 DEF EntryOf
<1> QED
  BY <1>1, <1>3, RangesAre

(* The two ways to a request that is used *)
LEMMA MatchedFrom ==
  ASSUME lookup = (IF markers THEN FindRequest ELSE Refused("off")), lookup.status = "matched"
  PROVE  /\ markers /\ ~ManifestConflicts
         /\ \/ lookup.from = "manifest" /\ lookup.range = ManifestRange /\ ManifestRange # NoRange
            \/ /\ lookup.from = "history" /\ Entries # {} /\ CentreVerified
               /\ \A e \in Entries : e.centre = chunk.centre
               /\ \E e \in Entries : lookup.range = e.range
<1>1. CASE ~markers
  BY <1>1 DEF Refused, NoLookup
<1>2. CASE markers
  <2>0. lookup = FindRequest
    BY <1>2
  <2>1. ~ManifestConflicts
    BY <2>0 DEF FindRequest, Refused, NoLookup
  <2>2. CASE ManifestRange # NoRange
    <3>1. lookup = Refused("conflict") \/ lookup = [status |-> "matched", range |-> ManifestRange, from |-> "manifest"]
      BY <2>0, <2>1, <2>2 DEF FindRequest
    <3>2. lookup = [status |-> "matched", range |-> ManifestRange, from |-> "manifest"]
      BY <3>1 DEF Refused, NoLookup
    <3> QED
      BY <1>2, <2>1, <2>2, <3>2
  <2>3. CASE ManifestRange = NoRange
    <3>1. HistoryStatus = "matched" /\ lookup = [status |-> "matched", range |-> (CHOOSE e \in Entries : TRUE).range, from |-> "history"]
      <4>1. CASE HistoryStatus = "matched"
        BY <2>0, <2>1, <2>3, <4>1 DEF FindRequest
      <4>2. CASE HistoryStatus # "matched"
        <5>1. lookup.status = IF HistoryStatus \in {"ambiguous", "conflict", "unverified"} THEN HistoryStatus
                              ELSE IF manifest.kind # "none" THEN "not_found" ELSE HistoryStatus
          BY <2>0, <2>1, <2>3, <4>2 DEF FindRequest, Refused, NoLookup
        <5> QED
          BY <5>1, <4>2
      <4> QED
        BY <4>1, <4>2
    <3>2. Entries # {} /\ CentreVerified /\ \A e \in Entries : e.centre = chunk.centre
      BY <3>1 DEF HistoryStatus
    <3>3. (CHOOSE e \in Entries : TRUE) \in Entries
      BY <3>2
    <3> QED
      BY <1>2, <2>1, <3>1, <3>2, <3>3
  <2> QED
    BY <2>2, <2>3
<1> QED
  BY <1>1, <1>2

LEMMA Looked ==
  ASSUME FreqInv, lookup.status = "matched"
  PROVE  lookup = (IF markers THEN FindRequest ELSE Refused("off"))
<1>1. lookup = NoLookup \/ lookup = (IF markers THEN FindRequest ELSE Refused("off"))
  BY Zenon DEF FreqInv
<1>2. NoLookup.status = "none"
  BY DEF NoLookup
<1>3. lookup # NoLookup
  BY <1>2
<1> QED
  BY <1>1, <1>3, Zenon

LEMMA OwnRange ==
  ASSUME FreqInv
  PROVE  RangeIsItsOwn
<1> SUFFICES ASSUME lookup.status = "matched", chunk.receiver # "",
                    manifest.kind = "capture" => manifest.serial # "",
                    \A e \in records.entries : e.serial # "",
                    manifest.serial = Own.receiver => ManifestRange \in {Own.range, NoRange},
                    \A e \in records.entries : e.serial = Own.receiver => e.range = Own.range
             PROVE  lookup.range = Own.range
  BY DEF RangeIsItsOwn
<1>1. lookup = (IF markers THEN FindRequest ELSE Refused("off"))
  BY Looked
<1>2. chunk.receiver = Own.receiver
  BY ChunkIs DEF FreqInv
<1>3. \/ lookup.from = "manifest" /\ lookup.range = ManifestRange /\ ManifestRange # NoRange
      \/ lookup.from = "history" /\ \E e \in Entries : lookup.range = e.range
  BY <1>1, MatchedFrom
<1>4. CASE lookup.from = "manifest" /\ lookup.range = ManifestRange /\ ManifestRange # NoRange
  <2>1. manifest.kind = "capture"
    BY <1>4 DEF ManifestRange
  <2>2. ~IsOther(manifest.serial)
    BY <1>1, <2>1, MatchedFrom DEF ManifestConflicts
  <2>3. manifest.serial = Own.receiver
    BY <1>2, <2>1, <2>2 DEF IsOther
  <2> QED
    BY <1>4, <2>3
<1>5. CASE \E e \in Entries : lookup.range = e.range
  <2>1. PICK e \in Entries : lookup.range = e.range
    BY <1>5
  <2>2. e \in records.entries /\ ~IsOther(e.serial)
    BY DEF Entries
  <2>3. e.serial = Own.receiver
    BY <1>2, <2>2 DEF IsOther
  <2> QED
    BY <2>1, <2>2, <2>3
<1> QED
  BY <1>3, <1>4, <1>5

LEMMA AtCentre ==
  ASSUME FreqInv
  PROVE  RequestIsAtCentre
<1> SUFFICES ASSUME lookup.status = "matched", chunk.centre # 0
             PROVE  Centre(lookup.range) = chunk.centre \/ (lookup.from = "manifest" /\ manifest.centre = 0)
  BY DEF RequestIsAtCentre
<1>1. lookup = (IF markers THEN FindRequest ELSE Refused("off"))
  BY Looked
<1>2. /\ ~ManifestConflicts
      /\ \/ lookup.from = "manifest" /\ lookup.range = ManifestRange /\ ManifestRange # NoRange
         \/ /\ \A e \in Entries : e.centre = chunk.centre
            /\ \E e \in Entries : lookup.range = e.range
  BY <1>1, MatchedFrom
<1>3. CASE lookup.from = "manifest" /\ lookup.range = ManifestRange /\ ManifestRange # NoRange
  <2>1. manifest.kind = "capture"
    BY <1>3 DEF ManifestRange
  <2>2. PICK r \in Recorded : manifest.centre \in {0, Centre(r.range)} /\ ManifestRange \in {r.range, NoRange}
    BY <2>1, ManifestIs DEF FreqInv
  <2>3. manifest.centre = 0 \/ manifest.centre = chunk.centre
    BY <1>2, <2>1 DEF ManifestConflicts, Differs
  <2> QED
    BY <1>3, <2>2, <2>3
<1>4. CASE /\ \A e \in Entries : e.centre = chunk.centre
           /\ \E e \in Entries : lookup.range = e.range
  <2>1. PICK e \in Entries : lookup.range = e.range
    BY <1>4
  <2>2. e.centre = Centre(e.range)
    BY EntriesAre DEF FreqInv
  <2> QED
    BY <1>4, <2>1, <2>2
<1> QED
  BY <1>2, <1>3, <1>4

LEMMA OwnFound ==
  ASSUME FreqInv
  PROVE  OwnIsFound
<1> SUFFICES ASSUME lookup # NoLookup, markers, manifest \in ManifestOf(Own), ManifestRange = Own.range,
                    (\E e \in Entries : e.range = Own.range) \/ Entries = {}
             PROVE  lookup.status = "matched" /\ lookup.range = Own.range
  BY DEF OwnIsFound
<1>1. lookup = FindRequest
  BY DEF FreqInv
<1>2. manifest.serial \in {"", Own.receiver} /\ manifest.centre \in {0, Centre(Own.range)}
  BY DEF ManifestOf
<1>3. chunk.centre \in {0, Centre(Own.range)} /\ chunk.receiver \in {"", Own.receiver}
  BY ChunkIs DEF FreqInv
<1>4. ~ManifestConflicts
  BY <1>2, <1>3 DEF ManifestConflicts, IsOther, Differs
<1>5. Own.range # NoRange
  BY RangesAre DEF Recorded
<1>6. ~HistoryDisagrees
  BY DEF HistoryDisagrees
<1> QED
  BY <1>1, <1>4, <1>5, <1>6 DEF FindRequest

(* Half a width on either side *)
LEMMA AroundIs ==
  ASSUME NEW c \in Int, NEW w \in Nat, NEW v \in Nat
  PROVE  /\ Around(c, w)[1] = c - w \div 2 /\ Around(c, w)[2] = c + w \div 2 /\ w \div 2 \in Nat
         /\ Centre(<<Around(c, w)[1] - Around(c, v)[1], Around(c, w)[2] - Around(c, v)[1]>>) = v \div 2
<1>1. w \div 2 \in Nat /\ v \div 2 \in Nat
  OBVIOUS
<1>2. /\ Around(c, w)[1] = c - w \div 2 /\ Around(c, w)[2] = c + w \div 2 /\ Around(c, v)[1] = c - v \div 2
  BY DEF Around
<1>3. ASSUME NEW a \in Nat, NEW b \in Nat
      PROVE  (((c - a) - (c - b)) + ((c + a) - (c - b))) \div 2 = b
  <2>1. ((c - a) - (c - b)) + ((c + a) - (c - b)) = 2 * b
    OBVIOUS
  <2>2. (2 * b) \div 2 = b
    OBVIOUS
  <2> QED
    BY <2>1, <2>2
<1> QED
  BY <1>1, <1>2, <1>3 DEF Centre

LEMMA Verified ==
  ASSUME FreqInv
  PROVE  MarksAreVerified
<1>0. CASE lookup = NoLookup /\ axis = NoAxis
  BY <1>0 DEF MarksAreVerified, NoAxis, NoLookup
<1>n. CASE lookup = (IF markers THEN FindRequest ELSE Refused("off")) /\ axis = Plan(lookup)
  <2> DEFINE c == IF CentreVerified THEN chunk.centre ELSE 0
             request == IF markers /\ CentreVerified THEN lookup.range ELSE NoRange
  <2>1. /\ axis.absolute <=> CentreVerified
        /\ axis.lo = Around(c, Rate)[1] /\ axis.hi = Around(c, Rate)[2]
        /\ axis.request = request
        /\ axis.sensor = IF markers /\ (request = NoRange \/ request # SensorRange) THEN SensorRange ELSE NoRange
    BY <1>n DEF Plan
  <2>2. chunk.centre \in Nat /\ SensorBandwidth \in Nat /\ (SensorBandwidth # 0 => ~Problem) /\ Rate \in Nat
    BY ChunkIs, FrequencyAssumption DEF FreqInv
  <2>3. axis.request # NoRange => markers /\ axis.absolute /\ ~Problem
    BY <2>1, Zenon DEF CentreVerified
  <2>4. CentreVerified <=> chunk.centre # 0 /\ ~Problem
    BY Zenon DEF CentreVerified
  <2>5. axis.sensor # NoRange => markers /\ axis.sensor = SensorRange /\ axis.sensor # axis.request
    BY <2>1, Zenon
  <2>6. SensorRange # NoRange => ~Problem /\ SensorRange = Around(c, SensorBandwidth)
    BY <2>2, <2>4 DEF SensorRange
  <2>7. c \in Nat
    BY <2>2
  <2> HIDE DEF c, request
  <2>8. axis.sensor # NoRange => Centre(<<axis.sensor[1] - axis.lo, axis.sensor[2] - axis.lo>>) = Rate \div 2
    <3>1. Centre(<<Around(c, SensorBandwidth)[1] - Around(c, Rate)[1], Around(c, SensorBandwidth)[2] - Around(c, Rate)[1]>>) = Rate \div 2
      BY <2>2, <2>7, AroundIs
    <3> QED
      BY <2>1, <2>5, <2>6, <3>1, Zenon
  <2>9. ASSUME axis.request # NoRange, lookup.from = "history" PROVE Side(Centre(axis.request)) = "in_view"
    <3>1. markers /\ CentreVerified /\ axis.request = lookup.range
      BY <2>1, <2>9, Zenon DEF request
    <3>2. lookup.status = "matched"
      BY <1>n, <3>1, <2>9 DEF FindRequest, Refused, NoLookup
    <3>3. /\ \A e \in Entries : e.centre = chunk.centre
          /\ \E e \in Entries : lookup.range = e.range
      BY <1>n, <2>9, <3>2, MatchedFrom
    <3>4. PICK e \in Entries : lookup.range = e.range
      BY <3>3
    <3>5. Centre(axis.request) = chunk.centre
      BY <3>1, <3>3, <3>4, EntriesAre DEF FreqInv
    <3>6. c = chunk.centre
      BY <3>1 DEF c
    <3>7. Around(c, Rate)[1] = c - Rate \div 2 /\ Around(c, Rate)[2] = c + Rate \div 2 /\ Rate \div 2 \in Nat
      <4>1. Rate \in Nat /\ c \in Int
        BY <2>2, <2>7
      <4> QED
        BY <4>1, AroundIs, Zenon
    <3>8. ~(c < axis.lo) /\ ~(c > axis.hi)
      BY <2>1, <2>7, <3>7
    <3> QED
      BY <3>5, <3>6, <3>8 DEF Side
  <2> QED
    BY <2>3, <2>5, <2>6, <2>8, <2>9, Zenon DEF MarksAreVerified
<1> QED
  BY <1>0, <1>n DEF FreqInv

LEMMA FreqKept ==
  ASSUME FreqInv, [LookUp]_freq_vars
  PROVE  FreqInv'
<1>1. CASE LookUp
  <2>1. UNCHANGED <<chunk, manifest, records, markers>>
    BY <1>1 DEF LookUp
  <2>2. lookup' = (IF markers THEN FindRequest ELSE Refused("off")) /\ axis' = Plan(lookup')
    BY <1>1 DEF LookUp
  <2>3. (IF markers THEN FindRequest ELSE Refused("off"))' = (IF markers THEN FindRequest ELSE Refused("off"))
    BY <2>1 DEF FindRequest, ManifestConflicts, ManifestRange, HistoryDisagrees, HistoryStatus, Entries, CentreVerified,
                Problem, IsOther, Differs
  <2>5. Plan(lookup)' = Plan(lookup')
    BY <2>1 DEF Plan, CentreVerified, SensorRange, SensorBandwidth, Problem
  <2> QED
    BY <2>1, <2>2, <2>3, <2>5 DEF FreqInv
<1>2. CASE UNCHANGED freq_vars
  <2>1. UNCHANGED <<chunk, manifest, records, markers, lookup, axis>>
    BY <1>2 DEF freq_vars
  <2>2. (IF markers THEN FindRequest ELSE Refused("off"))' = (IF markers THEN FindRequest ELSE Refused("off"))
    BY <2>1 DEF FindRequest, ManifestConflicts, ManifestRange, HistoryDisagrees, HistoryStatus, Entries, CentreVerified,
                Problem, IsOther, Differs
  <2>3. Plan(lookup)' = Plan(lookup)
    BY <2>1 DEF Plan, CentreVerified, SensorRange, SensorBandwidth, Problem
  <2> QED
    BY <2>1, <2>2, <2>3, Zenon DEF FreqInv
<1> QED
  BY <1>1, <1>2

LEMMA FreqBegins ==
  ASSUME FreqInit
  PROVE  FreqInv
<1>0. records \in Histories
  BY DEF FreqInit
<1>1. records.entries \subseteq Entered
  <2>1. \A some \in EntriesGiven : some \subseteq Entered
    BY DEF EntriesGiven
  <2>2. records.entries = {} \/ records.entries \in EntriesGiven
    <3>1. records = [there |-> FALSE, entries |-> {}] \/ records \in [there : {TRUE}, entries : EntriesGiven]
      BY <1>0, Zenon DEF Histories
    <3>2. [there |-> FALSE, entries |-> {}].entries = {}
      OBVIOUS
    <3>3. records \in [there : {TRUE}, entries : EntriesGiven] => records.entries \in EntriesGiven
      OBVIOUS
    <3> QED
      BY <3>1, <3>2, <3>3, Zenon
  <2> QED
    BY <2>1, <2>2
<1> QED
  BY <1>1 DEF FreqInit, FreqInv

(* What the Converter marks in a picture is true of the file: the request is its own whenever file and
   records name their receivers, it lies at the file's centre, the own manifest is not passed over, and without a
   verified centre nothing is placed by absolute frequency (find_request(), _frequency_plan()): for any
   recordings of the same name, bandwidths and rate.                                                    *)
THEOREM MarksRight == FreqSpec => []MarksAreRight
<1>1. FreqInit => FreqInv
  BY FreqBegins
<1>2. FreqInv /\ [LookUp]_freq_vars => FreqInv'
  BY FreqKept
<1>3. FreqInv => MarksAreRight
  BY OwnRange, AtCentre, OwnFound, Verified DEF MarksAreRight
<1> QED
  BY <1>1, <1>2, <1>3, PTL DEF FreqSpec
=============================================================================
