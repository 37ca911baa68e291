--------------------------- MODULE BackgroundProofs ---------------------------
(***************************************************************************)
(* Theorems about the jobs in the background of the program.               *)
(*                                                                         *)
(*   MergeSafe       no merge is repeated or left half done by itself, for *)
(*                   any number of recordings, parts, files and restarts   *)
(*                   (MergeQueue).                                         *)
(*   ConnectsPaced   no more connects begin within a window than may, no   *)
(*                   more handshakes are made at once than there are       *)
(*                   slots, and after a timeout connects are tried one at  *)
(*                   a time, for any number of users (ConnectPacer).       *)
(*   CheckReliable   a check that lets a pass begin read what it says it   *)
(*                   read, whatever raised (PreCheck).                     *)
(***************************************************************************)
EXTENDS MergeQueue, ConnectPacer, PreCheck, TLAPS, NaturalsInduction, FiniteSetTheorems

(* What is asked of a request that waits, or that is merged: its recording is over when the
   request is automatic, and there is no whole file of the same parts but its own.          *)
Eligible(r) == held[r.group] >= 2 /\ (r.auto => r.group # recording)
Unmade(r) == r.auto => \A o \in outputs : o.group = r.group /\ o.parts = r.parts => ~o.sidecar

QueueFine(q) ==
  \A i \in 1 .. Len(q) : Eligible(q[i]) /\ Unmade(q[i]) /\ (q[i].auto => enabled)
Apart(q) == \A i, k \in 1 .. Len(q) : q[i].group = q[k].group => i = k

OwnFile(j, o) == o.group = j.group /\ o.index = j.index
Alone(j) == \A i \in 1 .. Len(queue) : queue[i].group # j.group
NoFileYet(j) == j.stage \in {"copying", "failed", "cancelled"} => \A o \in outputs : ~OwnFile(j, o)
NoSidecarYet(j) == j.stage = "moved" => \A o \in outputs : OwnFile(j, o) => ~o.sidecar
FileIsOfIt(j) == \A o \in outputs : OwnFile(j, o) => o.parts = j.parts /\ o.auto = j.auto
OthersUnmade(j) ==
  j.auto => \A o \in outputs : o.group = j.group /\ o.parts = j.parts /\ o.sidecar => o.index = j.index
FilesFine(j) == NoFileYet(j) /\ NoSidecarYet(j) /\ FileIsOfIt(j) /\ OthersUnmade(j)
JobFine(j) == Eligible(j) /\ Alone(j) /\ FilesFine(j)

Output == [group : Groups, index : Counts, parts : Counts, auto : BOOLEAN, sidecar : BOOLEAN]
Switches == running \in BOOLEAN /\ enabled \in BOOLEAN
Records ==
  /\ held \in [Groups -> Counts] /\ recording \in Groups \cup {NoGroup}
  /\ queue \in Seq(Request) /\ seen \subseteq Groups /\ job \subseteq Job
  /\ registry \in [Groups -> SUBSET [parts : Counts, index : Counts]]
  /\ outputs \subseteq Output /\ restarts \in 0 .. MaxRestarts
Turns ==
  /\ \A j, k \in job : j = k
  /\ ~running => job = {} /\ queue = <<>>
  /\ running => partials = {<<j.group, j.index>> : j \in {k \in job : k.stage = "copying"}}

MergeInv ==
  /\ Switches /\ Records /\ Turns
  /\ QueueFine(queue) /\ Apart(queue)
  /\ \A j \in job : JobFine(j)
  /\ MergedOnce

LEMMA LeastExists ==
  ASSUME NEW S \in SUBSET Nat, S # {}
  PROVE  \E i \in S : \A j \in S : i <= j
<1> DEFINE R == {ss \in Nat \X Nat : ss[1] < ss[2]}
<1>1. IsWellFoundedOn(R, Nat)
  BY NatLessThanWellFounded DEF OpToRel
<1>2. PICK i \in S : \A j \in S : <<j, i>> \notin R
  BY <1>1, WFMin, Zenon
<1>3. \A j \in S : ~(j < i)
  BY <1>2
<1> QED
  BY <1>3

(* A free index is one of a file that is neither there nor being written. *)
LEMMA FreeIndex ==
  ASSUME NEW g \in Groups, FreeIndices(g) # {}
  PROVE  LET index == CHOOSE i \in FreeIndices(g) : \A k \in FreeIndices(g) : i <= k
         IN  index \in Counts /\ index \in FreeIndices(g)
<1>1. FreeIndices(g) \subseteq Counts /\ FreeIndices(g) \in SUBSET Nat
  BY MergeQueueAssumption DEF FreeIndices, Counts
<1>2. \E i \in FreeIndices(g) : \A k \in FreeIndices(g) : i <= k
  BY <1>1, LeastExists
<1> QED
  BY <1>1, <1>2

LEMMA QueueElements ==
  ASSUME NEW q \in Seq(Request)
  PROVE  /\ Len(q) \in Nat
         /\ \A i \in 1 .. Len(q) : q[i] \in Request /\ q[i].group \in Groups /\ q[i].parts \in Counts
         /\ \A n \in 1 .. Len(q) + 1 :
              /\ SubSeq(q, n + 1, Len(q)) \in Seq(Request)
              /\ \A i \in 1 .. Len(SubSeq(q, n + 1, Len(q))) :
                   i + n \in 1 .. Len(q) /\ SubSeq(q, n + 1, Len(q))[i] = q[i + n]
<1>1. Len(q) \in Nat /\ \A i \in 1 .. Len(q) : q[i] \in Request
  OBVIOUS
<1>2. \A r \in Request : r.group \in Groups /\ r.parts \in Counts
  BY DEF Request
<1>3. ASSUME NEW n \in 1 .. Len(q) + 1
      PROVE  /\ SubSeq(q, n + 1, Len(q)) \in Seq(Request)
             /\ \A i \in 1 .. Len(SubSeq(q, n + 1, Len(q))) :
                  i + n \in 1 .. Len(q) /\ SubSeq(q, n + 1, Len(q))[i] = q[i + n]
  <2>1. SubSeq(q, n + 1, Len(q)) \in Seq(Request)
    BY <1>1
  <2>2. Len(SubSeq(q, n + 1, Len(q))) = IF n + 1 <= Len(q) THEN Len(q) - n ELSE 0
    BY <1>1
  <2> QED
    BY <1>1, <2>1, <2>2
<1> QED
  BY <1>1, <1>2, <1>3

(* _pump(): the first of the requests that can be merged starts, those after it go on waiting. *)
LEMMA PumpKeeps ==
  ASSUME Records, QueueFine(queue), NEW q \in Seq(Request), NEW s \in SUBSET Groups,
         QueueFine(q), Apart(q), running, partials = {},
         Pump(q, s), UNCHANGED <<running, held, recording, enabled, registry, outputs, restarts>>
  PROVE  /\ Records' /\ Turns' /\ QueueFine(queue)' /\ Apart(queue)' /\ \A j \in job' : JobFine(j)'
<1> DEFINE good == {i \in 1 .. Len(q) : q[i].group \notin Broken}
           n == IF good = {} THEN Len(q) + 1 ELSE CHOOSE i \in good : \A k \in good : i <= k
           free == FreeIndices(q[n].group)
           index == CHOOSE i \in free : \A k \in free : i <= k
           new == [group |-> q[n].group, parts |-> q[n].parts, auto |-> q[n].auto,
                   index |-> index, stage |-> "copying", cancel |-> FALSE]
<1>1. /\ seen' = s \ {q[i].group : i \in 1 .. n - 1}
      /\ queue' = SubSeq(q, n + 1, Len(q))
      /\ good = {} => job' = {} /\ partials' = partials
      /\ good # {} => free # {} /\ job' = {new} /\ partials' = partials \cup {<<q[n].group, index>>}
  BY DEF Pump
<1>2. Len(q) \in Nat
  BY QueueElements
<1>3. n \in 1 .. Len(q) + 1 /\ (good # {} => n \in 1 .. Len(q))
  <2>1. good \in SUBSET Nat /\ good \subseteq 1 .. Len(q)
    BY <1>2
  <2> HIDE DEF good
  <2>2. CASE good = {}
    BY <1>2, <2>2
  <2>3. CASE good # {}
    <3>1. \E i \in good : \A k \in good : i <= k
      BY <2>1, <2>3, LeastExists
    <3>2. n = CHOOSE i \in good : \A k \in good : i <= k
      BY <2>3
    <3>3. n \in 1 .. Len(q)
      BY <2>1, <3>1, <3>2
    <3> HIDE DEF n
    <3> QED
      BY <1>2, <3>3
  <2> QED
    BY <2>2, <2>3
<1> HIDE DEF good, n
<1>4. /\ queue' \in Seq(Request)
      /\ \A i \in 1 .. Len(queue') : i + n \in 1 .. Len(q) /\ queue'[i] = q[i + n]
  BY <1>1, <1>3, QueueElements
<1>5. QueueFine(queue)' /\ Apart(queue)'
  <2>1. Len(queue') \in Nat
    BY <1>4, QueueElements
  <2>2. QueueFine(queue)'
    BY <1>4 DEF QueueFine, Eligible, Unmade
  <2>3. Apart(queue)'
    <3> SUFFICES ASSUME NEW i \in 1 .. Len(queue'), NEW k \in 1 .. Len(queue'),
                        queue'[i].group = queue'[k].group
                 PROVE  i = k
      BY DEF Apart
    <3>1. i + n = k + n
      BY <1>4 DEF Apart
    <3> QED
      BY <1>2, <1>3, <2>1, <3>1
  <2> QED
    BY <2>2, <2>3
<1>6. CASE good = {}
  <2>1. job' = {} /\ partials' = {}
    BY <1>1, <1>6
  <2> QED
    BY <1>1, <1>4, <1>5, <2>1 DEF Records, Turns
<1>7. CASE good # {}
  <2>1. n \in 1 .. Len(q) /\ q[n] \in Request /\ q[n].group \in Groups
    BY <1>3, <1>7, QueueElements
  <2>2. index \in Counts /\ index \in free
    BY <1>1, <1>7, <2>1, FreeIndex
  <2>3. ~ \E o \in outputs : o.group = q[n].group /\ o.index = index
    BY <2>2 DEF FreeIndices
  <2> HIDE DEF index, free
  <2>4. new \in Job /\ new.group = q[n].group /\ new.parts = q[n].parts /\ new.auto = q[n].auto
        /\ new.index = index /\ new.stage = "copying"
    BY <2>1, <2>2 DEF Request, Job, Stages
  <2> HIDE DEF new
  <2>5. PICK r \in Job : r = new
    BY <2>4
  <2>6. /\ r.group = q[n].group /\ r.parts = q[n].parts /\ r.auto = q[n].auto
        /\ r.index = index /\ r.stage = "copying"
    BY <2>4, <2>5
  <2>7. job' = {r} /\ partials' = {<<r.group, r.index>>}
    BY <1>1, <1>7, <2>5, <2>6
  <2>8. \A i \in 1 .. Len(queue') : queue'[i].group # r.group
    <3> TAKE i \in 1 .. Len(queue')
    <3>1. i + n \in 1 .. Len(q) /\ queue'[i] = q[i + n]
      BY <1>4
    <3>2. Len(queue') \in Nat
      BY <1>4, QueueElements
    <3>3. i + n # n
      BY <1>3, <1>2, <3>2
    <3> QED
      BY <2>1, <2>6, <3>1, <3>3 DEF Apart
  <2>9. Eligible(q[n]) /\ Unmade(q[n])
    BY <2>1 DEF QueueFine
  <2>10. JobFine(r)'
    <3>1. Eligible(r)'
      BY <2>6, <2>9 DEF Eligible
    <3>2. \A o \in outputs' : ~OwnFile(r, o)
      BY <2>3, <2>6 DEF OwnFile
    <3>3. r.auto => \A o \in outputs' : o.group = r.group /\ o.parts = r.parts => ~o.sidecar
      BY <2>6, <2>9 DEF Unmade
    <3>4. FilesFine(r)'
      <4>1. NoFileYet(r)' /\ NoSidecarYet(r)' /\ FileIsOfIt(r)'
        BY <2>6, <3>2 DEF NoFileYet, NoSidecarYet, FileIsOfIt
      <4>2. OthersUnmade(r)'
        BY <3>3 DEF OthersUnmade
      <4> QED
        BY <4>1, <4>2 DEF FilesFine
    <3> QED
      BY <2>8, <3>1, <3>4 DEF JobFine, Alone
  <2>11. Records'
    BY <1>1, <1>4, <2>7 DEF Records
  <2>12. Turns'
    BY <2>6, <2>7 DEF Turns
  <2> QED
    BY <1>5, <2>7, <2>10, <2>11, <2>12
<1> QED
  BY <1>6, <1>7

(* A job has the fields of its request, whatever its stage. *)
LEMMA JobFields ==
  ASSUME NEW j \in Job
  PROVE  /\ j.group \in Groups /\ j.parts \in Counts /\ j.index \in Counts
         /\ \A stage \in Stages :
              /\ [j EXCEPT !.stage = stage] \in Job
              /\ [j EXCEPT !.stage = stage].group = j.group /\ [j EXCEPT !.stage = stage].parts = j.parts
              /\ [j EXCEPT !.stage = stage].auto = j.auto /\ [j EXCEPT !.stage = stage].index = j.index
              /\ [j EXCEPT !.stage = stage].stage = stage
         /\ /\ [j EXCEPT !.cancel = TRUE] \in Job
            /\ [j EXCEPT !.cancel = TRUE].group = j.group /\ [j EXCEPT !.cancel = TRUE].parts = j.parts
            /\ [j EXCEPT !.cancel = TRUE].auto = j.auto /\ [j EXCEPT !.cancel = TRUE].index = j.index
            /\ [j EXCEPT !.cancel = TRUE].stage = j.stage
  BY DEF Job

LEMMA InitSafe == Init => MergeInv
<1> SUFFICES ASSUME Init PROVE MergeInv
  OBVIOUS
<1>1. Switches
  BY DEF Init, Switches
<1>2. held \in [Groups -> Counts] /\ registry \in [Groups -> SUBSET [parts : Counts, index : Counts]]
  BY DEF Init, Counts
<1>3. Records
  BY <1>2, MergeQueueAssumption DEF Init, Records
<1>4. Turns
  BY DEF Init, Turns
<1> QED
  BY <1>1, <1>3, <1>4 DEF Init, MergeInv, QueueFine, Apart, MergedOnce

(* What is on the disk and what waits is all that FilesFine and Alone speak of. *)
LEMMA FilesStay ==
  ASSUME NEW j, UNCHANGED outputs
  PROVE  FilesFine(j) => FilesFine(j)'
<1>1. (NoFileYet(j) => NoFileYet(j)') /\ (NoSidecarYet(j) => NoSidecarYet(j)')
  BY DEF NoFileYet, NoSidecarYet
<1>2. FileIsOfIt(j) => FileIsOfIt(j)'
  BY DEF FileIsOfIt
<1>3. OthersUnmade(j) => OthersUnmade(j)'
  BY DEF OthersUnmade
<1> QED
  BY <1>1, <1>2, <1>3 DEF FilesFine

LEMMA WaitingStays ==
  ASSUME Records, QueueFine(queue), Apart(queue), \A j \in job : JobFine(j), UNCHANGED <<queue, job, outputs, enabled>>,
         \A r : r.group \in Groups /\ Eligible(r) => Eligible(r)'
  PROVE  QueueFine(queue)' /\ Apart(queue)' /\ \A j \in job' : JobFine(j)'
<1>1. \A i \in 1 .. Len(queue) : queue[i].group \in Groups
  BY QueueElements DEF Records
<1>2. \A r : Unmade(r) => Unmade(r)'
  BY DEF Unmade
<1>3. QueueFine(queue)'
  BY <1>1, <1>2 DEF QueueFine
<1>4. Apart(queue)'
  BY DEF Apart
<1>5. ASSUME NEW j \in job' PROVE JobFine(j)'
  <2>1. JobFine(j) /\ j.group \in Groups
    BY JobFields DEF Records
  <2>2. Alone(j)' /\ FilesFine(j)' /\ Eligible(j)'
    BY <2>1, FilesStay DEF JobFine, Alone
  <2> QED
    BY <2>2 DEF JobFine
<1> QED
  BY <1>3, <1>4, <1>5

(* Nothing that waits or is merged is recorded, so a capture that starts is of another recording. *)
LEMMA CaptureSafe == ASSUME MergeInv, NEW g \in Groups, Capture(g) PROVE MergeInv'
<1> USE DEF MergeInv, queue_vars, disk_vars
<1>1. recording' \in Groups \cup {NoGroup} /\ (recording' # NoGroup => recording' = g /\ held[g] = 0)
  BY DEF Capture
<1>2. \A r : r.group \in Groups /\ Eligible(r) => Eligible(r)'
  BY <1>1, MergeQueueAssumption DEF Eligible, Capture
<1>3. Records' /\ Switches' /\ Turns'
  BY <1>1 DEF Records, Switches, Turns, Capture
<1>4. QueueFine(queue)' /\ Apart(queue)' /\ \A j \in job' : JobFine(j)'
  BY <1>2, WaitingStays DEF Capture
<1> QED
  BY <1>3, <1>4 DEF Capture, MergedOnce

LEMMA PartsArriveSafe == ASSUME MergeInv, NEW g \in Groups, PartsArrive(g) PROVE MergeInv'
<1> USE DEF MergeInv, queue_vars, disk_vars
<1>1. held' \in [Groups -> Counts] /\ \A h \in Groups : held'[h] >= held[h]
  <2>1. held \in [Groups -> Counts] /\ held[g] < MaxParts[g] /\ MaxParts[g] \in 0 .. 3
    BY MergeQueueAssumption DEF PartsArrive, Records
  <2>2. PICK n : n = IF held[g] = 0 THEN 2 ELSE held[g] + 1
    OBVIOUS
  <2>3. held' = [held EXCEPT ![g] = n]
    BY <2>2 DEF PartsArrive
  <2>4. n \in Counts /\ n >= held[g]
    BY <2>1, <2>2 DEF Counts
  <2>5. \A h \in Groups : held[h] >= held[h]
    BY <2>1 DEF Counts
  <2>6. \A h \in Groups : held'[h] = IF h = g THEN n ELSE held[h]
    BY <2>1, <2>3
  <2> QED
    BY <2>1, <2>3, <2>4, <2>5, <2>6
<1>2. \A r : r.group \in Groups /\ Eligible(r) => Eligible(r)'
  BY <1>1 DEF Eligible, PartsArrive, Records, Counts
<1>3. Records' /\ Switches' /\ Turns'
  BY <1>1 DEF Records, Switches, Turns, PartsArrive
<1>4. QueueFine(queue)' /\ Apart(queue)' /\ \A j \in job' : JobFine(j)'
  BY <1>2, WaitingStays DEF PartsArrive
<1> QED
  BY <1>3, <1>4 DEF PartsArrive, MergedOnce

(* Of what was merged already no automatic request is made. *)
LEMMA NotMergedYet ==
  ASSUME NEW g \in Groups, NEW n, NEW auto \in BOOLEAN, ~MergedAlready(g, n, auto)
  PROVE  Unmade([group |-> g, parts |-> n, auto |-> auto])
<1> SUFFICES ASSUME auto, NEW o \in outputs, o.group = g, o.parts = n, o.sidecar
             PROVE  FALSE
  BY DEF Unmade
<1> QED
  BY DEF MergedAlready, Found

(* request(): what is accepted is of a recording that is over and was not asked for before. *)
LEMMA RequestMergeSafe ==
  ASSUME MergeInv, NEW g \in Groups, NEW auto \in BOOLEAN, RequestMerge(g, auto)
  PROVE  MergeInv'
<1> USE DEF MergeInv
<1> DEFINE r == [group |-> g, parts |-> held[g], auto |-> auto]
           q == Append(queue, r)
<1>1. /\ running /\ held[g] >= 2 /\ (auto => enabled) /\ ~LiveHeldBack(g, auto) /\ ~Waiting(g)
      /\ ~MergedAlready(g, held[g], auto)
      /\ IF job = {} THEN Pump(q, seen \cup {g})
         ELSE queue' = q /\ seen' = seen \cup {g} /\ UNCHANGED <<job, partials>>
      /\ UNCHANGED <<running, held, recording, enabled, registry, outputs, restarts>>
  BY DEF RequestMerge
<1>2. r \in Request /\ r.group = g
  BY DEF Records, Request
<1>3. Eligible(r) /\ Unmade(r) /\ (r.auto => enabled)
  <2>1. Unmade(r)
    BY <1>1, NotMergedYet
  <2>2. Eligible(r)
    BY <1>1 DEF Eligible, LiveHeldBack
  <2> QED
    BY <1>1, <2>1, <2>2
<1> HIDE DEF r
<1>4. PICK one : one = r
  OBVIOUS
<1>5. PICK all : all = Append(queue, one)
  OBVIOUS
<1>6. /\ all \in Seq(Request) /\ Len(queue) \in Nat /\ Len(all) = Len(queue) + 1
      /\ \A i \in 1 .. Len(queue) : all[i] = queue[i]
      /\ all[Len(queue) + 1] = one
  BY <1>2, <1>4, <1>5 DEF Records
<1>7. QueueFine(all)
  <2> SUFFICES ASSUME NEW i \in 1 .. Len(all)
               PROVE  Eligible(all[i]) /\ Unmade(all[i]) /\ (all[i].auto => enabled)
    BY DEF QueueFine
  <2>1. CASE i \in 1 .. Len(queue)
    BY <1>6, <2>1 DEF QueueFine
  <2>2. CASE i = Len(queue) + 1
    BY <1>3, <1>4, <1>6, <2>2
  <2> QED
    BY <1>6, <2>1, <2>2
<1>8. Apart(all)
  BY <1>1, <1>2, <1>4, <1>6 DEF Apart, Waiting
<1>9. CASE job = {}
  <2>1. partials = {}
    BY <1>1, <1>9 DEF Turns
  <2>2. Pump(all, seen \cup {g}) /\ seen \cup {g} \in SUBSET Groups
    BY <1>1, <1>4, <1>5, <1>9 DEF Records
  <2>3. Records' /\ Turns' /\ QueueFine(queue)' /\ Apart(queue)' /\ \A j \in job' : JobFine(j)'
    BY <1>1, <1>6, <1>7, <1>8, <2>1, <2>2, PumpKeeps
  <2> QED
    BY <1>1, <2>3 DEF Switches, MergedOnce
<1>10. CASE job # {}
  <2>1. queue' = all /\ seen' = seen \cup {g} /\ UNCHANGED <<job, partials>>
    BY <1>1, <1>4, <1>5, <1>10
  <2>2. Records' /\ Turns' /\ Switches'
    BY <1>1, <1>6, <2>1 DEF Records, Turns, Switches
  <2>3. QueueFine(queue)' /\ Apart(queue)'
    <3>1. \A x : Eligible(x) => Eligible(x)'
      BY <1>1 DEF Eligible
    <3>2. \A x : Unmade(x) => Unmade(x)'
      BY <1>1 DEF Unmade
    <3>3. QueueFine(queue)'
      BY <1>1, <1>7, <2>1, <3>1, <3>2 DEF QueueFine
    <3> QED
      BY <1>8, <2>1, <3>3 DEF Apart
  <2>4. ASSUME NEW j \in job' PROVE JobFine(j)'
    <3>1. JobFine(j) /\ j.group # g
      BY <1>1, <2>1, <2>4 DEF Waiting
    <3>2. Alone(j)'
      BY <1>2, <1>4, <1>6, <2>1, <3>1 DEF JobFine, Alone
    <3>3. Eligible(j)' /\ FilesFine(j)'
      BY <1>1, <3>1, FilesStay DEF JobFine, Eligible
    <3> QED
      BY <3>2, <3>3 DEF JobFine
  <2> QED
    BY <1>1, <2>2, <2>3, <2>4 DEF MergedOnce
<1> QED
  BY <1>9, <1>10

(* set_enabled(): what waits further was asked for by hand. *)
LEMMA SetEnabledSafe == ASSUME MergeInv, SetEnabled PROVE MergeInv'
<1> USE DEF MergeInv
<1>1. /\ enabled' = ~enabled /\ UNCHANGED <<running, held, recording, job, registry, outputs, partials, restarts>>
      /\ running
  BY DEF SetEnabled, disk_vars
<1>2. \A x : (Eligible(x) => Eligible(x)') /\ (Unmade(x) => Unmade(x)')
  BY <1>1 DEF Eligible, Unmade
<1>3. CASE ~enabled
  <2>1. queue' = queue /\ seen' = seen /\ enabled'
    BY <1>1, <1>3 DEF SetEnabled
  <2>2. Records' /\ Turns' /\ Switches'
    BY <1>1, <2>1 DEF Records, Turns, Switches
  <2>3. QueueFine(queue)' /\ Apart(queue)'
    BY <1>2, <2>1 DEF QueueFine, Apart
  <2>4. ASSUME NEW j \in job' PROVE JobFine(j)'
    BY <1>1, <1>2, <2>1, <2>4, FilesStay DEF JobFine, Alone
  <2> QED
    BY <1>1, <2>2, <2>3, <2>4 DEF MergedOnce
<1>4. CASE enabled
  <2> DEFINE places == {k \in 1 .. Len(queue) : ~queue[k].auto}
  <2>0. PICK n \in 0 .. Len(queue) : \E f \in [1 .. n -> 1 .. Len(queue)] :
          Keeps(f, places) /\ queue' = [i \in 1 .. n |-> queue[f[i]]]
    BY <1>4 DEF SetEnabled
  <2>1. PICK f \in [1 .. n -> 1 .. Len(queue)] :
          Keeps(f, places) /\ queue' = [i \in 1 .. n |-> queue[f[i]]]
    BY <2>0
  <2>2. seen' \subseteq seen
    BY <1>4 DEF SetEnabled
  <2>3. /\ Len(queue) \in Nat
        /\ \A k \in 1 .. Len(queue) : queue[k] \in Request
    BY QueueElements DEF Records
  <2>4. \A i \in 1 .. n : f[i] \in 1 .. Len(queue) /\ ~queue[f[i]].auto
    BY <2>1 DEF Keeps
  <2>5. \A i, k \in 1 .. n : f[i] = f[k] => i = k
    <3> SUFFICES ASSUME NEW i \in 1 .. n, NEW k \in 1 .. n, f[i] = f[k], i # k
                 PROVE  FALSE
      OBVIOUS
    <3>1. i < k \/ k < i
      BY <2>3
    <3>2. f[i] < f[k] \/ f[k] < f[i]
      BY <2>1, <3>1 DEF Keeps
    <3> QED
      BY <2>3, <2>4, <3>2
  <2>6. queue' \in Seq(Request) /\ Len(queue') = n /\ n \in Nat
    BY <2>1, <2>3, <2>4
  <2>7. \A i \in 1 .. n : queue'[i] = queue[f[i]]
    BY <2>1
  <2> HIDE DEF places
  <2>8. Records'
    BY <1>1, <2>2, <2>6 DEF Records
  <2>9. Turns'
    BY <1>1 DEF Turns
  <2>10. Switches'
    BY <1>1 DEF Switches
  <2>11. QueueFine(queue)'
    <3>1. \A i \in 1 .. n : \E x : queue'[i] = x /\ Eligible(x)' /\ Unmade(x)' /\ ~x.auto
      <4> TAKE i \in 1 .. n
      <4>1. PICK x : x = queue[f[i]]
        OBVIOUS
      <4>2. Eligible(x) /\ Unmade(x) /\ ~x.auto
        BY <2>4, <4>1 DEF QueueFine
      <4>3. queue'[i] = x
        BY <2>7, <4>1
      <4>4. Eligible(x)' /\ Unmade(x)'
        BY <1>2, <4>2
      <4> QED
        BY <4>2, <4>3, <4>4
    <3> QED
      BY <2>6, <2>7, <3>1 DEF QueueFine
  <2>12. Apart(queue)'
    <3> SUFFICES ASSUME NEW i \in 1 .. n, NEW k \in 1 .. n, queue'[i].group = queue'[k].group
                 PROVE  i = k
      BY <2>6 DEF Apart
    <3>1. queue[f[i]].group = queue[f[k]].group
      BY <2>7
    <3> QED
      BY <2>4, <2>5, <3>1 DEF Apart
  <2>13. ASSUME NEW j \in job' PROVE JobFine(j)'
    <3>1. JobFine(j)
      BY <1>1, <2>13
    <3>2. Alone(j)'
      BY <2>4, <2>6, <2>7, <3>1 DEF JobFine, Alone
    <3> QED
      BY <1>1, <1>2, <3>1, <3>2, FilesStay DEF JobFine
  <2> QED
    BY <1>1, <2>8, <2>9, <2>10, <2>11, <2>12, <2>13 DEF MergedOnce
<1> QED
  BY <1>3, <1>4

(* cancel(): nothing waits any more, and the running merge is asked to stop. *)
LEMMA CancelMergeSafe == ASSUME MergeInv, CancelMerge PROVE MergeInv'
<1> USE DEF MergeInv
<1>1. /\ queue' = <<>> /\ seen' \subseteq seen /\ job' = {[j EXCEPT !.cancel = TRUE] : j \in job}
      /\ UNCHANGED <<running, held, recording, enabled, registry, outputs, partials, restarts>>
  BY DEF CancelMerge, disk_vars
<1>2. \A j \in job' : \E k \in job :
        /\ j \in Job /\ j.group = k.group /\ j.index = k.index /\ j.parts = k.parts /\ j.auto = k.auto
        /\ j.stage = k.stage
  <2> TAKE j \in job'
  <2>1. PICK k \in job : j = [k EXCEPT !.cancel = TRUE]
    BY <1>1
  <2>2. k \in Job
    BY DEF Records
  <2> QED
    BY <2>1, <2>2, JobFields
<1>3. \A k \in job : \E j \in job' : j.group = k.group /\ j.index = k.index /\ j.stage = k.stage
  <2> TAKE k \in job
  <2>1. k \in Job /\ [k EXCEPT !.cancel = TRUE] \in job'
    BY <1>1 DEF Records
  <2> QED
    BY <2>1, JobFields
<1>4. Switches' /\ Records'
  <2>1. job' \subseteq Job /\ queue' \in Seq(Request)
    BY <1>1, <1>2
  <2> QED
    BY <1>1, <2>1 DEF Switches, Records
<1>5. Turns'
  <2>1. \A j, k \in job' : j = k
    BY <1>1 DEF Turns
  <2>2. ~running' => job' = {} /\ queue' = <<>>
    BY <1>1 DEF Turns
  <2>3. {<<j.group, j.index>> : j \in {k \in job' : k.stage = "copying"}}
          = {<<j.group, j.index>> : j \in {k \in job : k.stage = "copying"}}
    BY <1>2, <1>3
  <2> QED
    BY <1>1, <2>1, <2>2, <2>3 DEF Turns
<1>6. QueueFine(queue)' /\ Apart(queue)'
  BY <1>1 DEF QueueFine, Apart
<1>7. ASSUME NEW j \in job' PROVE JobFine(j)'
  <2>1. PICK k \in job : j.group = k.group /\ j.index = k.index /\ j.parts = k.parts /\ j.auto = k.auto
                         /\ j.stage = k.stage
    BY <1>2
  <2>2. JobFine(k)
    OBVIOUS
  <2>3. Eligible(j)' /\ Alone(j)'
    BY <1>1, <2>1, <2>2 DEF JobFine, Eligible, Alone
  <2>4. FilesFine(j)'
    <3>1. NoFileYet(j)' /\ NoSidecarYet(j)'
      BY <1>1, <2>1, <2>2 DEF JobFine, FilesFine, NoFileYet, NoSidecarYet, OwnFile
    <3>2. FileIsOfIt(j)'
      BY <1>1, <2>1, <2>2 DEF JobFine, FilesFine, FileIsOfIt, OwnFile
    <3>3. OthersUnmade(j)'
      BY <1>1, <2>1, <2>2 DEF JobFine, FilesFine, OthersUnmade
    <3> QED
      BY <3>1, <3>2, <3>3 DEF FilesFine
  <2> QED
    BY <2>3, <2>4 DEF JobFine
<1> QED
  BY <1>1, <1>4, <1>5, <1>6, <1>7 DEF MergedOnce

-----------------------------------------------------------------------------
(* A step of the thread of the merge changes its stage; what it does to the files is shown apart. *)
LEMMA StageSafe ==
  ASSUME MergeInv, NEW j \in job, NEW stage \in Stages, JobGoes(j, stage),
         UNCHANGED <<running, held, recording, enabled, queue, restarts>>,
         seen' \subseteq seen,
         registry' \in [Groups -> SUBSET [parts : Counts, index : Counts]],
         outputs' \subseteq Output,
         partials' = IF stage = "copying" THEN {<<j.group, j.index>>} ELSE {},
         \A r : Unmade(r) /\ r.group # j.group => Unmade(r)',
         \A k : k.group = j.group /\ k.index = j.index /\ k.parts = j.parts /\ k.auto = j.auto
                  /\ k.stage = stage => FilesFine(k)',
         MergedOnce'
  PROVE  MergeInv'
<1> USE DEF MergeInv
<1>1. j \in Job /\ running /\ JobFine(j)
  BY DEF Records, Turns
<1>2. PICK k \in Job : /\ k.group = j.group /\ k.index = j.index /\ k.parts = j.parts /\ k.auto = j.auto
                       /\ k.stage = stage /\ job' = {k}
  BY <1>1, JobFields DEF JobGoes
<1>3. Switches' /\ Records'
  BY <1>2 DEF Switches, Records, Output
<1>4. Turns'
  BY <1>1, <1>2 DEF Turns
<1>5. QueueFine(queue)'
  <2>1. \A i \in 1 .. Len(queue) : queue[i].group # j.group
    BY <1>1 DEF JobFine, Alone
  <2> QED
    BY <2>1 DEF QueueFine, Eligible
<1>6. Apart(queue)'
  BY DEF Apart
<1>7. JobFine(k)'
  BY <1>1, <1>2 DEF JobFine, Eligible, Alone
<1> QED
  BY <1>2, <1>3, <1>4, <1>5, <1>6, <1>7

(* The stages at which the merged file need not be there have nothing more to show. *)
LEMMA StopsSafe == ASSUME MergeInv, NEW j \in job, Stops(j) PROVE MergeInv'
<1> USE DEF MergeInv
<1>1. PICK stage \in {"cancelled", "failed"} : JobGoes(j, stage)
  BY DEF Stops
<1>2. j.stage = "copying" /\ partials' = partials \ {<<j.group, j.index>>} /\ UNCHANGED <<outputs, job_rest>>
  BY DEF Stops
<1>3. partials' = {}
  BY <1>2 DEF Turns
<1>4. \A r : Unmade(r) => Unmade(r)'
  BY <1>2 DEF Unmade
<1>5. ASSUME NEW k, k.group = j.group, k.index = j.index, k.parts = j.parts, k.auto = j.auto, k.stage = stage
      PROVE  FilesFine(k)'
  <2>1. FilesFine(j)
    BY DEF JobFine
  <2>2. NoFileYet(k)' /\ NoSidecarYet(k)'
    BY <1>1, <1>2, <1>5, <2>1 DEF FilesFine, NoFileYet, NoSidecarYet, OwnFile
  <2>3. FileIsOfIt(k)'
    BY <1>2, <1>5, <2>1 DEF FilesFine, FileIsOfIt, OwnFile
  <2>4. OthersUnmade(k)'
    BY <1>2, <1>5, <2>1 DEF FilesFine, OthersUnmade
  <2> QED
    BY <2>2, <2>3, <2>4 DEF FilesFine
<1>6. MergedOnce'
  BY <1>2 DEF MergedOnce
<1>7. stage \in Stages /\ stage # "copying"
  BY DEF Stages
<1>8. seen' \subseteq seen /\ outputs' \subseteq Output
      /\ registry' \in [Groups -> SUBSET [parts : Counts, index : Counts]]
      /\ UNCHANGED <<running, held, recording, enabled, queue, restarts>>
  BY <1>2 DEF job_rest, Records
<1> QED
  BY <1>1, <1>3, <1>4, <1>5, <1>6, <1>7, <1>8, StageSafe

LEMMA MovesSafe == ASSUME MergeInv, NEW j \in job, Moves(j) PROVE MergeInv'
<1> USE DEF MergeInv
<1>1. PICK new : new = [group |-> j.group, index |-> j.index, parts |-> j.parts,
                        auto |-> j.auto, sidecar |-> FALSE]
  OBVIOUS
<1>2. j.stage = "copying" /\ JobGoes(j, "moved") /\ partials' = partials \ {<<j.group, j.index>>}
      /\ outputs' = outputs \cup {new} /\ UNCHANGED job_rest
  BY <1>1 DEF Moves
<1>3. partials' = {}
  BY <1>2 DEF Turns
<1>4. new \in Output /\ ~new.sidecar /\ new.group = j.group /\ new.index = j.index
  BY <1>1 DEF Records, Job, Output
<1>5. new.parts = j.parts /\ new.auto = j.auto
  BY <1>1
<1>6. \A r : Unmade(r) => Unmade(r)'
  BY <1>2, <1>4 DEF Unmade
<1>7. ASSUME NEW k, k.group = j.group, k.index = j.index, k.parts = j.parts, k.auto = j.auto, k.stage = "moved"
      PROVE  FilesFine(k)'
  <2>1. FilesFine(j)
    BY DEF JobFine
  <2>2. \A o \in outputs' : OwnFile(k, o) => o = new
    BY <1>2, <1>7, <2>1 DEF FilesFine, NoFileYet, OwnFile
  <2>3. NoFileYet(k)' /\ NoSidecarYet(k)'
    BY <1>4, <1>7, <2>2 DEF NoFileYet, NoSidecarYet
  <2>4. FileIsOfIt(k)'
    BY <1>5, <1>7, <2>2 DEF FileIsOfIt
  <2>5. OthersUnmade(k)'
    BY <1>2, <1>4, <1>7, <2>1 DEF FilesFine, OthersUnmade
  <2> QED
    BY <2>3, <2>4, <2>5 DEF FilesFine
<1>8. MergedOnce'
  BY <1>2, <1>4 DEF MergedOnce
<1>9. "moved" \in Stages /\ "moved" # "copying"
  BY DEF Stages
<1>10. seen' \subseteq seen /\ outputs' \subseteq Output
       /\ registry' \in [Groups -> SUBSET [parts : Counts, index : Counts]]
       /\ UNCHANGED <<running, held, recording, enabled, queue, restarts>>
  BY <1>2, <1>4 DEF job_rest, Records
<1> QED
  BY <1>2, <1>3, <1>6, <1>7, <1>8, <1>9, <1>10, StageSafe

(* The sidecar is written for the one file of this merge, and no other of the same parts has one. *)
LEMMA WritesSidecarSafe ==
  ASSUME MergeInv, NEW j \in job, NEW ok \in BOOLEAN, WritesSidecar(j, ok)
  PROVE  MergeInv'
<1> USE DEF MergeInv
<1>1. PICK stage \in {"done", "torn"} : JobGoes(j, stage)
  BY DEF WritesSidecar
<1>2. j.stage = "moved" /\ UNCHANGED <<partials, job_rest>>
      /\ outputs' = {[o EXCEPT !.sidecar = @ \/ (ok /\ o.group = j.group /\ o.index = j.index)] : o \in outputs}
  BY DEF WritesSidecar
<1>3. partials' = {}
  BY <1>2 DEF Turns
<1>4. FilesFine(j)
  BY DEF JobFine
<1>5. ASSUME NEW o \in Output, NEW b \in BOOLEAN
      PROVE  /\ [o EXCEPT !.sidecar = b] \in Output
             /\ [o EXCEPT !.sidecar = b].group = o.group /\ [o EXCEPT !.sidecar = b].index = o.index
             /\ [o EXCEPT !.sidecar = b].parts = o.parts /\ [o EXCEPT !.sidecar = b].auto = o.auto
             /\ [o EXCEPT !.sidecar = b].sidecar = b
  BY DEF Output
<1>6. ASSUME NEW u \in outputs'
      PROVE  \E o \in outputs :
               /\ u \in Output /\ u.group = o.group /\ u.index = o.index /\ u.parts = o.parts /\ u.auto = o.auto
               /\ (u.sidecar => o.sidecar \/ OwnFile(j, o))
               /\ (u.sidecar = o.sidecar \/ OwnFile(j, o))
               /\ u = [o EXCEPT !.sidecar = u.sidecar]
  <2>1. PICK o \in outputs : u = [o EXCEPT !.sidecar = o.sidecar \/ (ok /\ o.group = j.group /\ o.index = j.index)]
    BY <1>2
  <2>2. PICK b \in BOOLEAN : b = (o.sidecar \/ (ok /\ o.group = j.group /\ o.index = j.index))
    OBVIOUS
  <2>3. u = [o EXCEPT !.sidecar = b] /\ o \in Output
    BY <2>1, <2>2 DEF Records
  <2>4. /\ u \in Output /\ u.group = o.group /\ u.index = o.index /\ u.parts = o.parts /\ u.auto = o.auto
        /\ u.sidecar = b
    BY <1>5, <2>3
  <2>5. b => o.sidecar \/ OwnFile(j, o)
    BY <2>2 DEF OwnFile
  <2>6. o.sidecar \in BOOLEAN /\ (o.sidecar => b)
    BY <2>2, <2>3 DEF Output
  <2>7. b = o.sidecar \/ OwnFile(j, o)
    BY <2>5, <2>6
  <2>8. u.sidecar => o.sidecar \/ OwnFile(j, o)
    BY <2>4, <2>5
  <2>9. u.sidecar = o.sidecar \/ OwnFile(j, o)
    BY <2>4, <2>7
  <2> QED
    BY <2>3, <2>4, <2>8, <2>9
<1>7. ASSUME NEW r, Unmade(r), r.group # j.group PROVE Unmade(r)'
  <2> SUFFICES ASSUME r.auto, NEW u \in outputs', u.group = r.group, u.parts = r.parts, u.sidecar
               PROVE  FALSE
    BY DEF Unmade
  <2> QED
    BY <1>6, <1>7 DEF Unmade, OwnFile
<1>8. ASSUME NEW k, k.group = j.group, k.index = j.index, k.parts = j.parts, k.auto = j.auto, k.stage = stage
      PROVE  FilesFine(k)'
  <2>1. NoFileYet(k)' /\ NoSidecarYet(k)'
    BY <1>1, <1>8 DEF NoFileYet, NoSidecarYet
  <2>2. FileIsOfIt(k)'
    <3> SUFFICES ASSUME NEW u \in outputs', OwnFile(k, u)
                 PROVE  u.parts = k.parts /\ u.auto = k.auto
      BY DEF FileIsOfIt
    <3>1. PICK o \in outputs : u.group = o.group /\ u.index = o.index /\ u.parts = o.parts /\ u.auto = o.auto
      BY <1>6
    <3>2. OwnFile(j, o)
      BY <1>8, <3>1 DEF OwnFile
    <3> QED
      BY <1>4, <1>8, <3>1, <3>2 DEF FilesFine, FileIsOfIt
  <2>3. OthersUnmade(k)'
    <3> SUFFICES ASSUME k.auto, NEW u \in outputs', u.group = k.group, u.parts = k.parts, u.sidecar
                 PROVE  u.index = k.index
      BY DEF OthersUnmade
    <3>1. PICK o \in outputs : u.group = o.group /\ u.index = o.index /\ u.parts = o.parts
                               /\ (o.sidecar \/ OwnFile(j, o))
      BY <1>6
    <3>2. j.auto
      BY <1>8
    <3>3. o.sidecar => o.index = j.index
      BY <1>4, <1>8, <3>1, <3>2 DEF FilesFine, OthersUnmade
    <3> QED
      BY <1>8, <3>1, <3>3 DEF OwnFile
  <2> QED
    BY <2>1, <2>2, <2>3 DEF FilesFine
<1>9. MergedOnce'
  <2> SUFFICES ASSUME NEW u \in outputs', NEW w \in outputs', u.group = w.group, u.parts = w.parts,
                      u.auto, w.auto, u.sidecar, w.sidecar
               PROVE  u = w
    BY DEF MergedOnce
  <2>1. PICK o \in outputs :
               /\ u \in Output /\ u.group = o.group /\ u.index = o.index /\ u.parts = o.parts /\ u.auto = o.auto
               /\ (o.sidecar \/ OwnFile(j, o))
    BY <1>6
  <2>2. PICK v \in outputs :
               /\ w \in Output /\ w.group = v.group /\ w.index = v.index /\ w.parts = v.parts /\ w.auto = v.auto
               /\ (v.sidecar \/ OwnFile(j, v))
    BY <1>6
  <2>3. o.auto /\ v.auto /\ o.group = v.group /\ o.parts = v.parts
    BY <2>1, <2>2
  <2>4. ASSUME NEW x \in outputs, NEW y \in outputs, x.auto, x.group = y.group, x.parts = y.parts, OwnFile(j, x),
               y.sidecar
        PROVE  y.index = x.index
    <3>1. j.auto /\ x.parts = j.parts
      BY <1>4, <2>4 DEF FilesFine, FileIsOfIt
    <3> QED
      BY <1>4, <2>4, <3>1 DEF FilesFine, OthersUnmade, OwnFile
  <2>5. o.index = v.index
    <3>1. CASE o.sidecar /\ v.sidecar
      BY <2>3, <3>1 DEF MergedOnce
    <3>2. CASE OwnFile(j, o) /\ v.sidecar
      BY <2>3, <2>4, <3>2
    <3>3. CASE OwnFile(j, v) /\ o.sidecar
      BY <2>3, <2>4, <3>3
    <3>4. CASE OwnFile(j, o) /\ OwnFile(j, v)
      BY <3>4 DEF OwnFile
    <3> QED
      BY <2>1, <2>2, <3>1, <3>2, <3>3, <3>4
  <2>6. u.auto = TRUE /\ w.auto = TRUE /\ u.sidecar = TRUE /\ w.sidecar = TRUE
    BY <2>1, <2>2 DEF Output
  <2>7. ASSUME NEW x \in Output, NEW y \in Output, x.group = y.group, x.index = y.index, x.parts = y.parts,
               x.auto = y.auto, x.sidecar = y.sidecar
        PROVE  x = y
    BY <2>7 DEF Output
  <2>8. u \in Output /\ w \in Output /\ u.index = w.index
    BY <2>1, <2>2, <2>5
  <2>9. u.auto = w.auto /\ u.sidecar = w.sidecar
    BY <2>6
  <2> QED
    BY <2>7, <2>8, <2>9
<1>10. stage \in Stages /\ stage # "copying"
  BY DEF Stages
<1>11. seen' \subseteq seen /\ outputs' \subseteq Output
       /\ registry' \in [Groups -> SUBSET [parts : Counts, index : Counts]]
       /\ UNCHANGED <<running, held, recording, enabled, queue, restarts>>
  BY <1>2, <1>6 DEF job_rest, Records
<1> QED
  BY <1>1, <1>3, <1>7, <1>8, <1>9, <1>10, <1>11, StageSafe

(* _on_finished(): the registry learns of it. *)
LEMMA OnFinishedSafe == ASSUME MergeInv, NEW j \in job, OnFinished(j) PROVE MergeInv'
<1> USE DEF MergeInv
<1>1. j.stage = "done" /\ JobGoes(j, "over") /\ registry' = Recorded(j.group, j.parts, j.index)
      /\ UNCHANGED <<running, held, recording, enabled, queue, seen, outputs, partials, restarts>>
  BY DEF OnFinished
<1>2. registry' \in [Groups -> SUBSET [parts : Counts, index : Counts]]
  <2>1. j.group \in Groups /\ {[parts |-> j.parts, index |-> j.index]} \in SUBSET [parts : Counts, index : Counts]
    <3>1. j \in Job
      BY DEF Records
    <3>2. j.group \in Groups /\ j.parts \in Counts /\ j.index \in Counts
      BY <3>1, JobFields
    <3> QED
      BY <3>2
  <2> QED
    BY <1>1, <2>1 DEF Recorded, Records
<1>3. partials' = {}
  BY <1>1 DEF Turns
<1>4. \A r : Unmade(r) => Unmade(r)'
  BY <1>1 DEF Unmade
<1>5. ASSUME NEW k, k.group = j.group, k.index = j.index, k.parts = j.parts, k.auto = j.auto, k.stage = "over"
      PROVE  FilesFine(k)'
  <2>1. FilesFine(j)
    BY DEF JobFine
  <2>2. NoFileYet(k)' /\ NoSidecarYet(k)'
    BY <1>5 DEF NoFileYet, NoSidecarYet
  <2>3. FileIsOfIt(k)'
    BY <1>1, <1>5, <2>1 DEF FilesFine, FileIsOfIt, OwnFile
  <2>4. OthersUnmade(k)'
    BY <1>1, <1>5, <2>1 DEF FilesFine, OthersUnmade
  <2> QED
    BY <2>2, <2>3, <2>4 DEF FilesFine
<1>6. MergedOnce'
  BY <1>1 DEF MergedOnce
<1>7. "over" \in Stages /\ "over" # "copying"
  BY DEF Stages
<1>8. seen' \subseteq seen /\ outputs' \subseteq Output
  BY <1>1 DEF Records
<1> QED
  BY <1>1, <1>2, <1>3, <1>4, <1>5, <1>6, <1>7, <1>8, StageSafe

(* _on_failed(): the request may come again. *)
LEMMA OnFailedSafe == ASSUME MergeInv, NEW j \in job, OnFailed(j) PROVE MergeInv'
<1> USE DEF MergeInv
<1>1. j.stage \in {"failed", "cancelled", "torn"} /\ JobGoes(j, "over") /\ seen' \subseteq seen
      /\ UNCHANGED <<running, held, recording, enabled, queue, registry, outputs, partials, restarts>>
  BY DEF OnFailed, disk_vars
<1>2. partials' = {}
  BY <1>1 DEF Turns
<1>3. \A r : Unmade(r) => Unmade(r)'
  BY <1>1 DEF Unmade
<1>4. ASSUME NEW k, k.group = j.group, k.index = j.index, k.parts = j.parts, k.auto = j.auto, k.stage = "over"
      PROVE  FilesFine(k)'
  <2>1. FilesFine(j)
    BY DEF JobFine
  <2>2. NoFileYet(k)' /\ NoSidecarYet(k)'
    BY <1>4 DEF NoFileYet, NoSidecarYet
  <2>3. FileIsOfIt(k)'
    BY <1>1, <1>4, <2>1 DEF FilesFine, FileIsOfIt, OwnFile
  <2>4. OthersUnmade(k)'
    BY <1>1, <1>4, <2>1 DEF FilesFine, OthersUnmade
  <2> QED
    BY <2>2, <2>3, <2>4 DEF FilesFine
<1>5. MergedOnce'
  BY <1>1 DEF MergedOnce
<1>6. "over" \in Stages /\ "over" # "copying"
  BY DEF Stages
<1>7. outputs' \subseteq Output /\ registry' \in [Groups -> SUBSET [parts : Counts, index : Counts]]
  BY <1>1 DEF Records
<1> QED
  BY <1>1, <1>2, <1>3, <1>4, <1>5, <1>6, <1>7, StageSafe

(* _on_thread_finished(): the next one starts. *)
LEMMA OnThreadFinishedSafe == ASSUME MergeInv, NEW j \in job, OnThreadFinished(j) PROVE MergeInv'
<1> USE DEF MergeInv
<1>1. j.stage = "over" /\ Pump(queue, seen)
      /\ UNCHANGED <<running, held, recording, enabled, registry, outputs, restarts>>
  BY DEF OnThreadFinished
<1>2. running /\ partials = {} /\ queue \in Seq(Request) /\ seen \in SUBSET Groups
  BY <1>1 DEF Turns, Records
<1>3. Records' /\ Turns' /\ QueueFine(queue)' /\ Apart(queue)' /\ \A k \in job' : JobFine(k)'
  BY <1>1, <1>2, PumpKeeps
<1> QED
  BY <1>1, <1>3 DEF Switches, MergedOnce

LEMMA MergeStepSafe == ASSUME MergeInv, NEW j \in job, Merge(j) PROVE MergeInv'
  BY StopsSafe, MovesSafe, WritesSidecarSafe, OnFinishedSafe, OnFailedSafe, OnThreadFinishedSafe DEF Merge

-----------------------------------------------------------------------------
LEMMA DeletedSafe == ASSUME MergeInv, NEW o \in outputs, Deleted(o) PROVE MergeInv'
<1> USE DEF MergeInv
<1>1. outputs' \subseteq outputs /\ job = {} /\ job' = {} /\ queue' = queue /\ seen' = seen
      /\ UNCHANGED <<running, held, recording, enabled, registry, partials, restarts>>
  BY DEF Deleted, queue_vars
<1>2. Records' /\ Switches' /\ Turns'
  BY <1>1 DEF Records, Switches, Turns
<1>3. \A r : (Eligible(r) => Eligible(r)') /\ (Unmade(r) => Unmade(r)')
  BY <1>1 DEF Eligible, Unmade
<1>4. QueueFine(queue)' /\ Apart(queue)'
  BY <1>1, <1>3 DEF QueueFine, Apart
<1> QED
  BY <1>1, <1>2, <1>4 DEF MergedOnce

LEMMA EndsSafe == ASSUME MergeInv, Ends PROVE MergeInv'
<1> USE DEF MergeInv
<1>1. running' = FALSE /\ queue' = <<>> /\ job' = {} /\ seen' = {} /\ restarts' \in 0 .. MaxRestarts
      /\ UNCHANGED <<held, recording, enabled, registry, outputs, partials>>
  BY MergeQueueAssumption DEF Ends, Records, disk_vars
<1>2. Records' /\ Switches'
  <2>1. queue' \in Seq(Request) /\ seen' \subseteq Groups /\ job' \subseteq Job
    BY <1>1
  <2>2. Records'
    BY <1>1, <2>1 DEF Records
  <2>3. Switches'
    BY <1>1 DEF Switches
  <2> QED
    BY <2>2, <2>3
<1>3. ~running' /\ queue' = <<>> /\ job' = {}
  BY <1>1
<1>4. Turns'
  <2> HIDE DEF MergeInv
  <2> QED
    BY <1>3 DEF Turns
<1> QED
  BY <1>1, <1>2, <1>4 DEF QueueFine, Apart, MergedOnce

(* sweep_partials(): what the program left behind when it ended is gone before anything is merged. *)
LEMMA StartsSafe == ASSUME MergeInv, Starts PROVE MergeInv'
<1> USE DEF MergeInv
<1>1. running' /\ running' = TRUE /\ partials' = {} /\ job = {} /\ job' = {} /\ queue = <<>> /\ queue' = <<>>
      /\ UNCHANGED <<held, recording, enabled, seen, registry, outputs, restarts>>
  BY DEF Starts, Turns, queue_vars
<1>2. Records' /\ Switches' /\ Turns'
  BY <1>1 DEF Records, Switches, Turns
<1> QED
  BY <1>1, <1>2 DEF QueueFine, Apart, MergedOnce

LEMMA NextSafe == ASSUME MergeInv, [Next]_vars PROVE MergeInv'
<1>1. CASE Next
  BY <1>1, CaptureSafe, PartsArriveSafe, RequestMergeSafe, SetEnabledSafe, CancelMergeSafe, EndsSafe, StartsSafe,
     MergeStepSafe, DeletedSafe DEF Next
<1>2. CASE UNCHANGED vars
  <2>1. UNCHANGED <<running, held, recording, enabled, queue, job, seen, registry, outputs, partials, restarts>>
    BY <1>2 DEF vars, queue_vars, disk_vars
  <2>2. \A r : Eligible(r) => Eligible(r)'
    BY <2>1 DEF Eligible
  <2>3. QueueFine(queue)' /\ Apart(queue)' /\ \A j \in job' : JobFine(j)'
    BY <2>1, <2>2, WaitingStays DEF MergeInv
  <2>4. Switches' /\ Records' /\ Turns'
    BY <2>1 DEF MergeInv, Switches, Records, Turns
  <2> QED
    BY <2>1, <2>3, <2>4 DEF MergeInv, MergedOnce
<1> QED
  BY <1>1, <1>2

LEMMA InvIsSafe == MergeInv => MergeIsSafe
<1> SUFFICES ASSUME MergeInv PROVE MergeIsSafe
  OBVIOUS
<1> USE DEF MergeInv
<1>1. Cardinality(job) <= 1
  <2>1. CASE job = {}
    BY <2>1, FS_EmptySet
  <2>2. CASE job # {}
    <3>0. PICK j : j \in job
      BY <2>2
    <3>1. job = {j}
      BY <3>0 DEF Turns
    <3>2. Cardinality({j}) = 1
      BY FS_Singleton
    <3> QED
      BY <3>1, <3>2
  <2> QED
    BY <2>1, <2>2
<1>2. TypeOK
  BY <1>1 DEF TypeOK, Switches, Records, Turns, Output
<1>3. NothingHalfMerged
  <2> SUFFICES ASSUME NEW j \in job
               PROVE  /\ j.stage \in {"copying", "failed", "cancelled"} =>
                           ~\E o \in outputs : o.group = j.group /\ o.index = j.index
                      /\ j.stage \in {"failed", "cancelled"} => <<j.group, j.index>> \notin partials
    BY DEF NothingHalfMerged
  <2>1. NoFileYet(j)
    BY DEF JobFine, FilesFine
  <2>2. j.stage # "copying" => partials = {}
    BY DEF Turns
  <2> QED
    BY <2>1, <2>2 DEF NoFileYet, OwnFile
<1>4. AutoOnlyWhenAsked
  <2>1. \A i \in 1 .. Len(queue) : (queue[i].auto => enabled) /\ (queue[i].auto => queue[i].group # recording)
    BY DEF QueueFine, Eligible
  <2>2. ASSUME NEW r \in {[group |-> j.group, parts |-> j.parts, auto |-> j.auto] : j \in job}, r.auto
        PROVE  r.group # recording
    BY <2>2 DEF JobFine, Eligible
  <2> QED
    BY <2>1, <2>2 DEF AutoOnlyWhenAsked
<1> QED
  BY <1>2, <1>3, <1>4 DEF MergeIsSafe

(* For any recordings, parts and restarts: a merge that finished is never repeated by itself,
   one that failed or was cancelled leaves no file that looks whole, and nothing that is still
   being recorded is merged (merge_controller.py, merge_parts()).                            *)
THEOREM MergeSafe == Spec => []MergeIsSafe
<1>1. Spec => []MergeInv
  BY InitSafe, NextSafe, PTL DEF Spec
<1> QED
  BY <1>1, InvIsSafe, PTL

-----------------------------------------------------------------------------
(* Connections to the sensor (ConnectPacer). *)

Connecting(u) == at[u] = "connecting"

PacerTypes ==
  /\ at \in [Users -> {"idle", "gate", "turn", "connecting", "open", "over"}]
  /\ lasts \in [Users -> 0 .. ConnectTicks] /\ tried \in [Users -> 0 .. Tries]
  /\ blocked \in 0 .. CooldownMax /\ cool \in 0 .. CooldownMax /\ (cool = 0 \/ cool >= Cooldown)
  /\ probes \subseteq Users
Flags == again \in [Users -> BOOLEAN] /\ probing \in BOOLEAN

Ages == 0 .. Window

(* The connects of the last Window are the newest of the starts; those before them are old. *)
PacedAs(s, b) ==
  /\ s \in Seq(Ages) /\ b \in Seq(Ages) /\ Len(b) <= PerWindow /\ Len(b) <= Len(s)
  /\ \A i \in 1 .. Len(b) : b[i] = s[Len(s) - Len(b) + i] /\ b[i] < Window
  /\ \A i \in 1 .. Len(b) : \A k \in i .. Len(b) : b[k] <= b[i]
  /\ \A i \in 1 .. Len(s) - Len(b) : s[i] >= Window
Paced == PacedAs(starts, begun)

(* Of the probes that have outlived no older connect there is one at most, which the pacer knows
   of, and whoever else is connecting began before it.                                         *)
Single == probes \ outlived
ProbeAlone ==
  /\ outlived \subseteq probes
  /\ cool > 0 \/ probes = {}
  /\ \A u \in probes : Connecting(u)
  /\ \A u, v \in Single : u = v
  /\ \A u \in Single : \A v \in Users : Connecting(v) => lasts[u] <= lasts[v]
ProbeKnown == probing \/ Single = {}

PacerInv == PacerTypes /\ Flags /\ Paced /\ ProbeAlone /\ ProbeKnown /\ Cardinality(Handshaking) <= Slots

LEMMA Bounds ==
  /\ Window \in Nat /\ Window > 0 /\ PerWindow \in Nat /\ PerWindow > 0 /\ Slots \in Nat /\ Slots > 0
  /\ ConnectTicks \in Nat /\ ConnectTicks > 0 /\ Tries \in Nat
  /\ Cooldown \in Nat /\ Cooldown > 0 /\ CooldownMax \in Nat /\ Cooldown <= CooldownMax
  BY ConnectPacerAssumption

LEMMA AgesAre ==
  ASSUME NEW ages \in Seq(Ages)
  PROVE  Len(ages) \in Nat /\ \A i \in 1 .. Len(ages) : ages[i] \in Nat /\ ages[i] <= Window
<1>1. \A i \in 1 .. Len(ages) : ages[i] \in Ages
  OBVIOUS
<1>2. \A a \in Ages : a \in Nat /\ a <= Window
  BY Bounds DEF Ages
<1> QED
  BY <1>1, <1>2

(* Dropping from the left ends before the first age that is below the window. *)
ExpiredAt(ages, n) == (\A i \in 1 .. n : ages[i] >= Window) /\ (n < Len(ages) => ages[n + 1] < Window)

LEMMA ExpiredIs ==
  ASSUME NEW ages \in Seq(Ages), NEW n \in 0 .. Len(ages), ExpiredAt(ages, n)
  PROVE  Expired(ages) = n
<1>1. Window \in Nat /\ Len(ages) \in Nat /\ \A i \in 1 .. Len(ages) : ages[i] \in Nat
  BY Bounds, AgesAre
<1>2. Expired(ages) = CHOOSE m \in 0 .. Len(ages) : ExpiredAt(ages, m)
  BY DEF Expired, ExpiredAt
<1>3. PICK m : m = Expired(ages)
  OBVIOUS
<1>4. m \in 0 .. Len(ages) /\ ExpiredAt(ages, m)
  BY <1>2, <1>3
<1>5. ASSUME m < n PROVE FALSE
  BY <1>1, <1>4, <1>5 DEF ExpiredAt
<1>6. ASSUME n < m PROVE FALSE
  BY <1>1, <1>4, <1>6 DEF ExpiredAt
<1>7. m = n
  BY <1>1, <1>4, <1>5, <1>6
<1> QED
  BY <1>3, <1>7

LEMMA ExpiredExists ==
  ASSUME NEW ages \in Seq(Ages)
  PROVE  \E n \in 0 .. Len(ages) : ExpiredAt(ages, n)
<1> DEFINE young == {i \in 1 .. Len(ages) : ages[i] < Window}
<1>1. Window \in Nat /\ Len(ages) \in Nat /\ \A i \in 1 .. Len(ages) : ages[i] \in Nat
  BY Bounds, AgesAre
<1>2. CASE young = {}
  <2>1. \A i \in 1 .. Len(ages) : ages[i] \in Nat /\ ~(ages[i] < Window)
    BY <1>1, <1>2
  <2>2. \A i \in 1 .. Len(ages) : ages[i] >= Window
    BY <1>1, <2>1
  <2>3. ExpiredAt(ages, Len(ages))
    BY <1>1, <2>2 DEF ExpiredAt
  <2>4. Len(ages) \in 0 .. Len(ages)
    BY <1>1
  <2> QED
    BY <2>3, <2>4
<1>3. CASE young # {}
  <2>1. young \in SUBSET Nat
    BY <1>1
  <2>2. PICK i \in young : \A k \in young : i <= k
    BY <1>3, <2>1, LeastExists
  <2>3. i - 1 \in 0 .. Len(ages) /\ ExpiredAt(ages, i - 1)
    BY <1>1, <2>2 DEF ExpiredAt
  <2> QED
    BY <2>3
<1> QED
  BY <1>2, <1>3

LEMMA RecentAges ==
  ASSUME NEW ages \in Seq(Ages), NEW n \in 0 .. Len(ages), ExpiredAt(ages, n)
  PROVE  /\ Recent(ages) \in Seq(Ages) /\ Len(Recent(ages)) = Len(ages) - n
         /\ \A i \in 1 .. Len(ages) - n : Recent(ages)[i] = ages[n + i]
<1>1. Recent(ages) = SubSeq(ages, n + 1, Len(ages)) /\ Len(ages) \in Nat
  <2>1. Expired(ages) = n
    BY ExpiredIs
  <2> QED
    BY <2>1, AgesAre DEF Recent
<1>2. \A i \in n + 1 .. Len(ages) : ages[i] \in Ages
  OBVIOUS
<1>3. SubSeq(ages, n + 1, Len(ages)) = [i \in 1 .. Len(ages) - n |-> ages[n + i]]
  BY <1>1
<1> QED
  BY <1>1, <1>2, <1>3

(* acquire(): the start is appended to those of the last window. *)
LEMMA AcquirePaced ==
  ASSUME NEW s, NEW b, PacedAs(s, b), Len(Recent(s)) < PerWindow
  PROVE  PacedAs(Append(Recent(s), 0), Append(b, 0))
<1>1. PICK ls \in Nat : ls = Len(s)
  BY AgesAre DEF PacedAs
<1>2. PICK lb \in Nat : lb = Len(b)
  BY AgesAre DEF PacedAs
<1>3. lb <= ls /\ Window \in Nat /\ 0 < Window /\ PerWindow \in Nat /\ 0 \in Ages
  BY <1>1, <1>2, Bounds DEF PacedAs, Ages
<1>4. /\ \A i \in 1 .. ls : s[i] \in Nat
      /\ \A i \in 1 .. lb : b[i] \in Nat /\ b[i] = s[ls - lb + i] /\ b[i] < Window
      /\ \A i \in 1 .. lb : \A k \in i .. lb : b[k] <= b[i]
      /\ \A i \in 1 .. ls - lb : s[i] >= Window
  BY <1>1, <1>2, AgesAre DEF PacedAs
<1>5. ls - lb \in 0 .. ls /\ ExpiredAt(s, ls - lb)
  <2>1. ls - lb < ls => s[ls - lb + 1] < Window
    BY <1>3, <1>4
  <2> QED
    BY <1>1, <1>3, <1>4, <2>1 DEF ExpiredAt
<1>6. PICK r \in Seq(Ages) : r = Recent(s) /\ Len(r) = lb /\ \A i \in 1 .. lb : r[i] = s[ls - lb + i]
  <2>1. s \in Seq(Ages)
    BY DEF PacedAs
  <2>2. /\ Recent(s) \in Seq(Ages) /\ Len(Recent(s)) = Len(s) - (ls - lb)
        /\ \A i \in 1 .. Len(s) - (ls - lb) : Recent(s)[i] = s[ls - lb + i]
    BY <1>1, <1>5, <2>1, RecentAges
  <2>3. Len(s) - (ls - lb) = lb
    BY <1>1
  <2> QED
    BY <2>2, <2>3
<1>7. PICK r2 : r2 = Append(r, 0)
  OBVIOUS
<1>8. PICK b2 : b2 = Append(b, 0)
  OBVIOUS
<1>9. r2 \in Seq(Ages) /\ Len(r2) = lb + 1 /\ (\A i \in 1 .. lb : r2[i] = r[i]) /\ r2[lb + 1] = 0
  BY <1>3, <1>6, <1>7
<1>10. b2 \in Seq(Ages) /\ Len(b2) = lb + 1 /\ (\A i \in 1 .. lb : b2[i] = b[i]) /\ b2[lb + 1] = 0
  BY <1>2, <1>3, <1>8 DEF PacedAs
<1>11. lb + 1 <= PerWindow
  BY <1>3, <1>6
<1>12. \A i \in 1 .. lb + 1 : b2[i] = r2[i] /\ b2[i] < Window /\ b2[i] \in Nat
  <2> TAKE i \in 1 .. lb + 1
  <2>1. CASE i = lb + 1
    BY <1>3, <1>9, <1>10, <2>1
  <2>2. CASE i # lb + 1
    <3>1. i \in 1 .. lb
      BY <2>2
    <3>2. b2[i] = b[i] /\ r2[i] = r[i]
      BY <1>9, <1>10, <3>1
    <3> QED
      BY <1>4, <1>6, <3>1, <3>2
  <2> QED
    BY <2>1, <2>2
<1>13. \A i \in 1 .. lb + 1 : \A k \in i .. lb + 1 : b2[k] <= b2[i]
  <2> TAKE i \in 1 .. lb + 1
  <2> TAKE k \in i .. lb + 1
  <2>1. CASE k = lb + 1
    BY <1>10, <1>12, <2>1
  <2>2. CASE k # lb + 1
    <3>1. k \in i .. lb /\ i \in 1 .. lb /\ k \in 1 .. lb
      BY <2>2
    <3> QED
      BY <1>4, <1>10, <3>1
  <2> QED
    BY <2>1, <2>2
<1>14. PacedAs(r2, b2)
  <2>1. Len(r2) - Len(b2) = 0
    BY <1>9, <1>10
  <2>2. \A i \in 1 .. lb + 1 : Len(r2) - Len(b2) + i = i
    BY <2>1
  <2>3. \A i \in 1 .. lb + 1 : b2[i] = r2[Len(r2) - Len(b2) + i] /\ b2[i] < Window
    BY <1>12, <2>2
  <2> QED
    BY <1>9, <1>10, <1>11, <1>13, <2>1, <2>3 DEF PacedAs
<1> QED
  BY <1>6, <1>7, <1>8, <1>14

(* Time passes: those that began a whole window ago are dropped, and are old in _starts too. *)
LEMMA TickPaced ==
  ASSUME NEW s, NEW b, PacedAs(s, b),
         NEW s2, s2 = [i \in 1 .. Len(s) |-> IF s[i] < Window THEN s[i] + 1 ELSE Window],
         NEW b2, b2 = Recent([i \in 1 .. Len(b) |-> b[i] + 1])
  PROVE  PacedAs(s2, b2)
<1>1. PICK ls \in Nat : ls = Len(s)
  BY AgesAre DEF PacedAs
<1>2. PICK lb \in Nat : lb = Len(b)
  BY AgesAre DEF PacedAs
<1>3. lb <= ls /\ Window \in Nat /\ 0 < Window /\ PerWindow \in Nat /\ lb <= PerWindow
  BY <1>1, <1>2, Bounds DEF PacedAs
<1>4. /\ \A i \in 1 .. ls : s[i] \in Nat
      /\ \A i \in 1 .. lb : b[i] \in Nat /\ b[i] = s[ls - lb + i] /\ b[i] < Window
      /\ \A i \in 1 .. lb : \A k \in i .. lb : b[k] <= b[i]
      /\ \A i \in 1 .. ls - lb : s[i] >= Window
  BY <1>1, <1>2, AgesAre DEF PacedAs
<1>5. PICK aged : aged = [i \in 1 .. Len(b) |-> b[i] + 1]
  OBVIOUS
<1>6. aged \in Seq(Ages) /\ Len(aged) = lb /\ \A i \in 1 .. lb : aged[i] = b[i] + 1
  <2>1. \A i \in 1 .. lb : b[i] + 1 \in Ages
    BY <1>3, <1>4 DEF Ages
  <2> QED
    BY <1>2, <1>5, <2>1
<1>7. s2 \in Seq(Ages) /\ Len(s2) = ls
      /\ \A i \in 1 .. ls : s2[i] \in Nat /\ s2[i] = IF s[i] < Window THEN s[i] + 1 ELSE Window
  <2>1. \A i \in 1 .. ls : (IF s[i] < Window THEN s[i] + 1 ELSE Window) \in Ages
    BY <1>3, <1>4 DEF Ages
  <2>2. s2 = [i \in 1 .. ls |-> IF s[i] < Window THEN s[i] + 1 ELSE Window]
    BY <1>1
  <2>3. s2 \in Seq(Ages) /\ Len(s2) = ls
    BY <2>1, <2>2
  <2>4. \A i \in 1 .. ls : s2[i] = IF s[i] < Window THEN s[i] + 1 ELSE Window
    BY <2>2
  <2> QED
    BY <1>3, <1>4, <2>3, <2>4
<1>8. PICK n \in 0 .. lb : ExpiredAt(aged, n)
  BY <1>6, ExpiredExists
<1>9. n \in Nat /\ n <= lb /\ (\A i \in 1 .. n : b[i] + 1 >= Window) /\ (n < lb => b[n + 1] + 1 < Window)
  BY <1>6, <1>8 DEF ExpiredAt
<1>10. b2 \in Seq(Ages) /\ Len(b2) = lb - n /\ \A i \in 1 .. lb - n : b2[i] = aged[n + i]
  BY <1>5, <1>6, <1>8, RecentAges
<1> HIDE DEF Ages
<1>11. \A i \in 1 .. lb - n : n + i \in 1 .. lb /\ b2[i] = b[n + i] + 1 /\ b2[i] \in Nat
  <2> TAKE i \in 1 .. lb - n
  <2>1. n + i \in 1 .. lb
    BY <1>9
  <2>2. b2[i] = aged[n + i]
    BY <1>10
  <2> QED
    BY <1>4, <1>6, <2>1, <2>2
<1>12. \A i \in 1 .. lb - n : b2[i] < Window
  <2> TAKE i \in 1 .. lb - n
  <2>1. n < lb /\ n + 1 \in 1 .. lb /\ n + i \in n + 1 .. lb
    BY <1>9
  <2>2. b[n + i] <= b[n + 1] /\ b[n + i] \in Nat /\ b[n + 1] \in Nat
    BY <1>4, <2>1
  <2>3. b[n + 1] + 1 < Window /\ b2[i] = b[n + i] + 1
    BY <1>9, <1>11, <2>1
  <2> QED
    BY <1>3, <2>2, <2>3
<1>13. \A i \in 1 .. lb - n : b2[i] = s2[ls - (lb - n) + i]
  <2> TAKE i \in 1 .. lb - n
  <2>1. n + i \in 1 .. lb /\ b2[i] = b[n + i] + 1
    BY <1>11
  <2>2. b[n + i] = s[ls - lb + (n + i)] /\ b[n + i] < Window
    BY <1>4, <2>1
  <2>3. ls - (lb - n) + i = ls - lb + (n + i) /\ ls - lb + (n + i) \in 1 .. ls
    BY <1>3, <1>9, <2>1
  <2> QED
    BY <1>7, <2>1, <2>2, <2>3
<1>14. \A i \in 1 .. lb - n : \A k \in i .. lb - n : b2[k] <= b2[i]
  <2> TAKE i \in 1 .. lb - n
  <2> TAKE k \in i .. lb - n
  <2>1. n + i \in 1 .. lb /\ n + k \in n + i .. lb /\ k \in 1 .. lb - n
    BY <1>9
  <2>2. b[n + k] <= b[n + i]
    BY <1>4, <2>1
  <2>3. b2[i] = b[n + i] + 1 /\ b2[k] = b[n + k] + 1 /\ b[n + i] \in Nat /\ b[n + k] \in Nat
    BY <1>4, <1>11, <2>1
  <2> QED
    BY <2>2, <2>3
<1>15. \A i \in 1 .. ls - (lb - n) : s2[i] >= Window
  <2> TAKE i \in 1 .. ls - (lb - n)
  <2>1. i \in 1 .. ls /\ s2[i] = (IF s[i] < Window THEN s[i] + 1 ELSE Window) /\ s[i] \in Nat
    BY <1>3, <1>4, <1>7, <1>9
  <2>2. CASE i <= ls - lb
    <3>1. s[i] >= Window
      BY <1>3, <1>4, <2>2
    <3> QED
      BY <1>3, <2>1, <3>1
  <2>3. CASE i > ls - lb
    <3>1. PICK k \in Nat : k = i - (ls - lb) /\ k \in 1 .. n /\ k \in 1 .. lb
      <4>1. i - (ls - lb) \in Nat /\ i - (ls - lb) \in 1 .. n /\ i - (ls - lb) \in 1 .. lb
        BY <1>3, <1>9, <2>3
      <4> QED
        BY <4>1
    <3>2. ls - lb + k = i
      BY <1>3, <3>1
    <3>3. b[k] = s[i] /\ b[k] < Window /\ b[k] + 1 >= Window
      BY <1>4, <1>9, <3>1, <3>2
    <3> QED
      BY <1>3, <2>1, <3>3
  <2> QED
    BY <1>3, <2>2, <2>3
<1>16. Len(s2) - Len(b2) = ls - (lb - n) /\ Len(b2) <= PerWindow /\ Len(b2) <= Len(s2)
  BY <1>3, <1>7, <1>9, <1>10
<1>17. \A i \in 1 .. Len(b2) : b2[i] = s2[Len(s2) - Len(b2) + i] /\ b2[i] < Window
  BY <1>10, <1>12, <1>13, <1>16
<1>18. \A i \in 1 .. Len(b2) : \A k \in i .. Len(b2) : b2[k] <= b2[i]
  BY <1>10, <1>14
<1>19. \A i \in 1 .. Len(s2) - Len(b2) : s2[i] >= Window
  BY <1>15, <1>16
<1> QED
  BY <1>7, <1>10, <1>16, <1>17, <1>18, <1>19 DEF PacedAs

-----------------------------------------------------------------------------
Places == {"idle", "gate", "turn", "connecting", "open", "over"}

LEMMA PacerInitInv == PacerInit => PacerInv
<1> SUFFICES ASSUME PacerInit PROVE PacerInv
  OBVIOUS
<1>1. PacerTypes /\ Flags
  <2>1. at \in [Users -> Places]
    BY DEF PacerInit, Places
  <2>2. lasts \in [Users -> 0 .. ConnectTicks] /\ tried \in [Users -> 0 .. Tries]
    BY Bounds DEF PacerInit
  <2>3. blocked \in 0 .. CooldownMax /\ cool \in 0 .. CooldownMax /\ cool = 0 /\ probes \subseteq Users
    BY Bounds DEF PacerInit
  <2>4. Flags
    BY DEF PacerInit, Flags
  <2> QED
    BY <2>1, <2>2, <2>3, <2>4 DEF PacerTypes, Places
<1>2. Paced
  BY Bounds DEF PacerInit, Paced, PacedAs
<1>3. ProbeAlone /\ ProbeKnown
  BY DEF PacerInit, ProbeAlone, ProbeKnown, Single
<1>4. Handshaking = {}
  BY DEF PacerInit, Handshaking
<1>5. Cardinality(Handshaking) <= Slots
  BY <1>4, FS_EmptySet, Bounds
<1> QED
  BY <1>1, <1>2, <1>3, <1>5 DEF PacerInv

(* Fewer users that shake hands are not too many. *)
LEMMA FewerShakeHands ==
  ASSUME Cardinality(Handshaking) <= Slots, Handshaking' \subseteq Handshaking
  PROVE  Cardinality(Handshaking)' <= Slots
<1>1. IsFiniteSet(Handshaking)
  BY ConnectPacerAssumption, FS_Subset DEF Handshaking
<1>2. Cardinality(Handshaking') <= Cardinality(Handshaking) /\ Cardinality(Handshaking') \in Nat
  BY <1>1, FS_Subset, FS_CardinalityType
<1>3. Cardinality(Handshaking) \in Nat
  BY <1>1, FS_CardinalityType
<1> QED
  BY <1>2, <1>3, Bounds

(* A user that goes elsewhere: nobody else moves. *)
LEMMA GoesMoves ==
  ASSUME PacerTypes, NEW u \in Users, NEW where \in Places \ {"connecting"}, Goes(u, where)
  PROVE  /\ at' \in [Users -> Places] /\ lasts' \in [Users -> 0 .. ConnectTicks]
         /\ probes' = probes \ {u} /\ probes' \subseteq Users
         /\ outlived' = (outlived \cup Outlive(u)) \ {u}
         /\ at'[u] = where /\ \A v \in Users \ {u} : at'[v] = at[v] /\ lasts'[v] = lasts[v]
<1>1. at \in [Users -> Places] /\ lasts \in [Users -> 0 .. ConnectTicks] /\ probes \subseteq Users
  BY DEF PacerTypes, Places
<1>2. /\ at' = [at EXCEPT ![u] = where] /\ lasts' = [lasts EXCEPT ![u] = 0]
      /\ probes' = probes \ {u} /\ outlived' = (outlived \cup Outlive(u)) \ {u}
  BY DEF Goes
<1>3. 0 \in 0 .. ConnectTicks
  BY Bounds
<1> HIDE DEF Places
<1> QED
  BY <1>1, <1>2, <1>3

(* One that is not connecting goes elsewhere: the pacer is not concerned. *)
LEMMA OtherGoes ==
  ASSUME PacerTypes, ProbeAlone, ProbeKnown, NEW u \in Users, NEW where \in Places \ {"connecting"}, Goes(u, where),
         at[u] # "connecting", tried' \in [Users -> 0 .. Tries], UNCHANGED pacer_vars
  PROVE  PacerTypes' /\ ProbeAlone' /\ ProbeKnown'
<1>1. /\ at' \in [Users -> Places] /\ lasts' \in [Users -> 0 .. ConnectTicks]
      /\ probes' = probes \ {u} /\ probes' \subseteq Users /\ outlived' = (outlived \cup Outlive(u)) \ {u}
      /\ at'[u] = where /\ \A v \in Users \ {u} : at'[v] = at[v] /\ lasts'[v] = lasts[v]
  BY GoesMoves
<1>2. UNCHANGED <<blocked, cool, probing>>
  BY DEF pacer_vars
<1>3. probes' = probes /\ outlived' = outlived
  BY <1>1 DEF ProbeAlone, Connecting, Outlive
<1>4. \A v \in Users : Connecting(v)' => Connecting(v) /\ v # u /\ lasts'[v] = lasts[v]
  BY <1>1 DEF Connecting
<1>5. PacerTypes'
  BY <1>1, <1>2 DEF PacerTypes, Places
<1>6. \A v \in probes : v \in Users /\ v # u /\ Connecting(v)'
  BY <1>1 DEF ProbeAlone, Connecting, PacerTypes
<1>7. ProbeAlone'
  <2>1. \A v \in Single : v \in probes
    BY DEF Single
  <2>2. \A v \in Single : \A w \in Users : Connecting(w)' => lasts'[v] <= lasts'[w]
    BY <1>1, <1>4, <1>6, <2>1 DEF ProbeAlone
  <2>3. Single' = Single
    BY <1>3 DEF Single
  <2> QED
    BY <1>2, <1>3, <1>6, <2>2, <2>3 DEF ProbeAlone
<1>8. ProbeKnown'
  BY <1>2, <1>3, Zenon DEF ProbeKnown, Single
<1> QED
  BY <1>5, <1>7, <1>8

(* One that was connecting goes elsewhere: a probe that was alone has begun after it, and outlives it. *)
LEMMA ConnectingGoes ==
  ASSUME PacerTypes, ProbeAlone, NEW u \in Users, NEW where \in Places \ {"connecting"}, Goes(u, where),
         at[u] = "connecting", cool' >= cool, cool \in Nat, cool' \in Nat
  PROVE  ProbeAlone' /\ ProbeKnown'
<1>1. /\ probes' = probes \ {u} /\ at'[u] = where /\ outlived' = (outlived \cup Outlive(u)) \ {u}
      /\ \A v \in Users \ {u} : at'[v] = at[v]
  BY GoesMoves
<1>2. Outlive(u) = {v \in probes : lasts[v] <= lasts[u]} /\ Connecting(u)
  BY DEF Outlive, Connecting
<1>3. outlived' \subseteq probes'
  BY <1>1, <1>2 DEF ProbeAlone
<1>4. Single' = {}
  <2> SUFFICES ASSUME NEW v \in probes', v \notin outlived' PROVE FALSE
    BY DEF Single
  <2>1. v \in Single
    BY <1>1 DEF Single
  <2>2. lasts[v] <= lasts[u]
    BY <1>2, <2>1 DEF ProbeAlone
  <2> QED
    BY <1>1, <1>2, <2>2
<1>5. \A v \in probes' : Connecting(v)'
  BY <1>1 DEF ProbeAlone, Connecting, PacerTypes
<1>6. cool' > 0 \/ probes' = {}
  BY <1>1 DEF ProbeAlone
<1> QED
  BY <1>3, <1>4, <1>5, <1>6 DEF ProbeAlone, ProbeKnown

-----------------------------------------------------------------------------
LEMMA BeginKeeps == ASSUME PacerInv, NEW u \in Users, Begin(u) PROVE PacerInv'
<1> USE DEF PacerInv
<1>1. at[u] = "idle" /\ Goes(u, "gate") /\ UNCHANGED <<pacer_vars, begun>>
  BY DEF Begin
<1>2. tried' \in [Users -> 0 .. Tries]
  <2>1. tried \in [Users -> 0 .. Tries] /\ tried[u] + 1 \in 0 .. Tries
    BY Bounds DEF Begin, PacerTypes
  <2>2. tried' = [tried EXCEPT ![u] = tried[u] + 1]
    BY DEF Begin
  <2> QED
    BY <2>1, <2>2
<1>3. PacerTypes' /\ ProbeAlone' /\ ProbeKnown'
  BY <1>1, <1>2, OtherGoes DEF Places
<1>4. Flags'
  <2>1. again' \in [Users -> BOOLEAN]
    BY DEF Begin, Flags
  <2>2. probing' \in BOOLEAN
    BY DEF Begin, Flags, pacer_vars
  <2> QED
    BY <2>1, <2>2 DEF Flags
<1>5. Paced'
  BY <1>1 DEF Paced, pacer_vars
<1>6. Handshaking' \subseteq Handshaking
  BY <1>1, GoesMoves DEF Handshaking, Places
<1> QED
  BY <1>3, <1>4, <1>5, <1>6, FewerShakeHands

(* The gate: one more that shakes hands, while there is a slot. *)
LEMMA PassGateKeeps == ASSUME PacerInv, NEW u \in Users, PassGate(u) PROVE PacerInv'
<1> USE DEF PacerInv
<1>1. at[u] = "gate" /\ GateOpen /\ Goes(u, "turn") /\ UNCHANGED <<again, tried, pacer_vars, begun>>
  BY DEF PassGate
<1>2. PacerTypes' /\ ProbeAlone' /\ ProbeKnown'
  <2>1. tried' \in [Users -> 0 .. Tries]
    BY <1>1 DEF PacerTypes
  <2> QED
    BY <1>1, <2>1, OtherGoes DEF Places
<1>3. Flags'
  BY <1>1 DEF Flags, pacer_vars
<1>4. Paced'
  BY <1>1 DEF Paced, pacer_vars
<1>5. Handshaking' = Handshaking \cup {u} /\ u \notin Handshaking
  BY <1>1, GoesMoves DEF Handshaking, Places
<1>6. IsFiniteSet(Handshaking)
  BY ConnectPacerAssumption, FS_Subset DEF Handshaking
<1>7. Cardinality(Handshaking') = Cardinality(Handshaking) + 1 /\ Cardinality(Handshaking) \in Nat
  BY <1>5, <1>6, FS_AddElement, FS_CardinalityType
<1>8. Cardinality(Handshaking') <= Slots
  BY <1>1, <1>7, Bounds DEF GateOpen
<1> QED
  BY <1>2, <1>3, <1>4, <1>8

LEMMA OtherGoesKeeps ==
  ASSUME PacerInv, NEW u \in Users, NEW where \in {"idle", "over"}, at[u] # "connecting",
         Goes(u, where), UNCHANGED <<again, tried, pacer_vars, begun>>
  PROVE  PacerInv'
<1> USE DEF PacerInv
<1>1. PacerTypes' /\ ProbeAlone' /\ ProbeKnown'
  <2>1. tried' \in [Users -> 0 .. Tries]
    BY DEF PacerTypes
  <2> QED
    BY <2>1, OtherGoes DEF Places
<1>2. Flags'
  BY DEF Flags, pacer_vars
<1>3. Paced'
  BY DEF Paced, pacer_vars
<1>4. Handshaking' \subseteq Handshaking
  <2>1. at'[u] = where /\ \A v \in Users \ {u} : at'[v] = at[v]
    BY GoesMoves DEF Places
  <2> QED
    BY <2>1 DEF Handshaking
<1> QED
  BY <1>1, <1>2, <1>3, <1>4, FewerShakeHands

(* acquire(): while connects time out its turn comes only when the pacer knows of no probe. *)
LEMMA AcquireKeeps == ASSUME PacerInv, NEW u \in Users, Acquire(u) PROVE PacerInv'
<1> USE DEF PacerInv
<1>1. /\ at[u] = "turn" /\ blocked = 0 /\ ~(cool > 0 /\ probing)
      /\ at' = [at EXCEPT ![u] = "connecting"] /\ lasts' = [lasts EXCEPT ![u] = 0]
      /\ UNCHANGED <<again, tried, blocked, cool, outlived>>
  BY DEF Acquire
<1>2. probes' = (IF cool > 0 THEN probes \cup {u} ELSE probes) /\ (cool > 0 => probing')
  BY DEF Acquire
<1>3. probing' \in BOOLEAN /\ again' \in [Users -> BOOLEAN]
  BY DEF Acquire, Flags
<1>4. at \in [Users -> Places] /\ lasts \in [Users -> 0 .. ConnectTicks]
  BY DEF PacerTypes, Places
<1>5. /\ at' \in [Users -> Places] /\ lasts' \in [Users -> 0 .. ConnectTicks]
      /\ at'[u] = "connecting" /\ \A v \in Users \ {u} : at'[v] = at[v] /\ lasts'[v] = lasts[v]
  <2>1. 0 \in 0 .. ConnectTicks /\ "connecting" \in Places
    BY Bounds DEF Places
  <2> HIDE DEF Places
  <2> QED
    BY <1>1, <1>4, <2>1
<1>6. PacerTypes'
  BY <1>1, <1>2, <1>5 DEF PacerTypes, Places
<1>7. ASSUME cool > 0 PROVE ProbeAlone' /\ ProbeKnown'
  <2>1. Single = {}
    BY <1>1, <1>7, Zenon DEF ProbeKnown
  <2>2. probes' = probes \cup {u} /\ outlived' = outlived /\ outlived \subseteq probes /\ cool' = cool
    BY <1>1, <1>2, <1>7 DEF ProbeAlone
  <2>3. Single' \subseteq {u}
    BY <2>1, <2>2 DEF Single
  <2>4. \A v \in probes' : Connecting(v)'
    BY <1>5, <2>2 DEF Connecting, ProbeAlone, PacerTypes
  <2>5. \A v \in Users : lasts'[u] <= lasts'[v]
    <3>1. lasts'[u] = 0 /\ \A v \in Users : lasts'[v] \in 0 .. ConnectTicks
      BY <1>1, <1>4, <1>5
    <3> QED
      BY <3>1, Bounds
  <2>6. ProbeAlone'
    BY <1>7, <2>2, <2>3, <2>4, <2>5 DEF ProbeAlone
  <2>7. ProbeKnown'
    BY <1>2, <1>7, Zenon DEF ProbeKnown
  <2> QED
    BY <2>6, <2>7
<1>8. ASSUME ~(cool > 0) PROVE ProbeAlone' /\ ProbeKnown'
  <2>1. probes = {} /\ probes' = {} /\ outlived' = {}
    BY <1>1, <1>2, <1>8 DEF ProbeAlone
  <2> QED
    BY <2>1 DEF ProbeAlone, ProbeKnown, Single
<1>9. ProbeAlone' /\ ProbeKnown'
  BY <1>7, <1>8
<1>10. Paced'
  BY AcquirePaced DEF Acquire, Paced
<1>11. Handshaking' \subseteq Handshaking
  BY <1>1, <1>5 DEF Handshaking
<1> QED
  BY <1>3, <1>6, <1>9, <1>10, <1>11, FewerShakeHands DEF Flags

LEMMA ReachedKeeps == ASSUME PacerInv, NEW u \in Users, Reached(u) PROVE PacerInv'
<1> USE DEF PacerInv
<1>1. PICK where \in {"open", "over"} : at' = [at EXCEPT ![u] = where] /\ lasts' = [lasts EXCEPT ![u] = 0]
  BY DEF Reached
<1>2. cool' = 0 /\ blocked' = 0 /\ probes' = {} /\ outlived' = {} /\ UNCHANGED <<again, tried, starts, begun>>
  BY DEF Reached
<1>3. probing' \in BOOLEAN
  BY DEF Reached
<1>4. /\ at' \in [Users -> Places] /\ lasts' \in [Users -> 0 .. ConnectTicks]
      /\ at'[u] = where /\ \A v \in Users \ {u} : at'[v] = at[v]
  <2>1. 0 \in 0 .. ConnectTicks /\ where \in Places
    BY Bounds DEF Places
  <2>2. at \in [Users -> Places] /\ lasts \in [Users -> 0 .. ConnectTicks]
    BY DEF PacerTypes, Places
  <2> HIDE DEF Places
  <2> QED
    BY <1>1, <2>1, <2>2
<1>5. PacerTypes'
  BY <1>2, <1>4, Bounds DEF PacerTypes, Places
<1>6. ProbeAlone' /\ ProbeKnown'
  BY <1>2 DEF ProbeAlone, ProbeKnown, Single
<1>7. Flags'
  BY <1>2, <1>3 DEF Flags
<1>8. Paced'
  BY <1>2 DEF Paced
<1>9. Handshaking' \subseteq Handshaking
  BY <1>4 DEF Handshaking
<1> QED
  BY <1>5, <1>6, <1>7, <1>8, <1>9, FewerShakeHands

-----------------------------------------------------------------------------
(* A connect that failed, in whatever way: its place in the window stays taken. *)
LEMMA FailureKeeps ==
  ASSUME PacerInv, NEW u \in Users, at[u] = "connecting", AfterFailure(u), UNCHANGED <<tried, starts, begun>>,
         probing' = FALSE, blocked' \in 0 .. CooldownMax, cool' \in 0 .. CooldownMax, cool' = 0 \/ cool' >= Cooldown,
         cool' >= cool
  PROVE  PacerInv'
<1> USE DEF PacerInv
<1>1. PICK where \in {"idle", "turn"} : Goes(u, where)
  BY DEF AfterFailure
<1>2. /\ at' \in [Users -> Places] /\ lasts' \in [Users -> 0 .. ConnectTicks]
      /\ at'[u] = where /\ \A v \in Users \ {u} : at'[v] = at[v]
  BY <1>1, GoesMoves DEF Places
<1>3. probes' \subseteq Users
  BY <1>1, GoesMoves DEF Places
<1>4. PacerTypes'
  BY <1>2, <1>3 DEF PacerTypes, Places
<1>5. cool \in Nat /\ cool' \in Nat
  BY Bounds DEF PacerTypes
<1>6. ProbeAlone' /\ ProbeKnown'
  BY <1>1, <1>5, ConnectingGoes DEF Places
<1>7. Flags'
  <2>1. again' \in [Users -> BOOLEAN]
    BY DEF AfterFailure, Flags
  <2>2. probing' \in BOOLEAN
    OBVIOUS
  <2> QED
    BY <2>1, <2>2 DEF Flags
<1>8. Paced'
  BY DEF Paced
<1>9. Handshaking' \subseteq Handshaking
  BY <1>2 DEF Handshaking
<1> QED
  BY <1>4, <1>6, <1>7, <1>8, <1>9, FewerShakeHands

LEMMA TimedOutKeeps == ASSUME PacerInv, NEW u \in Users, TimedOut(u) PROVE PacerInv'
<1>1. cool \in Nat /\ cool <= CooldownMax /\ (cool = 0 \/ cool >= Cooldown)
  BY Bounds DEF PacerInv, PacerTypes
<1>2. NextCooldown \in Nat /\ Cooldown <= NextCooldown /\ NextCooldown <= CooldownMax
  BY <1>1, Bounds DEF NextCooldown
<1>3. cool' = NextCooldown /\ blocked' = NextCooldown
  BY DEF TimedOut
<1>4. /\ blocked' \in 0 .. CooldownMax /\ cool' \in 0 .. CooldownMax /\ cool' >= Cooldown
      /\ cool' >= cool
  BY <1>1, <1>2, <1>3, Bounds DEF NextCooldown
<1>5. at[u] = "connecting" /\ AfterFailure(u) /\ UNCHANGED <<tried, starts, begun>> /\ probing' = FALSE
  BY DEF TimedOut
<1> QED
  BY <1>4, <1>5, FailureKeeps

LEMMA FailedKeeps == ASSUME PacerInv, NEW u \in Users, Failed(u) PROVE PacerInv'
<1>1. /\ at[u] = "connecting" /\ AfterFailure(u) /\ UNCHANGED <<tried, starts, begun, blocked, cool>>
      /\ probing' = FALSE
  BY DEF Failed
<1>2. /\ blocked' \in 0 .. CooldownMax /\ cool' \in 0 .. CooldownMax /\ (cool' = 0 \/ cool' >= Cooldown)
      /\ cool' >= cool
  BY <1>1, Bounds DEF PacerInv, PacerTypes
<1> QED
  BY <1>1, <1>2, FailureKeeps

(* Time passes, for all that are connecting alike: who began before a probe stays the older. *)
LEMMA TickKeeps == ASSUME PacerInv, Tick PROVE PacerInv'
<1> USE DEF PacerInv
<1>1. /\ \A u \in Users : Connecting(u) => lasts[u] < ConnectTicks
      /\ lasts' = [u \in Users |-> IF at[u] = "connecting" THEN lasts[u] + 1 ELSE 0]
      /\ blocked' = IF blocked > 0 THEN blocked - 1 ELSE 0
      /\ UNCHANGED <<at, again, tried, cool, probing, probes, outlived>>
  BY DEF Tick, Connecting
<1>2. \A u \in Users : lasts[u] \in Nat /\ lasts[u] <= ConnectTicks
  BY Bounds DEF PacerTypes
<1>3. lasts' \in [Users -> 0 .. ConnectTicks]
  <2>1. \A u \in Users : (IF at[u] = "connecting" THEN lasts[u] + 1 ELSE 0) \in 0 .. ConnectTicks
    BY <1>1, <1>2, Bounds DEF Connecting
  <2> QED
    BY <1>1, <2>1
<1>4. blocked \in Nat /\ blocked <= CooldownMax /\ blocked' \in 0 .. CooldownMax
  BY <1>1, Bounds DEF PacerTypes
<1>5. PacerTypes'
  BY <1>1, <1>3, <1>4 DEF PacerTypes
<1>6. \A u \in Users : Connecting(u)' <=> Connecting(u)
  BY <1>1 DEF Connecting
<1>7. Single' = Single /\ \A u \in Single : u \in probes /\ u \in Users
  BY <1>1 DEF Single, PacerTypes
<1>8. ProbeAlone' /\ ProbeKnown'
  <2>1. ASSUME NEW u \in Single, NEW v \in Users, Connecting(v)
        PROVE  lasts'[u] <= lasts'[v]
    <3>1. lasts[u] <= lasts[v] /\ Connecting(u) /\ u \in Users
      BY <1>7, <2>1 DEF ProbeAlone
    <3>2. lasts'[u] = lasts[u] + 1 /\ lasts'[v] = lasts[v] + 1
      BY <1>1, <2>1, <3>1 DEF Connecting
    <3> QED
      BY <1>2, <3>1, <3>2
  <2>2. ProbeAlone'
    BY <1>1, <1>6, <1>7, <2>1 DEF ProbeAlone, PacerTypes
  <2>3. ProbeKnown'
    BY <1>1, <1>7, Zenon DEF ProbeKnown
  <2> QED
    BY <2>2, <2>3
<1>9. Flags'
  BY <1>1 DEF Flags
<1>10. Paced'
  BY TickPaced DEF Tick, Paced
<1>11. Handshaking' = Handshaking
  BY <1>1 DEF Handshaking
<1> QED
  BY <1>5, <1>8, <1>9, <1>10, <1>11

LEMMA PacerNextKeeps == ASSUME PacerInv, [PacerNext]_pacer_all PROVE PacerInv'
<1>1. CASE Tick
  BY <1>1, TickKeeps
<1>2. ASSUME NEW u \in Users, Begin(u) \/ PassGate(u) PROVE PacerInv'
  BY <1>2, BeginKeeps, PassGateKeeps
<1>3. ASSUME NEW u \in Users, CancelConnect(u) \/ HeldBack(u) \/ Close(u) PROVE PacerInv'
  <2>1. PICK where \in {"idle", "over"} :
          at[u] # "connecting" /\ Goes(u, where) /\ UNCHANGED <<again, tried, pacer_vars, begun>>
    BY <1>3 DEF CancelConnect, HeldBack, Close
  <2> QED
    BY <2>1, OtherGoesKeeps
<1>4. ASSUME NEW u \in Users, Acquire(u) \/ ConnectEnds(u) PROVE PacerInv'
  BY <1>4, AcquireKeeps, ReachedKeeps, TimedOutKeeps, FailedKeeps DEF ConnectEnds
<1>5. CASE UNCHANGED pacer_all
  <2>1. UNCHANGED <<at, again, lasts, tried, starts, blocked, cool, probing, probes, outlived, begun>>
    BY <1>5 DEF pacer_all, user_vars, pacer_vars
  <2>2. PacerTypes' /\ Flags' /\ Paced'
    BY <2>1 DEF PacerInv, PacerTypes, Flags, Paced
  <2>3. ProbeAlone' /\ ProbeKnown'
    BY <2>1 DEF PacerInv, ProbeAlone, ProbeKnown, Single, Connecting
  <2>4. Handshaking' = Handshaking
    BY <2>1 DEF Handshaking
  <2> QED
    BY <2>2, <2>3, <2>4 DEF PacerInv
<1> QED
  BY <1>1, <1>2, <1>3, <1>4, <1>5 DEF PacerNext

LEMMA PacerInvPaces == PacerInv => ConnectsArePaced
<1> SUFFICES ASSUME PacerInv PROVE ConnectsArePaced
  OBVIOUS
<1> USE DEF PacerInv
<1>1. PacerTypeOK
  BY DEF PacerTypeOK, PacerTypes, Flags, Paced, PacedAs, Ages, ProbeAlone
<1>2. StartsPaced
  BY DEF StartsPaced, Paced, PacedAs
<1>3. OneProbe
  <2>1. CASE Single = {}
    BY <2>1, FS_EmptySet DEF OneProbe, Single
  <2>2. CASE Single # {}
    <3>1. PICK u : u \in Single
      BY <2>2
    <3>2. Single = {u}
      BY <3>1 DEF ProbeAlone
    <3>3. Cardinality(Single) = 1
      BY ONLY <3>2, FS_Singleton
    <3>4. Cardinality(Single) <= 1
      BY ONLY <3>3
    <3> QED
      BY ONLY <3>4 DEF OneProbe, Single
  <2> QED
    BY <2>1, <2>2
<1> QED
  BY <1>1, <1>2, <1>3 DEF ConnectsArePaced

(* For any number of users, slots, starts and ticks, however long a connect lasts beside the
   cool-down: never more handshakes than slots, never more starts in a window than are allowed,
   and after a timeout one connect at a time until one gets through, except beside those that
   have outlived an older connect (ConnectPacer).                                             *)
THEOREM ConnectsPaced == PacerSpec => []ConnectsArePaced
<1>1. PacerSpec => []PacerInv
  BY PacerInitInv, PacerNextKeeps, PTL DEF PacerSpec
<1> QED
  BY <1>1, PacerInvPaces, PTL

-----------------------------------------------------------------------------
(* The check before a pass (PreCheck). *)

Answer == {NoAnswer} \cup {Identity(w.sensor) : w \in Worlds}
Clocks == {"agrees", "drifts", "far", "impossible", "unread"}
Books == {"closed", "open", "busy", "missing", "unread"}
Readings == [raised : SUBSET {"info", "clock", "storage"}, info : Answer, clock : Clocks, storage : Int, book : Books]

(* What is judged is what was read, and a reading of the storage that raised read nothing. *)
CheckInv ==
  /\ world \in Worlds /\ collection \in Collections
  /\ readings \in Readings
  /\ step \in {"info", "clock", "storage", "book", "judge", "done"}
  /\ step \in {"info", "clock", "storage"} => readings.storage = Unknown /\ "storage" \notin readings.raised
  /\ "storage" \in readings.raised => readings.storage = Unknown
  /\ step = "done" => checks = Judged(readings, world, collection)

(* Of the checks that are made by pre_run_checks(), those of a reading that failed are left out. *)
LEMMA JudgedChecks ==
  ASSUME NEW r, NEW w, NEW c, NEW x
  PROVE  x \in Judged(r, w, c) <=>
           \/ x \in Notes(r)
           \/ /\ x \in PreRunChecks(r, w, c)
              /\ ~(x[1] = "connection" /\ "info" \in r.raised)
              /\ ~(x[1] = "sensor_clock" /\ "clock" \in r.raised)
              /\ ~(x[1] = "sensor_storage" /\ "storage" \in r.raised)
<1>1. \A n \in Notes(r) : \/ n = <<"connection", "error">> /\ "info" \in r.raised
                          \/ n = <<"sensor_clock", "info">> /\ "clock" \in r.raised
                          \/ n = <<"sensor_storage", "warning">> /\ "storage" \in r.raised
  BY DEF Notes
<1>2. /\ "info" \in r.raised => <<"connection", "error">> \in Notes(r)
      /\ "clock" \in r.raised => <<"sensor_clock", "info">> \in Notes(r)
      /\ "storage" \in r.raised => <<"sensor_storage", "warning">> \in Notes(r)
  BY DEF Notes
<1>3. x[1] \in {n[1] : n \in Notes(r)} <=>
         \/ x[1] = "connection" /\ "info" \in r.raised
         \/ x[1] = "sensor_clock" /\ "clock" \in r.raised
         \/ x[1] = "sensor_storage" /\ "storage" \in r.raised
  BY <1>1, <1>2
<1> QED
  BY <1>3 DEF Judged

StorageNeed(c) == IF c.plan = "none" THEN Margin ELSE Needed
LocalNeed(c) == IF c.plan = "none" THEN 0 ELSE Estimate
LocalLevel(w, estimate) ==
  IF w.local = Unknown THEN "warning" ELSE IF w.local < estimate + Reserve THEN "error" ELSE "ok"

(* The checks of pre_run_checks(), one by one. *)
LEMMA ChecksOneByOne ==
  ASSUME NEW r, NEW w, NEW c, NEW x
  PROVE  x \in PreRunChecks(r, w, c) <=>
           \/ ~r.info.connected /\ x = <<"connection", "error">>
           \/ r.info.connected /\ x = <<"identity", IF r.info.model = "" /\ r.info.serial = "" THEN "warning" ELSE "ok">>
           \/ r.info.connected /\ x = <<"identity_match", IF Differ(c.expected, r.info) = {} THEN "ok" ELSE "error">>
           \/ Differ(c.previous, r.info) # {} /\ x = <<"identity", "warning">>
           \/ x = <<"local_storage", LocalLevel(w, LocalNeed(c))>>
           \/ x = <<"destination", IF w.writable THEN "ok" ELSE "error">>
           \/ x = <<"computer_clock", "ok">> \/ x = <<"gnss", "info">>
           \/ x = ClockCheck(r.clock) \/ x = PlanCheck(c.plan) \/ x = StorageCheck(r.storage, StorageNeed(c))
           \/ c.results /\ x = BookCheck(w.book, r.book, c.loaded)
<1>1. x \in IdentityChecks(r.info, c) <=>
           \/ ~r.info.connected /\ x = <<"connection", "error">>
           \/ r.info.connected /\ x = <<"identity", IF r.info.model = "" /\ r.info.serial = "" THEN "warning" ELSE "ok">>
           \/ r.info.connected /\ x = <<"identity_match", IF Differ(c.expected, r.info) = {} THEN "ok" ELSE "error">>
           \/ Differ(c.previous, r.info) # {} /\ x = <<"identity", "warning">>
  <2>1. CASE r.info.connected
    BY <2>1 DEF IdentityChecks
  <2>2. CASE ~r.info.connected
    BY <2>2 DEF IdentityChecks
  <2> QED
    BY <2>1, <2>2
<1>2. x \in LocalChecks(w, LocalNeed(c)) <=>
           \/ x = <<"local_storage", LocalLevel(w, LocalNeed(c))>>
           \/ x = <<"destination", IF w.writable THEN "ok" ELSE "error">>
  BY DEF LocalChecks, LocalLevel
<1>3. PreRunChecks(r, w, c) =
        IdentityChecks(r.info, c) \cup LocalChecks(w, LocalNeed(c)) \cup
        {<<"computer_clock", "ok">>, <<"gnss", "info">>, ClockCheck(r.clock), PlanCheck(c.plan),
         StorageCheck(r.storage, StorageNeed(c))} \cup
        (IF c.results THEN {BookCheck(w.book, r.book, c.loaded)} ELSE {})
  BY DEF PreRunChecks, LocalNeed, StorageNeed
<1> QED
  BY <1>1, <1>2, <1>3

(* What stops a pass is told by the sensor's answers, the storage, the disk and the plan; the workbook has no part. *)
LEMMA WhatStops ==
  ASSUME NEW r, NEW w, NEW c, NEW x
  PROVE  x \in BlockingChecks(Judged(r, w, c)) <=>
           \/ x = <<"connection", "error">> /\ ("info" \in r.raised \/ ~r.info.connected)
           \/ x = <<"identity_match", "error">> /\ r.info.connected /\ Differ(c.expected, r.info) # {}
           \/ x = <<"local_storage", "error">> /\ LocalLevel(w, LocalNeed(c)) = "error"
           \/ x = <<"destination", "error">> /\ ~w.writable
           \/ x = <<"plan", "error">> /\ c.plan # "valid"
           \/ /\ x = <<"sensor_storage", "error">> /\ "storage" \notin r.raised
              /\ StorageCheck(r.storage, StorageNeed(c)) = <<"sensor_storage", "error">>
<1>1. x \in BlockingChecks(Judged(r, w, c)) <=> x \in Judged(r, w, c) /\ x[2] = "error" /\ x[1] \in Blocking
  BY DEF BlockingChecks
<1>2. x \in Notes(r) <=> \/ x = <<"connection", "error">> /\ "info" \in r.raised
                         \/ x = <<"sensor_clock", "info">> /\ "clock" \in r.raised
                         \/ x = <<"sensor_storage", "warning">> /\ "storage" \in r.raised
  BY DEF Notes
<1>3. /\ ClockCheck(r.clock)[1] = "sensor_clock"
      /\ BookCheck(w.book, r.book, c.loaded)[1] = "workbook"
      /\ StorageCheck(r.storage, StorageNeed(c))[1] = "sensor_storage"
      /\ \E level : StorageCheck(r.storage, StorageNeed(c)) = <<"sensor_storage", level>>
      /\ PlanCheck(c.plan) = <<"plan", IF c.plan = "valid" THEN "ok" ELSE "error">>
  BY DEF ClockCheck, BookCheck, StorageCheck, PlanCheck
<1> DEFINE Said ==
           \/ x = <<"connection", "error">> /\ ("info" \in r.raised \/ ~r.info.connected)
           \/ x = <<"identity_match", "error">> /\ r.info.connected /\ Differ(c.expected, r.info) # {}
           \/ x = <<"local_storage", "error">> /\ LocalLevel(w, LocalNeed(c)) = "error"
           \/ x = <<"destination", "error">> /\ ~w.writable
           \/ x = <<"plan", "error">> /\ c.plan # "valid"
           \/ /\ x = <<"sensor_storage", "error">> /\ "storage" \notin r.raised
              /\ StorageCheck(r.storage, StorageNeed(c)) = <<"sensor_storage", "error">>
<1>4. ASSUME x \in Judged(r, w, c), x[2] = "error", x[1] \in Blocking PROVE Said
  <2>1. CASE x \in Notes(r)
    BY <1>2, <1>4, <2>1
  <2>2. CASE x \in PreRunChecks(r, w, c) /\ ~(x[1] = "sensor_storage" /\ "storage" \in r.raised)
    <3>1. x[1] \notin {"sensor_clock", "workbook", "computer_clock", "gnss", "identity"}
      BY <1>4 DEF Blocking
    <3>2. \/ ~r.info.connected /\ x = <<"connection", "error">>
          \/ r.info.connected /\ x = <<"identity_match", IF Differ(c.expected, r.info) = {} THEN "ok" ELSE "error">>
          \/ x = <<"local_storage", LocalLevel(w, LocalNeed(c))>>
          \/ x = <<"destination", IF w.writable THEN "ok" ELSE "error">>
          \/ x = PlanCheck(c.plan) \/ x = StorageCheck(r.storage, StorageNeed(c))
      <4>1. x # <<"computer_clock", "ok">> /\ x # <<"gnss", "info">> /\ x # <<"identity", "warning">>
            /\ x # ClockCheck(r.clock) /\ x # BookCheck(w.book, r.book, c.loaded)
        BY <1>3, <3>1
      <4>2. x # <<"identity", IF r.info.model = "" /\ r.info.serial = "" THEN "warning" ELSE "ok">>
        <5>1. \A level : x # <<"identity", level>>
          BY <3>1
        <5> QED
          BY <5>1, Zenon
      <4> QED
        BY <2>2, <4>1, <4>2, ChecksOneByOne, Zenon
    <3>3. CASE x = StorageCheck(r.storage, StorageNeed(c))
      BY <1>3, <1>4, <2>2, <3>3
    <3>4. CASE x # StorageCheck(r.storage, StorageNeed(c))
      BY <1>3, <1>4, <3>2, <3>4
    <3> QED
      BY <3>3, <3>4
  <2> QED
    BY <1>4, <2>1, <2>2, JudgedChecks
<1>5. ASSUME Said PROVE x \in Judged(r, w, c) /\ x[2] = "error" /\ x[1] \in Blocking
  <2>1. x[2] = "error" /\ x[1] \in Blocking
    BY <1>5 DEF Blocking
  <2>2. CASE x = <<"connection", "error">> /\ "info" \in r.raised
    BY <1>2, <2>1, <2>2, JudgedChecks
  <2>3. CASE ~(x = <<"connection", "error">> /\ "info" \in r.raised)
    <3>1. x \in PreRunChecks(r, w, c)
      BY <1>3, <1>5, <2>3, ChecksOneByOne
    <3> QED
      BY <1>5, <2>1, <2>3, <3>1, JudgedChecks
  <2> QED
    BY <2>1, <2>2, <2>3
<1> QED
  BY <1>1, <1>4, <1>5

-----------------------------------------------------------------------------
LEMMA CheckInvInit == PreCheckInit => CheckInv
<1>1. NoReadings \in Readings /\ NoReadings.storage = Unknown /\ NoReadings.raised = {}
  BY DEF NoReadings, Readings, Answer, Unknown, Clocks, Books
<1> QED
  BY <1>1 DEF PreCheckInit, CheckInv

LEMMA ReadingsStay ==
  ASSUME NEW r \in Readings
  PROVE  /\ \A v \in Answer : [r EXCEPT !["info"] = v] \in Readings /\ [r EXCEPT !["info"] = v].storage = r.storage
                              /\ [r EXCEPT !["info"] = v].raised = r.raised
         /\ \A v \in Clocks : [r EXCEPT !["clock"] = v] \in Readings /\ [r EXCEPT !["clock"] = v].storage = r.storage
                              /\ [r EXCEPT !["clock"] = v].raised = r.raised
         /\ \A v \in Int : [r EXCEPT !["storage"] = v] \in Readings /\ [r EXCEPT !["storage"] = v].storage = v
                              /\ [r EXCEPT !["storage"] = v].raised = r.raised
         /\ \A v \in Books : [r EXCEPT !["book"] = v] \in Readings /\ [r EXCEPT !["book"] = v].storage = r.storage
                              /\ [r EXCEPT !["book"] = v].raised = r.raised
         /\ \A what \in {"info", "clock", "storage"} :
              /\ [r EXCEPT !.raised = @ \cup {what}] \in Readings
              /\ [r EXCEPT !.raised = @ \cup {what}].storage = r.storage
              /\ [r EXCEPT !.raised = @ \cup {what}].raised = r.raised \cup {what}
<1>1. \A v \in Answer : [r EXCEPT !["info"] = v] \in Readings /\ [r EXCEPT !["info"] = v].storage = r.storage
                              /\ [r EXCEPT !["info"] = v].raised = r.raised
  BY DEF Readings
<1>2. \A v \in Clocks : [r EXCEPT !["clock"] = v] \in Readings /\ [r EXCEPT !["clock"] = v].storage = r.storage
                              /\ [r EXCEPT !["clock"] = v].raised = r.raised
  BY DEF Readings
<1>3. \A v \in Int : [r EXCEPT !["storage"] = v] \in Readings /\ [r EXCEPT !["storage"] = v].storage = v
                              /\ [r EXCEPT !["storage"] = v].raised = r.raised
  BY DEF Readings
<1>4. \A v \in Books : [r EXCEPT !["book"] = v] \in Readings /\ [r EXCEPT !["book"] = v].storage = r.storage
                              /\ [r EXCEPT !["book"] = v].raised = r.raised
  BY DEF Readings
<1>5. \A what \in {"info", "clock", "storage"} :
              /\ [r EXCEPT !.raised = @ \cup {what}] \in Readings
              /\ [r EXCEPT !.raised = @ \cup {what}].storage = r.storage
              /\ [r EXCEPT !.raised = @ \cup {what}].raised = r.raised \cup {what}
  BY DEF Readings
<1> QED
  BY <1>1, <1>2, <1>3, <1>4, <1>5

LEMMA CheckInvNext == ASSUME CheckInv, [PreCheckNext]_precheck_vars PROVE CheckInv'
<1> USE DEF CheckInv
<1>0. ASSUME NEW what, NEW v, NEW next
      PROVE  /\ Reads(what, {v}, next) =>
                  /\ readings' = [readings EXCEPT ![what] = v] /\ step' = next
                  /\ UNCHANGED <<world, collection, checks, changes>>
             /\ Raises(what, next) =>
                  /\ readings' = [readings EXCEPT !.raised = @ \cup {what}] /\ step' = next
                  /\ UNCHANGED <<world, collection, checks, changes>>
  BY DEF Reads, Raises
<1>1. CASE FetchInfo
  <2>1. PICK v \in Answer : Reads("info", {v}, "clock") \/ Raises("info", "clock")
    <3>1. Identity(world.sensor) \in Answer /\ NoAnswer \in Answer
      BY DEF Answer
    <3> QED
      BY <1>1, <3>1 DEF FetchInfo
  <2>2. step = "info" /\ readings.storage = Unknown /\ "storage" \notin readings.raised
    BY <1>1 DEF FetchInfo
  <2>3. CASE Reads("info", {v}, "clock")
    <3>1. readings' = [readings EXCEPT !["info"] = v]
      BY <1>0, <2>3
    <3>2. step' = "clock" /\ UNCHANGED <<world, collection, checks, changes>>
      BY <1>0, <2>3
    <3>3. readings' \in Readings /\ readings'.storage = readings.storage /\ readings'.raised = readings.raised
      BY <2>2, <3>1, ReadingsStay
    <3> QED
      BY <2>2, <3>2, <3>3
  <2>4. CASE Raises("info", "clock")
    <3>1. readings' = [readings EXCEPT !.raised = @ \cup {"info"}]
      BY <1>0, <2>4
    <3>2. step' = "clock" /\ UNCHANGED <<world, collection, checks, changes>>
      BY <1>0, <2>4
    <3>3. readings' \in Readings /\ readings'.storage = readings.storage /\ "storage" \notin readings'.raised
      BY <2>2, <3>1, ReadingsStay
    <3> QED
      BY <2>2, <3>2, <3>3
  <2> QED
    BY <2>1, <2>3, <2>4
<1>2. CASE FetchClock
  <2>1. PICK v \in Clocks : Reads("clock", {v}, "storage") \/ Raises("clock", "storage")
    <3>1. world.clock \in Clocks /\ "unread" \in Clocks
      BY PreCheckAssumption DEF Clocks
    <3> QED
      BY <1>2, <3>1 DEF FetchClock
  <2>2. step = "clock" /\ readings.storage = Unknown /\ "storage" \notin readings.raised
    BY <1>2 DEF FetchClock
  <2>3. CASE Reads("clock", {v}, "storage")
    <3>1. readings' = [readings EXCEPT !["clock"] = v]
      BY <1>0, <2>3
    <3>2. step' = "storage" /\ UNCHANGED <<world, collection, checks, changes>>
      BY <1>0, <2>3
    <3>3. readings' \in Readings /\ readings'.storage = readings.storage /\ readings'.raised = readings.raised
      BY <2>2, <3>1, ReadingsStay
    <3> QED
      BY <2>2, <3>2, <3>3
  <2>4. CASE Raises("clock", "storage")
    <3>1. readings' = [readings EXCEPT !.raised = @ \cup {"clock"}]
      BY <1>0, <2>4
    <3>2. step' = "storage" /\ UNCHANGED <<world, collection, checks, changes>>
      BY <1>0, <2>4
    <3>3. readings' \in Readings /\ readings'.storage = readings.storage /\ "storage" \notin readings'.raised
      BY <2>2, <3>1, ReadingsStay
    <3> QED
      BY <2>2, <3>2, <3>3
  <2> QED
    BY <2>1, <2>3, <2>4
<1>3. CASE FetchStorage
  <2>2. step = "storage" /\ readings.storage = Unknown /\ "storage" \notin readings.raised
    BY <1>3 DEF FetchStorage
  <2>3. CASE Raises("storage", "book")
    <3>1. readings' = [readings EXCEPT !.raised = @ \cup {"storage"}]
      BY <1>0, <2>3
    <3>2. step' = "book" /\ UNCHANGED <<world, collection, checks, changes>>
      BY <1>0, <2>3
    <3>3. readings' \in Readings /\ readings'.storage = readings.storage
      BY <2>2, <3>1, ReadingsStay
    <3> QED
      BY <2>2, <3>2, <3>3
  <2>4. CASE ~Raises("storage", "book")
    <3>1. world.storage \in Int /\ Unknown \in Int
      <4>1. world.storage \in Nat
        BY PreCheckAssumption
      <4> QED
        BY <4>1 DEF Unknown
    <3>2. PICK v \in {world.storage, Unknown} : Reads("storage", {v}, "book")
      <4>1. \/ Reads("storage", {Unknown}, "book")
            \/ \E v \in {world.storage, Unknown} : readings' = [readings EXCEPT !["storage"] = v]
                   /\ step' = "book" /\ UNCHANGED <<world, collection, checks, changes>>
        BY <1>3, <2>4 DEF FetchStorage, Reads
      <4> QED
        BY <4>1 DEF Reads
    <3>3. readings' = [readings EXCEPT !["storage"] = v]
      BY <1>0, <3>2
    <3>4. step' = "book" /\ UNCHANGED <<world, collection, checks, changes>>
      BY <1>0, <3>2
    <3>5. v \in Int
      BY <3>1, <3>2
    <3>6. readings' \in Readings /\ readings'.raised = readings.raised
      BY <3>3, <3>5, ReadingsStay
    <3> QED
      BY <2>2, <3>4, <3>6
  <2> QED
    BY <2>3, <2>4
<1>4. CASE ReadBook
  <2>1. PICK v \in Books : Reads("book", {v}, "judge")
    <3>1. world.excel \in {"closed", "open", "busy", "cannot tell"}
      BY PreCheckAssumption
    <3>2. PICK v : /\ v = (CASE ~collection.results -> "unread"
                              [] collection.results /\ ~world.book -> "missing"
                              [] OTHER -> IF world.excel = "cannot tell" THEN "busy" ELSE world.excel)
      OBVIOUS
    <3>3. Reads("book", {v}, "judge")
      BY <1>4, <3>2 DEF ReadBook
    <3>4. v \in Books
      BY <3>1, <3>2 DEF Books
    <3> QED
      BY <3>3, <3>4
  <2>2. step = "book"
    BY <1>4 DEF ReadBook
  <2>3. Reads("book", {v}, "judge") => CheckInv'
    <3>1. readings' = [readings EXCEPT !["book"] = v]
      BY <1>0, <2>1
    <3>2. step' = "judge" /\ UNCHANGED <<world, collection, checks, changes>>
      BY <1>0, <2>1
    <3>3. readings' \in Readings /\ readings'.storage = readings.storage /\ readings'.raised = readings.raised
      BY <2>2, <3>1, ReadingsStay
    <3> QED
      BY <2>2, <3>2, <3>3
  <2> QED
    BY <2>1, <2>3
<1>5. CASE Judge
  BY <1>5 DEF Judge
<1>6. CASE WorldChanges
  BY <1>6 DEF WorldChanges
<1>7. CASE UNCHANGED precheck_vars
  BY <1>7 DEF precheck_vars
<1> QED
  BY <1>1, <1>2, <1>3, <1>4, <1>5, <1>6, <1>7 DEF PreCheckNext, PreCheckStep

-----------------------------------------------------------------------------
LEMMA PassedCheckIsReady == CheckInv => PassedIsReady
<1> SUFFICES ASSUME CheckInv, step = "done", BlockingChecks(checks) = {}
             PROVE  /\ readings.info.connected /\ Differ(collection.expected, readings.info) = {}
                    /\ collection.plan = "valid" /\ world.writable
                    /\ world.local # Unknown => world.local >= Estimate + Reserve
                    /\ readings.storage # Unknown => readings.storage >= Estimate + Margin
  BY DEF PassedIsReady
<1>1. \A x : x \notin BlockingChecks(Judged(readings, world, collection))
  BY DEF CheckInv
<1>2. readings.info.connected
  BY <1>1, WhatStops
<1>3. Differ(collection.expected, readings.info) = {}
  BY <1>1, <1>2, WhatStops
<1>4. collection.plan = "valid"
  BY <1>1, WhatStops
<1>5. world.writable
  BY <1>1, WhatStops
<1>6. LocalNeed(collection) = Estimate /\ StorageNeed(collection) = Estimate + Margin
  BY <1>4 DEF LocalNeed, StorageNeed, Needed
<1>7. ASSUME world.local # Unknown PROVE world.local >= Estimate + Reserve
  <2>1. LocalLevel(world, Estimate) # "error"
    BY <1>1, <1>6, WhatStops
  <2>2. world.local \in Int /\ Estimate \in Nat /\ Reserve \in Nat
    BY PreCheckAssumption DEF CheckInv
  <2> QED
    BY <1>7, <2>1, <2>2 DEF LocalLevel
<1>8. ASSUME readings.storage # Unknown PROVE readings.storage >= Estimate + Margin
  <2>1. "storage" \notin readings.raised
    BY <1>8 DEF CheckInv
  <2>2. StorageCheck(readings.storage, Estimate + Margin) # <<"sensor_storage", "error">>
    BY <1>1, <1>6, <2>1, WhatStops
  <2>3. readings.storage \in Int /\ Estimate \in Nat /\ Margin \in Nat
    BY PreCheckAssumption DEF CheckInv, Readings
  <2> QED
    BY <1>8, <2>2, <2>3 DEF StorageCheck
<1> QED
  BY <1>2, <1>3, <1>4, <1>5, <1>7, <1>8

LEMMA NothingUnreadIsOk == CheckInv => UnreadIsNeverOk
<1> SUFFICES ASSUME CheckInv, step = "done"
             PROVE  /\ readings.storage = Unknown => "ok" \notin Level("sensor_storage")
                    /\ readings.clock = "unread" => "ok" \notin Level("sensor_clock")
                    /\ world.local = Unknown => "ok" \notin Level("local_storage")
                    /\ readings.info.model = "" /\ readings.info.serial = "" => "ok" \notin Level("identity")
  BY DEF UnreadIsNeverOk
<1>1. ASSUME NEW name, "ok" \in Level(name)
      PROVE  \E x : x[1] = name /\ x[2] = "ok" /\ x \in PreRunChecks(readings, world, collection)
  <2>1. PICK x \in checks : x[1] = name /\ x[2] = "ok"
    BY <1>1 DEF Level
  <2>2. x \in Judged(readings, world, collection) /\ x \notin Notes(readings)
    BY <2>1 DEF CheckInv, Notes
  <2> QED
    BY <2>1, <2>2, JudgedChecks
<1>2. /\ \A x : x = BookCheck(world.book, readings.book, collection.loaded) => x[1] = "workbook"
      /\ \A x : x = PlanCheck(collection.plan) => x[1] = "plan"
      /\ \A x : x = ClockCheck(readings.clock) => x[1] = "sensor_clock"
      /\ \A x : x = StorageCheck(readings.storage, StorageNeed(collection)) => x[1] = "sensor_storage"
      /\ \A x, name, level : x = <<name, level>> => x[1] = name /\ x[2] = level
  BY DEF BookCheck, PlanCheck, ClockCheck, StorageCheck
<1>3. ASSUME NEW x \in PreRunChecks(readings, world, collection)
      PROVE  /\ x[1] = "sensor_storage" => x = StorageCheck(readings.storage, StorageNeed(collection))
             /\ x[1] = "sensor_clock" => x = ClockCheck(readings.clock)
             /\ x[1] = "local_storage" => x[2] = LocalLevel(world, LocalNeed(collection))
             /\ x[1] = "identity" /\ x[2] = "ok" => ~(readings.info.model = "" /\ readings.info.serial = "")
  <2> DEFINE identity == IF readings.info.model = "" /\ readings.info.serial = "" THEN "warning" ELSE "ok"
             match == IF Differ(collection.expected, readings.info) = {} THEN "ok" ELSE "error"
             writable == IF world.writable THEN "ok" ELSE "error"
             local == LocalLevel(world, LocalNeed(collection))
  <2>1. \/ x = <<"connection", "error">> \/ x = <<"identity", identity>> \/ x = <<"identity_match", match>>
        \/ x = <<"identity", "warning">> \/ x = <<"local_storage", local>> \/ x = <<"destination", writable>>
        \/ x = <<"computer_clock", "ok">> \/ x = <<"gnss", "info">>
        \/ x = ClockCheck(readings.clock) \/ x = PlanCheck(collection.plan)
        \/ x = StorageCheck(readings.storage, StorageNeed(collection))
        \/ x = BookCheck(world.book, readings.book, collection.loaded)
    BY ChecksOneByOne, Zenon
  <2>2. identity = "ok" => ~(readings.info.model = "" /\ readings.info.serial = "")
    OBVIOUS
  <2> HIDE DEF identity, match, writable, local
  <2>3. /\ x[1] = "sensor_storage" => x = StorageCheck(readings.storage, StorageNeed(collection))
        /\ x[1] = "sensor_clock" => x = ClockCheck(readings.clock)
        /\ x[1] = "local_storage" => x[2] = local
        /\ x[1] = "identity" /\ x[2] = "ok" => identity = "ok"
    BY <1>2, <2>1
  <2> QED
    BY <2>2, <2>3 DEF local
<1>4. ASSUME readings.storage = Unknown PROVE "ok" \notin Level("sensor_storage")
  <2>1. StorageCheck(readings.storage, StorageNeed(collection)) = <<"sensor_storage", "warning">>
    BY <1>4 DEF StorageCheck
  <2>2. ASSUME "ok" \in Level("sensor_storage") PROVE FALSE
    <3>1. PICK x : x[1] = "sensor_storage" /\ x[2] = "ok" /\ x \in PreRunChecks(readings, world, collection)
      BY <1>1, <2>2
    <3>2. x = <<"sensor_storage", "warning">>
      BY <1>3, <2>1, <3>1, Zenon
    <3> QED
      BY <3>1, <3>2
  <2> QED
    BY <2>2
<1>5. ASSUME readings.clock = "unread" PROVE "ok" \notin Level("sensor_clock")
  <2>1. ClockCheck(readings.clock) = <<"sensor_clock", "info">>
    BY <1>5 DEF ClockCheck
  <2>2. ASSUME "ok" \in Level("sensor_clock") PROVE FALSE
    <3>1. PICK x : x[1] = "sensor_clock" /\ x[2] = "ok" /\ x \in PreRunChecks(readings, world, collection)
      BY <1>1, <2>2
    <3>2. x = <<"sensor_clock", "info">>
      BY <1>3, <2>1, <3>1, Zenon
    <3> QED
      BY <3>1, <3>2
  <2> QED
    BY <2>2
<1>6. ASSUME world.local = Unknown PROVE "ok" \notin Level("local_storage")
  <2>1. LocalLevel(world, LocalNeed(collection)) = "warning"
    BY <1>6 DEF LocalLevel
  <2>2. ASSUME "ok" \in Level("local_storage") PROVE FALSE
    <3>1. PICK x : x[1] = "local_storage" /\ x[2] = "ok" /\ x \in PreRunChecks(readings, world, collection)
      BY <1>1, <2>2
    <3> QED
      BY <1>3, <2>1, <3>1
  <2> QED
    BY <2>2
<1> QED
  BY <1>1, <1>3, <1>4, <1>5, <1>6

(* What stops a pass is the same for any two checks that agree in what it depends on. *)
LEMMA SameStops ==
  ASSUME NEW r, NEW w, NEW c, NEW s, NEW v, NEW d,
         s.raised = r.raised, s.info = r.info, s.storage = r.storage,
         v.local = w.local, v.writable = w.writable, d.plan = c.plan,
         Differ(c.expected, r.info) # {} => Differ(d.expected, r.info) # {}
  PROVE  BlockingChecks(Judged(r, w, c)) \subseteq BlockingChecks(Judged(s, v, d))
<1>1. LocalNeed(d) = LocalNeed(c) /\ StorageNeed(d) = StorageNeed(c)
  BY DEF LocalNeed, StorageNeed
<1>2. LocalLevel(v, LocalNeed(d)) = LocalLevel(w, LocalNeed(c))
  BY <1>1 DEF LocalLevel
<1>3. StorageCheck(s.storage, StorageNeed(d)) = StorageCheck(r.storage, StorageNeed(c))
  BY <1>1
<1> SUFFICES ASSUME NEW x \in BlockingChecks(Judged(r, w, c))
             PROVE  x \in BlockingChecks(Judged(s, v, d))
  OBVIOUS
<1> QED
  BY <1>2, <1>3, WhatStops

LEMMA ExcelStopsNothing == CheckInv => ExcelNeverStopsAPass
<1> SUFFICES ASSUME CheckInv, step = "done", NEW there \in BOOLEAN, NEW state \in {"missing", "busy", "open", "closed"}
             PROVE  BlockingChecks(checks) =
                      BlockingChecks(Judged([readings EXCEPT !.book = state], [world EXCEPT !.book = there], collection))
  BY DEF ExcelNeverStopsAPass
<1>1. PICK s : s = [readings EXCEPT !.book = state]
  OBVIOUS
<1>2. PICK v : v = [world EXCEPT !.book = there]
  OBVIOUS
<1>3. s.raised = readings.raised /\ s.info = readings.info /\ s.storage = readings.storage
  BY <1>1 DEF CheckInv, Readings
<1>4. v.local = world.local /\ v.writable = world.writable
  BY <1>2, PreCheckAssumption DEF CheckInv
<1>5. BlockingChecks(Judged(readings, world, collection)) \subseteq BlockingChecks(Judged(s, v, collection))
  BY <1>3, <1>4, SameStops
<1>6. BlockingChecks(Judged(s, v, collection)) \subseteq BlockingChecks(Judged(readings, world, collection))
  BY <1>3, <1>4, SameStops
<1> QED
  BY <1>1, <1>2, <1>5, <1>6 DEF CheckInv

LEMMA ReadinessTells == CheckInv => ReadinessForetells
<1> SUFFICES ASSUME CheckInv, step = "done"
             PROVE  LET ready == BlockingChecks(Judged(readings, world, Readiness(collection)))
                    IN  /\ ready \subseteq BlockingChecks(checks)
                        /\ collection.expected.serial # "" => ready = BlockingChecks(checks)
  BY DEF ReadinessForetells
<1>1. PICK d : d = Readiness(collection)
  OBVIOUS
<1>2. /\ d.plan = collection.plan
      /\ collection.expected.serial # "" => d.expected = collection.expected
      /\ collection.expected.serial = "" => d.expected = [model |-> "", serial |-> ""]
  BY <1>1, PreCheckAssumption DEF Readiness, CheckInv
<1>3. \A i : Differ([model |-> "", serial |-> ""], i) = {}
  <2>1. \A k \in {"model", "serial"} : [model |-> "", serial |-> ""][k] = ""
    <3> SUFFICES [model |-> "", serial |-> ""].model = "" /\ [model |-> "", serial |-> ""].serial = ""
      OBVIOUS
    <3> QED
      OBVIOUS
  <2> QED
    BY <2>1 DEF Differ
<1>4. BlockingChecks(Judged(readings, world, d)) \subseteq BlockingChecks(checks)
  <2>1. Differ(d.expected, readings.info) # {} => Differ(collection.expected, readings.info) # {}
    BY <1>2, <1>3
  <2>2. BlockingChecks(Judged(readings, world, d)) \subseteq BlockingChecks(Judged(readings, world, collection))
    BY <1>2, <2>1, SameStops
  <2> QED
    BY <2>2 DEF CheckInv
<1>5. ASSUME collection.expected.serial # ""
      PROVE  BlockingChecks(checks) \subseteq BlockingChecks(Judged(readings, world, d))
  BY <1>2, <1>5, SameStops DEF CheckInv
<1> QED
  BY <1>1, <1>4, <1>5

(* For any sensors, clocks, storages, disks and collections, and whatever changes while the check
   runs: a pass that the check lets start has an answering sensor of the collection, a valid plan
   and room for it, nothing unread is called well, the workbook stops nothing, and "Check
   readiness" foretells it (gather_preflight(), pre_run_checks()).                              *)
THEOREM CheckReliable == PreCheckSpec => []CheckIsReliable
<1>1. PreCheckSpec => []CheckInv
  BY CheckInvInit, CheckInvNext, PTL DEF PreCheckSpec
<1>2. CheckInv => CheckIsReliable
  BY PassedCheckIsReady, NothingUnreadIsOk, ExcelStopsNothing, ReadinessTells DEF CheckIsReliable
<1> QED
  BY <1>1, <1>2, PTL
===============================================================================
