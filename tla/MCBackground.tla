------------------------------ MODULE MCBackground ------------------------------
(* Instances for TLC of the jobs in the background of the program: the merging of downloaded
   recordings, the check and the merge of their parts, the opening of connections, and the check
   before a pass.  They share no state: a behaviour is one of them.                             *)
EXTENDS MergeQueue, ConnectPacer, PartFiles, PreCheck

VARIABLE part
CONSTANTS g1, g2, u1, u2, u3

PartsOf == [g \in {g1, g2} |-> IF g = g1 THEN 3 ELSE 2]
FilesOf == [g \in {g1, g2} |-> IF g = g1 THEN 2 ELSE 1]

(* What the sensor writes: parts of 16 bytes of samples (4 frames) unless said otherwise *)
Part == [kind |-> "wave", header |-> 44, data |-> 16, chunks |-> <<12>>, riff |-> 64, align |-> 4, fmt |-> 1,
         start |-> 0, stamped |-> TRUE, tuning |-> 1, spoilt |-> {}]
At(t) == [Part EXCEPT !.start = t]
Bare(t) == [At(t) EXCEPT !.chunks = <<>>, !.riff = 52, !.stamped = FALSE]
Long(t) == [At(t) EXCEPT !.data = 84, !.riff = 132]
Odd(t, n) == [At(t) EXCEPT !.align = 1, !.data = n, !.riff = 36 + Padded(n) + 12]
Xdat(t) == [At(t) EXCEPT !.kind = "xdat", !.header = 0, !.chunks = <<>>]
Recordings ==
  { <<At(0), At(4), At(8)>>,                               \* three parts that follow one another
    <<At(0), At(5)>>, <<At(0), At(6)>>, <<At(0), At(2)>>,   \* small and large gaps, an overlap
    <<Bare(0), Bare(4)>>, <<At(0), Bare(4)>>,               \* no times
    <<Long(0), [At(21) EXCEPT !.data = 4, !.riff = 52]>>,   \* a long part and a short one
    <<Odd(0, 7), Odd(7, 6)>>,                               \* an odd number of bytes
    <<At(0), [At(4) EXCEPT !.data = 0, !.riff = 48]>>,      \* a part still being written
    <<[At(0) EXCEPT !.spoilt = {0}], At(4)>>, <<At(0), [At(4) EXCEPT !.spoilt = {3}]>>,
    <<[Long(0) EXCEPT !.spoilt = {5}], At(21)>>,            \* clipped where nothing is looked at
    <<At(0), [At(4) EXCEPT !.tuning = 2]>>, <<At(0), [At(4) EXCEPT !.fmt = 2]>>, <<[At(0) EXCEPT !.kind = "float"], At(4)>>,
    <<Xdat(0), Xdat(4)>>, <<[Xdat(0) EXCEPT !.kind = "encoded"]>>, <<At(0), [At(4) EXCEPT !.kind = "other"]>> }

File(p, w, there, lost, xhdr) == [stem |-> 1, part |-> p, copy |-> 0, there |-> there, lost |-> lost, xhdr |-> xhdr, wrote |-> w]
Copies(p, w) ==
  {<<>>, <<File(p, w, FALSE, 0, "none")>>} \cup
  IF w.kind \in {"xdat", "encoded"} THEN {<<File(p, w, TRUE, l, x)>> : l \in {0, 2, 4, -4, 16}, x \in {"none", "bad", "good"}}
  ELSE {<<File(p, w, TRUE, l, "none")>> : l \in {0, 2, 6, 12, 16, 22, -1, -8, Written(w), Written(w) - 30} \ 
          (IF w.stamped THEN {} ELSE {6, 16, 22})}
Strangers(r) ==
  {<<>>} \cup {<<[File(1, r[1], TRUE, 0, "good") EXCEPT !.stem = s, !.part = p, !.copy = c]>> :
    <<s, p, c>> \in {<<1, 1, 2>>, <<2, 3, 0>>, <<1, 0, 0>>}}
Given(r) == {FlattenSeq(<<IF Len(r) > 2 THEN a \o <<File(2, r[2], TRUE, 0, "good")>> ELSE a,
                          IF Len(r) > 1 THEN b ELSE <<>>>>) :
                a \in Copies(1, r[1]), b \in Copies(Len(r), r[Len(r)])}
Whole(r) == [i \in DOMAIN r |-> File(i, r[i], TRUE, 0, "good")]
MCFolders ==
  UNION {LET g == Given(r) \cup {Whole(r) \o x : x \in Strangers(r)} IN g \cup {Reverse(s) : s \in g} : r \in Recordings}
MCRequests ==
  {[frames |-> 8, tuning |-> 1, names |-> n] : n \in {{}, {<<1, 1, 0>>, <<1, 2, 0>>}}} \cup
  {[frames |-> 22, tuning |-> 1, names |-> {}], [frames |-> 0, tuning |-> 0, names |-> {}]}

Answering == {NoSensor} \cup [model : {"A", ""}, serial : {"A", ""}] \cup {[model |-> "A", serial |-> "B"]}
Good == [sensor |-> [model |-> "A", serial |-> "A"], clock |-> "agrees", storage |-> 20, local |-> 9, writable |-> TRUE, book |-> TRUE, excel |-> "closed"]
MCWorlds ==
  {[Good EXCEPT !.sensor = s] : s \in Answering} \cup {[Good EXCEPT !.clock = k] : k \in {"unread", "drifts", "far", "impossible"}} \cup
  {[Good EXCEPT !.storage = n] : n \in {5, 6, 7, 12}} \cup {[Good EXCEPT !.local = n] : n \in {-1, 4, 5, 6}} \cup
  {[Good EXCEPT !.writable = FALSE]} \cup {[Good EXCEPT !.book = FALSE]} \cup {[Good EXCEPT !.excel = x] : x \in {"busy", "open", "cannot tell"}}
Identities == [model : {"A", ""}, serial : {"A", ""}]
Collection == [expected |-> [model |-> "A", serial |-> "A"], previous |-> [model |-> "", serial |-> ""],
               plan |-> "valid", loaded |-> TRUE, results |-> TRUE]
MCCollections ==
  {[Collection EXCEPT !.expected = i] : i \in Identities} \cup {[Collection EXCEPT !.previous = [model |-> "A", serial |-> "B"]]} \cup
  {[Collection EXCEPT !.plan = k] : k \in {"none", "invalid rows"}} \cup
  {[Collection EXCEPT !.loaded = FALSE, !.plan = k] : k \in {"none", "valid"}} \cup {[Collection EXCEPT !.results = FALSE]}

PreCheckAtRest == world = 0 /\ collection = 0 /\ step = "rest" /\ readings = NoReadings /\ checks = {} /\ changes = 0
FilesAtRest == paths = <<>> /\ asked = 0 /\ quality = NoQuality /\ plan = NoPlan /\ merged = "none"

MCInit ==
  /\ Init /\ PacerInit
  /\ \/ part \in {"merge", "pacer"} /\ FilesAtRest /\ PreCheckAtRest
     \/ part = "files" /\ PartFilesInit /\ PreCheckAtRest
     \/ part = "check" /\ FilesAtRest /\ PreCheckInit

MCNext ==
  /\ UNCHANGED part
  /\ \/ part = "merge" /\ Next /\ UNCHANGED <<pacer_all, file_vars, precheck_vars>>
     \/ part = "pacer" /\ PacerNext /\ UNCHANGED <<vars, file_vars, precheck_vars>>
     \/ part = "files" /\ PartFilesNext /\ UNCHANGED <<vars, pacer_all, precheck_vars>>
     \/ part = "check" /\ PreCheckNext /\ UNCHANGED <<vars, pacer_all, file_vars>>

FairSpec == MCInit /\ [][MCNext]_<<part, vars, pacer_all, file_vars, precheck_vars>>
  /\ Fairness /\ PacerFairness /\ WF_precheck_vars(PreCheckStep)

(* The merges, the connections and the check before a pass each come to their end. *)
BackgroundGoesOn == QueueMoves /\ NobodyWaitsForATurn /\ CheckIsMade
=============================================================================
