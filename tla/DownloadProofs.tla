---------------------------- MODULE DownloadProofs ----------------------------
(***************************************************************************)
(* Theorems about the download queue of a collection (DownloadQueue), for  *)
(* every number of files, rows, workers, faults, restarts and presses of   *)
(* Retry downloads:                                                        *)
(*                                                                         *)
(*   DownloadsSafe    no file is forgotten between the queue, its workers  *)
(*                    and their signals, and one called verified is whole; *)
(*   VerifiedFinal    a verified file is never replaced, and one given up  *)
(*                    waits for the operator.                              *)
(***************************************************************************)
EXTENDS DownloadQueue, FiniteSetTheorems, WellFoundedInduction, TLAPS

(* The operator of an interrupted collection continues it before asking for its downloads again. *)
ContinuesFirst == ~RetryWhileInterrupted

Elements(q) == {q[i] : i \in 1 .. Len(q)}
Distinct(q) == \A i, j \in 1 .. Len(q) : q[i] = q[j] => i = j

(* What a file's workers tell last: that the transfer is over, one way or another, and that the
   thread is; or the hash of the copy.                                                          *)
Closing == {"finished", "failed", "unreachable"}
Hashes == {"hash of good", "hash of torn", "hash of corrupt", "hash of absent"}
Closes(m) == Len(m) >= 2 /\ m[Len(m) - 1] \in Closing /\ m[Len(m)] = "ended"
Hashed(m) == Len(m) >= 1 /\ m[Len(m)] \in Hashes
LastWords(m) ==
  \A i \in 1 .. Len(m) :
    /\ m[i] \in Closing => i = Len(m) - 1 /\ m[Len(m)] = "ended"
    /\ m[i] \in Hashes => i = Len(m)

(* What a file's status says of its worker wk, its checksum worker sm, their signals m and its copy lc. *)
Whole(lc) == lc \in {"good", "corrupt"}
Fits(st, wk, sm, m, lc) ==
  /\ LastWords(m)
  /\ wk # "none" => st = "downloading" /\ ~Closes(m)
  /\ sm # "none" => st = "present" /\ Whole(lc)
  /\ Closes(m) => st = "downloading"
  /\ Hashed(m) => sm # "none" /\ m[Len(m)] = HashOf(lc)
  /\ st = "verified" => Whole(lc)

(* Somebody works on a file that is said to be worked on. *)
Tended(st, wk, sm, m) ==
  /\ st = "downloading" => wk # "none" \/ Closes(m)
  /\ st = "present" => sm # "none"

(* Only files that wait are in the queue, once; and they all are, or are still being listed. *)
InTurn(q, st) == Distinct(q) /\ \A f \in Elements(q) : st[f] = "pending"
Queued(q, st, rf) == \A f \in Files : st[f] = "pending" => f \in Elements(q) \/ RowOf[f] \in rf

Live == session \in {"running", "done"}
AtRest ==
  /\ queue = <<>> /\ delayed = {} /\ refreshing = {} /\ capture = "idle" /\ ~timer
  /\ \A f \in Files : /\ worker[f] = "none" /\ sums[f] = "none" /\ mail[f] = <<>>
                       /\ attempts[f] <= Retries + restarts

(* A pending file has been tried Retries times at most, or was cut by the end of the application. *)
Tried(st, att, n) ==
  \A f \in Files : att[f] <= Retries + n + (IF st[f] \in {"none", "pending"} THEN 0 ELSE 1)

(* The files of a row come up when its capture is over. *)
RowsInTurn ==
  /\ \A f \in Files : RowOf[f] >= row => status[f] = "none"
  /\ refreshing \subseteq 1 .. row - 1
  /\ capture # "idle" => row <= NRows

(* Every file in its place, and the queue q, the statuses st and the signals mb with it. *)
InPlace(q, d, st, att, wk, sm, mb) ==
  /\ q \in Seq(Files) /\ d \subseteq Files
  /\ st \in [Files -> Statuses] /\ att \in [Files -> Nat]
  /\ wk \in [Files -> {"none", "connecting", "transferring"}]
  /\ sm \in [Files -> {"none", "asking", "hashing"}]
  /\ mb \in [Files -> Seq(Signals)]
  /\ \A f \in Files : Fits(st[f], wk[f], sm[f], mb[f], local[f])
  /\ InTurn(q, st)
  /\ Tried(st, att, restarts)

Compared == compared \subseteq {f \in Files : status[f] = "verified" /\ local[f] = "good"}

Looked(q, st, wk, sm, mb, rf) ==
  Queued(q, st, rf) /\ \A f \in Files : Tended(st[f], wk[f], sm[f], mb[f])

QueueInv ==
  /\ TypeOK
  /\ InPlace(queue, delayed, status, attempts, worker, sums, mail)
  /\ RowsInTurn
  /\ Compared
  /\ Live => Looked(queue, status, worker, sums, mail, refreshing)
  /\ ~Live => AtRest

(* What becomes of the verified files and those given up. *)
Final ==
  \A f \in Files :
    /\ status[f] = "verified" => status'[f] = "verified" /\ local'[f] = local[f]
    /\ status[f] = "failed" /\ presses' = presses => status'[f] = "failed"

-----------------------------------------------------------------------------
(* Sequences and what is selected from them. *)
LEMMA LeastExists ==
  ASSUME NEW S \in SUBSET Nat, S # {}
  PROVE  \E i \in S : \A j \in S : i <= j
<1> DEFINE R == {ss \in Nat \X Nat : ss[1] < ss[2]}
<1>1. IsWellFoundedOn(R, Nat)
  BY NatLessThanWellFounded DEF OpToRel
<1>2. PICK i \in S : \A j \in S : <<j, i>> \notin R
  BY <1>1, WFMin, Zenon
<1>3. \A j \in S : ~(j < i)
  BY <1>2
<1> QED
  BY <1>3

(* A set of naturals that has 0, and with each number below n the next one, has all up to n. *)
LEMMA Counting ==
  ASSUME NEW n \in Nat, NEW S, 0 \in S, \A i \in 0 .. n - 1 : i \in S => i + 1 \in S
  PROVE  \A i \in 0 .. n : i \in S
<1> DEFINE B == {i \in 0 .. n : i \notin S}
<1>1. SUFFICES ASSUME B # {} PROVE FALSE
  OBVIOUS
<1>a. B \in SUBSET Nat
  OBVIOUS
<1>2. PICK i \in B : \A j \in B : i <= j
  <2> HIDE DEF B
  <2> QED
    BY <1>1, <1>a, LeastExists
<1>3. i # 0 /\ i - 1 \in 0 .. n - 1 /\ i - 1 \notin B
  BY <1>2
<1> QED
  BY <1>2, <1>3

Selects(g, q, S, n) ==
  g = [i \in 0 .. n |->
        IF i = 0 THEN <<>> ELSE IF q[i] \in S THEN Append(g[i - 1], q[i]) ELSE g[i - 1]]

LEMMA SelectsExists ==
  ASSUME NEW q, NEW S, NEW m \in Nat
  PROVE  \E g : Selects(g, q, S, m)
<1> DEFINE T == {n \in Nat : \E g : Selects(g, q, S, n)}
<1>1. 0 \in T
  <2>1. Selects([i \in 0 .. 0 |-> <<>>], q, S, 0)
    BY DEF Selects
  <2> QED
    BY <2>1
<1>2. ASSUME NEW n \in 0 .. m - 1, n \in T PROVE n + 1 \in T
  <2>1. PICK g : Selects(g, q, S, n)
    BY <1>2
  <2> DEFINE h == [i \in 0 .. n + 1 |-> IF i <= n THEN g[i]
                     ELSE IF q[n + 1] \in S THEN Append(g[n], q[n + 1]) ELSE g[n]]
             e(i) == IF i = 0 THEN <<>> ELSE IF q[i] \in S THEN Append(h[i - 1], q[i]) ELSE h[i - 1]
  <2>2. ASSUME NEW i \in 0 .. n + 1 PROVE h[i] = e(i)
    <3>1. CASE i <= n
      <4>0. i \in 0 .. n
        BY <3>1
      <4>1. g[i] = IF i = 0 THEN <<>> ELSE IF q[i] \in S THEN Append(g[i - 1], q[i]) ELSE g[i - 1]
        <5> HIDE DEF h
        <5> QED
          BY <2>1, <4>0 DEF Selects
      <4>2. i # 0 => h[i - 1] = g[i - 1]
        BY <3>1
      <4> QED
        BY <4>1, <4>2, <3>1
    <3>2. CASE i = n + 1
      BY <3>2
    <3> QED
      BY <3>1, <3>2
  <2>3. h = [i \in 0 .. n + 1 |-> e(i)]
    <3>1. h = [i \in 0 .. n + 1 |-> h[i]]
      OBVIOUS
    <3> HIDE DEF h
    <3> QED
      BY <2>2, <3>1
  <2>4. Selects(h, q, S, n + 1)
    <3> HIDE DEF h
    <3> QED
      BY <2>3 DEF Selects
  <2> HIDE DEF h
  <2> QED
    BY <2>4
<1> HIDE DEF T
<1>3. m \in T
  BY <1>1, <1>2, Counting
<1> QED
  BY <1>3 DEF T

LEMMA OnlySelects ==
  ASSUME NEW q \in Seq(Files), NEW S
  PROVE  \E g : Selects(g, q, S, Len(q)) /\ Only(q, S) = g[Len(q)]
<1> DEFINE g == CHOOSE g : Selects(g, q, S, Len(q))
<1>1. Selects(g, q, S, Len(q))
  BY SelectsExists
<1>2. Only(q, S) = g[Len(q)]
  BY DEF Only, Selects
<1> QED
  BY <1>1, <1>2

(* One more element at the end. *)
LEMMA Longer ==
  ASSUME NEW q \in Seq(Files), NEW f \in Files
  PROVE  /\ Append(q, f) \in Seq(Files)
         /\ Elements(Append(q, f)) = Elements(q) \cup {f}
         /\ Distinct(q) /\ f \notin Elements(q) => Distinct(Append(q, f))
<1>1. /\ Append(q, f) \in Seq(Files) /\ Len(q) \in Nat /\ Len(Append(q, f)) = Len(q) + 1
      /\ Append(q, f)[Len(q) + 1] = f
      /\ \A i \in 1 .. Len(q) : Append(q, f)[i] = q[i]
  OBVIOUS
<1> DEFINE p == Append(q, f)
<1> HIDE DEF p
<1>2. Elements(p) = Elements(q) \cup {f}
  BY <1>1 DEF p, Elements
<1>3. Distinct(q) /\ f \notin Elements(q) => Distinct(p)
  <2> SUFFICES ASSUME Distinct(q), f \notin Elements(q), NEW i \in 1 .. Len(p), NEW j \in 1 .. Len(p),
                      p[i] = p[j]
               PROVE  i = j
    BY DEF Distinct
  <2>1. CASE i \in 1 .. Len(q) /\ j \in 1 .. Len(q)
    BY <1>1, <2>1 DEF p, Distinct
  <2>2. CASE i \in 1 .. Len(q) /\ j = Len(q) + 1
    BY <1>1, <2>2 DEF p, Elements
  <2>3. CASE i = Len(q) + 1 /\ j \in 1 .. Len(q)
    BY <1>1, <2>3 DEF p, Elements
  <2> QED
    BY <1>1, <2>1, <2>2, <2>3 DEF p
<1> QED
  BY <1>1, <1>2, <1>3 DEF p

(* What is left of q is in S, in no other number. *)
LEMMA OnlyLeaves ==
  ASSUME NEW q \in Seq(Files), NEW S
  PROVE  /\ Only(q, S) \in Seq(Files)
         /\ Elements(Only(q, S)) = Elements(q) \cap S
         /\ Distinct(q) => Distinct(Only(q, S))
<1>1. PICK g : Selects(g, q, S, Len(q)) /\ Only(q, S) = g[Len(q)]
  BY OnlySelects
<1>2. Len(q) \in Nat /\ \A i \in 1 .. Len(q) : q[i] \in Files
  OBVIOUS
<1> DEFINE Fine(n) ==
             /\ g[n] \in Seq(Files)
             /\ Elements(g[n]) = {q[i] : i \in 1 .. n} \cap S
             /\ Distinct(q) => Distinct(g[n])
           N == {n \in 0 .. Len(q) : Fine(n)}
<1>3. 0 \in N
  <2>1. g[0] = <<>>
    BY <1>1, <1>2 DEF Selects
  <2>2. Elements(<<>>) = {} /\ Distinct(<<>>) /\ <<>> \in Seq(Files) /\ 1 .. 0 = {}
    BY DEF Elements, Distinct
  <2>3. {q[i] : i \in 1 .. 0} = {}
    BY <2>2
  <2>4. Fine(0)
    BY <2>1, <2>2, <2>3
  <2> QED
    BY <1>2, <2>4
<1>4. ASSUME NEW n \in 0 .. Len(q) - 1, n \in N PROVE n + 1 \in N
  <2>1. g[n + 1] = IF q[n + 1] \in S THEN Append(g[n], q[n + 1]) ELSE g[n]
    <3>1. n + 1 \in 0 .. Len(q) /\ n + 1 # 0 /\ (n + 1) - 1 = n
      BY <1>2
    <3> QED
      BY <1>1, <3>1 DEF Selects
  <2>2. Fine(n) /\ n + 1 \in 1 .. Len(q) /\ q[n + 1] \in Files
    BY <1>2, <1>4
  <2>3. {q[i] : i \in 1 .. n + 1} = {q[i] : i \in 1 .. n} \cup {q[n + 1]}
    BY <1>2
  <2>4. Distinct(q) => q[n + 1] \notin {q[i] : i \in 1 .. n}
    BY <1>2 DEF Distinct
  <2>5. CASE q[n + 1] \in S
    <3>1. g[n + 1] = Append(g[n], q[n + 1])
      BY <2>1, <2>5
    <3>2. /\ Append(g[n], q[n + 1]) \in Seq(Files)
          /\ Elements(Append(g[n], q[n + 1])) = Elements(g[n]) \cup {q[n + 1]}
          /\ Distinct(g[n]) /\ q[n + 1] \notin Elements(g[n]) => Distinct(Append(g[n], q[n + 1]))
      BY <2>2, Longer
    <3>3. Elements(g[n + 1]) = {q[i] : i \in 1 .. n + 1} \cap S
      BY <2>2, <2>3, <2>5, <3>1, <3>2
    <3>4. Distinct(q) => Distinct(g[n + 1])
      BY <2>2, <2>4, <3>1, <3>2
    <3>5. g[n + 1] \in Seq(Files)
      BY <3>1, <3>2
    <3> QED
      BY <2>2, <3>3, <3>4, <3>5
  <2>6. CASE q[n + 1] \notin S
    <3>1. g[n + 1] = g[n]
      BY <2>1, <2>6
    <3> QED
      BY <2>2, <2>3, <2>6, <3>1, <1>2
  <2> QED
    BY <2>5, <2>6
<1> HIDE DEF N
<1>5. Len(q) \in N
  <2>1. \A i \in 0 .. Len(q) - 1 : i \in N => i + 1 \in N
    BY <1>4
  <2>2. \A i \in 0 .. Len(q) : i \in N
    BY <1>2, <1>3, <2>1, Counting
  <2> QED
    BY <1>2, <2>2
<1> USE DEF N
<1> QED
  BY <1>1, <1>5 DEF Elements

-----------------------------------------------------------------------------
(* What a file's workers have told. *)
Neutral == Signals \ (Closing \cup Hashes)

LEMMA SignalKinds ==
  /\ Closing \subseteq Signals /\ Hashes \subseteq Signals /\ Closing \cap Hashes = {}
  /\ "ended" \in Neutral /\ \A c : HashOf(c) \in Hashes
BY DEF Neutral, Signals, Closing, Hashes, HashOf

(* A signal that has been handled is gone. *)
LEMMA Handled ==
  ASSUME NEW m \in Seq(Signals), m # <<>>, LastWords(m)
  PROVE  /\ Tail(m) \in Seq(Signals) /\ LastWords(Tail(m))
         /\ Closes(Tail(m)) => Closes(m)
         /\ Hashed(Tail(m)) => Hashed(m) /\ Tail(m)[Len(Tail(m))] = m[Len(m)]
         /\ Head(m) \notin Closing => (Closes(m) => Closes(Tail(m)))
         /\ Head(m) \in Closing => Closes(m) /\ ~Closes(Tail(m)) /\ ~Hashed(Tail(m))
         /\ Head(m) \in Hashes => Hashed(m) /\ m[Len(m)] = Head(m) /\ Tail(m) = <<>>
<1> DEFINE t == Tail(m)
<1>1. /\ Len(m) \in Nat /\ Len(m) >= 1 /\ Head(m) = m[1] /\ t \in Seq(Signals)
      /\ Len(t) = Len(m) - 1 /\ \A i \in 1 .. Len(m) - 1 : t[i] = m[i + 1]
  OBVIOUS
<1>n. Len(m) = 1 => t = <<>>
  <2>1. \A u \in Seq(Signals) : Len(u) = 0 => u = <<>>
    OBVIOUS
  <2> HIDE DEF t
  <2> QED
    BY <1>1, <2>1
<1> HIDE DEF t
<1>w. \A i \in 1 .. Len(m) :
        /\ m[i] \in Closing => i = Len(m) - 1 /\ m[Len(m)] = "ended"
        /\ m[i] \in Hashes => i = Len(m)
  BY DEF LastWords
<1>2. LastWords(t)
  <2> SUFFICES ASSUME NEW i \in 1 .. Len(t)
               PROVE  /\ t[i] \in Closing => i = Len(t) - 1 /\ t[Len(t)] = "ended"
                      /\ t[i] \in Hashes => i = Len(t)
    BY DEF LastWords
  <2>1. t[i] = m[i + 1] /\ i + 1 \in 1 .. Len(m) /\ t[Len(t)] = m[Len(m)]
    BY <1>1
  <2> QED
    BY <1>1, <1>w, <2>1
<1>3. Closes(t) => Closes(m)
  BY <1>1 DEF Closes
<1>4. Hashed(t) => Hashed(m) /\ t[Len(t)] = m[Len(m)]
  BY <1>1 DEF Hashed
<1>5. Head(m) \notin Closing => (Closes(m) => Closes(t))
  BY <1>1 DEF Closes
<1>6. Head(m) \in Closing => Closes(m) /\ ~Closes(t) /\ ~Hashed(t)
  <2> SUFFICES ASSUME Head(m) \in Closing PROVE Closes(m) /\ ~Closes(t) /\ ~Hashed(t)
    OBVIOUS
  <2>1. Len(m) = 2 /\ m[2] = "ended"
    <3>1. 1 \in 1 .. Len(m) /\ m[1] \in Closing
      BY <1>1
    <3>2. 1 = Len(m) - 1 /\ m[Len(m)] = "ended"
      BY <1>w, <3>1
    <3>3. \A n \in Nat : 1 = n - 1 => n = 2
      OBVIOUS
    <3>4. Len(m) \in Nat
      BY <1>1
    <3>5. Len(m) = 2
      BY <3>2, <3>3, <3>4, Zenon
    <3> QED
      BY <3>2, <3>5
  <2>2. Len(t) = 1 /\ t[1] = "ended" /\ m[1] \in Closing
    BY <1>1, <2>1
  <2> QED
    BY <2>1, <2>2 DEF Closes, Hashed, Hashes
<1>7. Head(m) \in Hashes => Hashed(m) /\ m[Len(m)] = Head(m) /\ t = <<>>
  <2> SUFFICES ASSUME Head(m) \in Hashes PROVE Hashed(m) /\ m[Len(m)] = Head(m) /\ t = <<>>
    OBVIOUS
  <2>1. Len(m) = 1
    <3>1. 1 \in 1 .. Len(m) /\ m[1] \in Hashes
      BY <1>1
    <3> QED
      BY <1>w, <3>1
  <2> QED
    BY <1>1, <1>n, <2>1 DEF Hashed
<1> QED
  BY <1>1, <1>2, <1>3, <1>4, <1>5, <1>6, <1>7 DEF t

(* What is told while a transfer or a checksum goes on is neither the end nor a hash. *)
LEMMA NothingLast ==
  ASSUME NEW m \in Seq(Signals), LastWords(m), ~Closes(m), ~Hashed(m)
  PROVE  \A i \in 1 .. Len(m) : m[i] \in Neutral
<1> SUFFICES ASSUME NEW i \in 1 .. Len(m) PROVE m[i] \in Neutral
  OBVIOUS
<1>1. Len(m) \in Nat /\ m[i] \in Signals
  OBVIOUS
<1> QED
  BY <1>1 DEF LastWords, Closes, Hashed, Neutral

LEMMA Told ==
  ASSUME NEW m \in Seq(Signals), NEW s \in Neutral, \A i \in 1 .. Len(m) : m[i] \in Neutral
  PROVE  /\ m \o <<s>> \in Seq(Signals)
         /\ \A i \in 1 .. Len(m \o <<s>>) : (m \o <<s>>)[i] \in Neutral
<1>1. s \in Signals
  BY DEF Neutral
<1>2. /\ m \o <<s>> \in Seq(Signals) /\ Len(m) \in Nat /\ Len(m \o <<s>>) = Len(m) + 1
      /\ (m \o <<s>>)[Len(m) + 1] = s
      /\ \A i \in 1 .. Len(m) : (m \o <<s>>)[i] = m[i]
  BY <1>1
<1> QED
  BY <1>2

LEMMA NeutralWords ==
  ASSUME NEW m \in Seq(Signals), \A i \in 1 .. Len(m) : m[i] \in Neutral
  PROVE  LastWords(m) /\ ~Closes(m) /\ ~Hashed(m)
<1>1. Len(m) \in Nat /\ Neutral \cap (Closing \cup Hashes) = {}
  BY DEF Neutral
<1> QED
  BY <1>1 DEF LastWords, Closes, Hashed

LEMMA ToldEnd ==
  ASSUME NEW m \in Seq(Signals), NEW c \in Closing, \A i \in 1 .. Len(m) : m[i] \in Neutral
  PROVE  /\ m \o <<c, "ended">> \in Seq(Signals)
         /\ LastWords(m \o <<c, "ended">>) /\ Closes(m \o <<c, "ended">>) /\ ~Hashed(m \o <<c, "ended">>)
<1>1. c \in Signals /\ "ended" \in Signals /\ c \notin Hashes /\ "ended" \notin Closing \cup Hashes
      /\ Neutral \cap (Closing \cup Hashes) = {}
  BY SignalKinds DEF Neutral
<1> DEFINE n == m \o <<c, "ended">>
<1>2. /\ n \in Seq(Signals) /\ Len(m) \in Nat /\ Len(n) = Len(m) + 2
      /\ n[Len(m) + 1] = c /\ n[Len(m) + 2] = "ended"
      /\ \A i \in 1 .. Len(m) : n[i] = m[i]
  BY <1>1
<1> HIDE DEF n
<1>3. LastWords(n)
  <2> SUFFICES ASSUME NEW i \in 1 .. Len(n)
               PROVE  /\ n[i] \in Closing => i = Len(n) - 1 /\ n[Len(n)] = "ended"
                      /\ n[i] \in Hashes => i = Len(n)
    BY DEF LastWords
  <2>1. i \in 1 .. Len(m) \/ i = Len(m) + 1 \/ i = Len(m) + 2
    BY <1>2
  <2> QED
    BY <1>1, <1>2, <2>1
<1>4. Closes(n) /\ ~Hashed(n)
  BY <1>1, <1>2 DEF Closes, Hashed
<1> QED
  BY <1>2, <1>3, <1>4 DEF n

LEMMA ToldHash ==
  ASSUME NEW m \in Seq(Signals), NEW h \in Hashes, \A i \in 1 .. Len(m) : m[i] \in Neutral
  PROVE  /\ m \o <<h>> \in Seq(Signals) /\ LastWords(m \o <<h>>) /\ ~Closes(m \o <<h>>)
         /\ Hashed(m \o <<h>>) /\ (m \o <<h>>)[Len(m \o <<h>>)] = h
<1>1. h \in Signals /\ h \notin Closing /\ h # "ended" /\ Neutral \cap (Closing \cup Hashes) = {}
  BY SignalKinds DEF Neutral
<1> DEFINE n == m \o <<h>>
<1>2. /\ n \in Seq(Signals) /\ Len(m) \in Nat /\ Len(n) = Len(m) + 1 /\ n[Len(m) + 1] = h
      /\ \A i \in 1 .. Len(m) : n[i] = m[i]
  BY <1>1
<1> HIDE DEF n
<1>3. LastWords(n)
  <2> SUFFICES ASSUME NEW i \in 1 .. Len(n)
               PROVE  /\ n[i] \in Closing => i = Len(n) - 1 /\ n[Len(n)] = "ended"
                      /\ n[i] \in Hashes => i = Len(n)
    BY DEF LastWords
  <2>1. i \in 1 .. Len(m) \/ i = Len(m) + 1
    BY <1>2
  <2> QED
    BY <1>1, <1>2, <2>1
<1>4. ~Closes(n) /\ Hashed(n) /\ n[Len(n)] = h
  BY <1>1, <1>2 DEF Closes, Hashed
<1> QED
  BY <1>2, <1>3, <1>4 DEF n

(* The same after the answer to the question for the sensor's digest. *)
Digests == {<<>>, <<"digest of sensor">>, <<"no digest of sensor">>}

LEMMA ToldDigest ==
  ASSUME NEW m \in Seq(Signals), NEW d \in Digests, \A i \in 1 .. Len(m) : m[i] \in Neutral
  PROVE  /\ m \o d \in Seq(Signals) /\ \A i \in 1 .. Len(m \o d) : (m \o d)[i] \in Neutral
         /\ \A a, b \in Signals : m \o (d \o <<a, b>>) = (m \o d) \o <<a, b>>
         /\ \A a \in Signals : m \o (d \o <<a>>) = (m \o d) \o <<a>>
<1>1. {"digest of sensor", "no digest of sensor"} \subseteq Neutral
  BY DEF Neutral, Signals, Closing, Hashes
<1>2. d \in Seq(Signals)
  <2>1. "digest of sensor" \in Signals /\ "no digest of sensor" \in Signals
    BY DEF Signals
  <2>2. <<>> \in Seq(Signals) /\ \A a \in Signals : <<a>> \in Seq(Signals)
    OBVIOUS
  <2> QED
    BY <2>1, <2>2 DEF Digests
<1>3. m \o d \in Seq(Signals) /\ \A i \in 1 .. Len(m \o d) : (m \o d)[i] \in Neutral
  <2>1. CASE d = <<>>
    <3>1. m \o <<>> = m
      OBVIOUS
    <3> QED
      BY <2>1, <3>1
  <2>2. CASE d = <<"digest of sensor">>
    BY <1>1, <2>2, Told
  <2>3. CASE d = <<"no digest of sensor">>
    BY <1>1, <2>3, Told
  <2> QED
    BY <2>1, <2>2, <2>3 DEF Digests
<1>4. \A a, b \in Signals : m \o (d \o <<a, b>>) = (m \o d) \o <<a, b>>
  BY <1>2
<1>5. \A a \in Signals : m \o (d \o <<a>>) = (m \o d) \o <<a>>
  BY <1>2
<1> QED
  BY <1>3, <1>4, <1>5

-----------------------------------------------------------------------------
(* _drain_downloads() leaves every file in its place. *)
LEMMA Taken ==
  ASSUME NEW q \in Seq(Files), NEW d, NEW mb
  PROVE  Started(q, d, mb) \subseteq Elements(q)
<1> DEFINE due == Due(q, d)
<1>1. due \in Seq(Files) /\ Elements(due) \subseteq Elements(q)
  BY OnlyLeaves DEF Due
<1>2. DOMAIN due = 1 .. Len(due)
  BY <1>1
<1> HIDE DEF due
<1>3. \A i \in DOMAIN due : due[i] \in Elements(due)
  BY <1>2 DEF Elements
<1>4. Started(q, d, mb) \subseteq {due[i] : i \in DOMAIN due}
  BY DEF Started, due
<1> QED
  BY <1>1, <1>3, <1>4

(* A file that waits has no worker; it may get one, or be found on this computer. *)
LEMMA Starts ==
  ASSUME NEW lc, NEW m \in Seq(Signals), Fits("pending", "none", "none", m, lc)
  PROVE  /\ Fits("downloading", "connecting", "none", m, lc) /\ Tended("downloading", "connecting", "none", m)
         /\ Whole(lc) => /\ Fits("present", "none", "asking", m, lc) /\ Tended("present", "none", "asking", m)
                         /\ Fits("verified", "none", "none", m, lc) /\ Tended("verified", "none", "none", m)
BY DEF Fits, Tended

LEMMA Idle ==
  ASSUME NEW st, NEW wk, NEW sm, NEW m, NEW lc, Fits(st, wk, sm, m, lc), st \notin {"downloading", "present"}
  PROVE  wk = "none" /\ sm = "none" /\ ~Closes(m) /\ ~Hashed(m)
BY DEF Fits

LEMMA Drained ==
  ASSUME NEW q, NEW d, NEW st, NEW att, NEW mb, NEW b,
         InPlace(q, d, st, att, worker, sums, mb), sha \in [Files -> BOOLEAN],
         DrainFiles(b, q, d, st, att, mb), UNCHANGED <<local, restarts>>,
         restarts \in Nat, Retries \in Nat
  PROVE  /\ InPlace(queue, delayed, status, attempts, worker, sums, mail)'
         /\ sha' \in [Files -> BOOLEAN]
         /\ \A f \in Files : st[f] # "pending" => status'[f] = st[f]
         /\ \A f \in Files : status'[f] = "pending" => st[f] = "pending"
         /\ \A f \in Files : status'[f] = "none" => st[f] = "none"
         /\ \A rf : Looked(q, st, worker, sums, mb, rf) => Looked(queue', status', worker', sums', mail', rf)
<1> DEFINE taken == IF b THEN {} ELSE Started(q, d, mb)
           kept == {f \in taken : Kept(f)}
<1>q. q \in Seq(Files) /\ Distinct(q) /\ \A f \in Elements(q) : st[f] = "pending"
  BY DEF InPlace, InTurn
<1>1. taken \subseteq Elements(q)
  BY <1>q, Taken
<1>2. /\ queue' = Only(q, Files \ taken)
      /\ delayed' = d \ taken
      /\ status' = [f \in Files |->
           IF f \in taken \ kept THEN "downloading"
           ELSE IF f \in kept THEN (IF Verify THEN "present" ELSE "verified")
           ELSE st[f]]
      /\ attempts' = [f \in Files |-> IF f \in taken \ kept THEN att[f] + 1 ELSE att[f]]
      /\ worker' = [f \in Files |-> IF f \in taken \ kept THEN "connecting" ELSE worker[f]]
      /\ sha' = [f \in Files |-> IF f \in kept /\ Verify THEN FALSE ELSE sha[f]]
      /\ sums' = [f \in Files |-> IF f \in kept /\ Verify THEN "asking" ELSE sums[f]]
      /\ mail' = mb
  BY DEF DrainFiles
<1>3. kept \subseteq taken /\ \A f \in kept : Whole(local[f])
  BY DEF Kept, Whole
<1> HIDE DEF taken, kept
<1>4. /\ queue' \in Seq(Files) /\ Elements(queue') = Elements(q) \cap (Files \ taken) /\ Distinct(queue')
  BY <1>q, <1>2, OnlyLeaves
<1>5. \A f \in taken : st[f] = "pending"
  BY <1>1, <1>q
<1>e. Elements(q) \subseteq Files
  BY <1>q DEF Elements
<1>6. /\ st \in [Files -> Statuses] /\ att \in [Files -> Nat] /\ d \subseteq Files
      /\ worker \in [Files -> {"none", "connecting", "transferring"}]
      /\ sums \in [Files -> {"none", "asking", "hashing"}]
      /\ mb \in [Files -> Seq(Signals)]
  BY DEF InPlace
<1>7. \A f \in Files : Fits(st[f], worker[f], sums[f], mb[f], local[f])
  BY DEF InPlace
<1>8. ASSUME NEW f \in taken \ kept
      PROVE  /\ status'[f] = "downloading" /\ attempts'[f] = att[f] + 1 /\ worker'[f] = "connecting"
             /\ sums'[f] = "none" /\ mail'[f] = mb[f]
             /\ Fits(status'[f], worker'[f], sums'[f], mail'[f], local'[f])
             /\ Tended(status'[f], worker'[f], sums'[f], mail'[f])
  <2>1. f \in Files /\ f \notin kept /\ st[f] = "pending" /\ mb[f] \in Seq(Signals)
    BY <1>1, <1>5, <1>6, <1>e
  <2>2. worker[f] = "none" /\ sums[f] = "none"
    BY <1>7, <2>1, Idle
  <2>3. Fits("downloading", "connecting", "none", mb[f], local[f]) /\ Tended("downloading", "connecting", "none", mb[f])
    BY <1>7, <2>1, <2>2, Starts
  <2>4. /\ status'[f] = "downloading" /\ attempts'[f] = att[f] + 1 /\ worker'[f] = "connecting"
        /\ sums'[f] = "none" /\ mail'[f] = mb[f]
    BY <1>2, <1>8, <2>1, <2>2
  <2> QED
    BY <2>3, <2>4
<1>9. ASSUME NEW f \in kept
      PROVE  /\ status'[f] \in {"present", "verified"} /\ attempts'[f] = att[f] /\ worker'[f] = "none"
             /\ sums'[f] \in {"none", "asking"} /\ mail'[f] = mb[f]
             /\ Fits(status'[f], worker'[f], sums'[f], mail'[f], local'[f])
             /\ Tended(status'[f], worker'[f], sums'[f], mail'[f])
  <2>1. f \in Files /\ f \in taken /\ st[f] = "pending" /\ mb[f] \in Seq(Signals) /\ Whole(local[f])
    BY <1>1, <1>3, <1>5, <1>6, <1>e
  <2>2. worker[f] = "none" /\ sums[f] = "none"
    BY <1>7, <2>1, Idle
  <2>3. /\ Fits("present", "none", "asking", mb[f], local[f]) /\ Tended("present", "none", "asking", mb[f])
        /\ Fits("verified", "none", "none", mb[f], local[f]) /\ Tended("verified", "none", "none", mb[f])
    BY <1>7, <2>1, <2>2, Starts
  <2>4. /\ status'[f] = (IF Verify THEN "present" ELSE "verified") /\ attempts'[f] = att[f] /\ worker'[f] = "none"
        /\ sums'[f] = (IF Verify THEN "asking" ELSE "none") /\ mail'[f] = mb[f]
    BY <1>2, <1>9, <2>1, <2>2
  <2> QED
    BY <2>3, <2>4
<1>10. ASSUME NEW f \in Files \ taken
       PROVE  /\ status'[f] = st[f] /\ attempts'[f] = att[f] /\ worker'[f] = worker[f]
              /\ sums'[f] = sums[f] /\ mail'[f] = mb[f] /\ local'[f] = local[f]
  BY <1>2, <1>3, <1>10
<1>11. \A f \in Files : f \in taken \ kept \/ f \in kept \/ f \in Files \ taken
  BY <1>3
<1>12. /\ status' \in [Files -> Statuses]
       /\ worker' \in [Files -> {"none", "connecting", "transferring"}]
       /\ sums' \in [Files -> {"none", "asking", "hashing"}]
  BY <1>2, <1>6 DEF Statuses
<1>13. attempts' \in [Files -> Nat]
  BY <1>2, <1>6
<1>14. mail' \in [Files -> Seq(Signals)] /\ delayed' \subseteq Files
  BY <1>2, <1>6
<1>15. sha' \in [Files -> BOOLEAN]
  BY <1>2
<1>16. \A f \in Files : Fits(status'[f], worker'[f], sums'[f], mail'[f], local'[f])
  BY <1>7, <1>8, <1>9, <1>10, <1>11
<1>17. InTurn(queue', status')
  BY <1>4, <1>10, <1>q DEF InTurn
<1>18. Tried(status', attempts', restarts')
  <2> SUFFICES ASSUME NEW f \in Files
               PROVE  attempts'[f] <= Retries + restarts + (IF status'[f] \in {"none", "pending"} THEN 0 ELSE 1)
    BY DEF Tried
  <2>1. att[f] \in Nat /\ att[f] <= Retries + restarts + (IF st[f] \in {"none", "pending"} THEN 0 ELSE 1)
    BY <1>6 DEF InPlace, Tried
  <2>2. CASE f \in taken \ kept
    BY <1>5, <1>8, <2>1, <2>2
  <2>3. CASE f \in kept
    BY <1>3, <1>5, <1>9, <2>1, <2>3
  <2>4. CASE f \in Files \ taken
    BY <1>10, <2>1, <2>4
  <2> QED
    BY <1>11, <2>2, <2>3, <2>4
<1>19. InPlace(queue, delayed, status, attempts, worker, sums, mail)'
  BY <1>4, <1>12, <1>13, <1>14, <1>16, <1>17, <1>18 DEF InPlace
<1>20. /\ \A f \in Files : st[f] # "pending" => status'[f] = st[f]
       /\ \A f \in Files : status'[f] = "pending" => st[f] = "pending" /\ f \in Files \ taken
       /\ \A f \in Files : status'[f] = "none" => st[f] = "none"
  BY <1>5, <1>3, <1>8, <1>9, <1>10, <1>11
<1>21. ASSUME NEW rf, Looked(q, st, worker, sums, mb, rf) PROVE Looked(queue', status', worker', sums', mail', rf)
  <2>1. Queued(queue', status', rf)
    BY <1>4, <1>20, <1>21 DEF Looked, Queued
  <2>2. \A f \in Files : Tended(status'[f], worker'[f], sums'[f], mail'[f])
    BY <1>8, <1>9, <1>10, <1>11, <1>21 DEF Looked
  <2> QED
    BY <2>1, <2>2 DEF Looked
<1> QED
  BY <1>15, <1>19, <1>20, <1>21

-----------------------------------------------------------------------------
(* The steps of the captures change no file. *)
file_vars == <<status, attempts, compared, queue, delayed, refreshing, worker, sums, mail, local, restarts>>

LEMMA FilesAsTheyAre ==
  ASSUME QueueInv, UNCHANGED file_vars, TypeOK', RowsInTurn', Live' <=> Live,
         Live \/ UNCHANGED <<timer, capture>>
  PROVE  QueueInv' /\ Final
<1>1. InPlace(queue, delayed, status, attempts, worker, sums, mail)'
  BY DEF QueueInv, InPlace, file_vars
<1>2. Compared'
  BY DEF QueueInv, Compared, file_vars
<1>3. Live' => Looked(queue, status, worker, sums, mail, refreshing)'
  BY DEF QueueInv, file_vars
<1>4. ~Live' => AtRest'
  BY DEF QueueInv, file_vars, AtRest
<1>5. Final
  BY DEF Final, file_vars
<1> QED
  BY <1>1, <1>2, <1>3, <1>4, <1>5 DEF QueueInv

LEMMA Captures ==
  ASSUME QueueInv,
         StartNextTask \/ FinishSession \/ StorageSettled \/ (\E ok \in BOOLEAN : SensorIdle(ok)) \/ CheckQuality
           \/ UNCHANGED vars
  PROVE  QueueInv' /\ Final
<1>0. TypeOK /\ RowsInTurn
  BY DEF QueueInv
<1>a. capture # "idle" \/ session = "running" => Live
  BY DEF QueueInv, AtRest, Live
<1>1. CASE StartNextTask
  <2>1. UNCHANGED file_vars /\ UNCHANGED <<row, session>> /\ capture' # "idle" /\ row <= NRows /\ Live
    BY <1>1, <1>a DEF StartNextTask, file_vars, session_vars, budget
  <2>2. TypeOK'
    BY <1>0, <1>1 DEF StartNextTask, TypeOK, NextCapture, session_vars, check_vars, budget
  <2>3. RowsInTurn' /\ (Live' <=> Live)
    BY <1>0, <2>1 DEF RowsInTurn, file_vars, Live
  <2> QED
    BY <2>1, <2>2, <2>3, FilesAsTheyAre
<1>2. CASE FinishSession
  <2>1. UNCHANGED file_vars /\ UNCHANGED <<row, capture>> /\ session' = "done" /\ Live
    BY <1>2, <1>a DEF FinishSession, file_vars, budget
  <2>2. TypeOK'
    BY <1>0, <1>2 DEF FinishSession, TypeOK, check_vars, budget
  <2>3. RowsInTurn' /\ (Live' <=> Live)
    BY <1>0, <2>1 DEF RowsInTurn, file_vars, Live
  <2> QED
    BY <2>1, <2>2, <2>3, FilesAsTheyAre
<1>3. CASE StorageSettled
  <2>1. UNCHANGED file_vars /\ UNCHANGED <<row, session>> /\ capture # "idle" /\ Live
    BY <1>3, <1>a DEF StorageSettled, file_vars, budget
  <2>2. TypeOK'
    BY <1>0, <1>3 DEF StorageSettled, TypeOK, NextCapture, check_vars, budget
  <2>3. RowsInTurn' /\ (Live' <=> Live)
    BY <1>0, <2>1 DEF RowsInTurn, file_vars, Live
  <2> QED
    BY <2>1, <2>2, <2>3, FilesAsTheyAre
<1>4. ASSUME NEW ok \in BOOLEAN, SensorIdle(ok) PROVE QueueInv' /\ Final
  <2>1. UNCHANGED file_vars /\ UNCHANGED <<row, session>> /\ capture # "idle" /\ Live
    BY <1>4, <1>a DEF SensorIdle, file_vars, budget
  <2>2. TypeOK'
    <3>1. faults' \in 0 .. Faults
      BY <1>0, <1>4, QueueAssumption DEF SensorIdle, TypeOK
    <3>2. settled' \in BOOLEAN /\ capture' \in {"idle", "settling", "checking", "capturing"}
      BY <1>4 DEF SensorIdle
    <3> QED
      BY <1>0, <1>4, <3>1, <3>2 DEF SensorIdle, TypeOK, check_vars, budget
  <2>3. RowsInTurn' /\ (Live' <=> Live)
    BY <1>0, <2>1 DEF RowsInTurn, file_vars, Live
  <2> QED
    BY <2>1, <2>2, <2>3, FilesAsTheyAre
<1>5. CASE CheckQuality
  <2>1. UNCHANGED file_vars /\ UNCHANGED <<row, session, timer, capture>>
    BY <1>5 DEF CheckQuality, file_vars, session_vars, budget
  <2>2. TypeOK'
    <3>1. checkQueue \in Seq(Rows) /\ checkQueue # <<>> => Tail(checkQueue) \in Seq(Rows)
      OBVIOUS
    <3>2. checkQueue' \in Seq(Rows) /\ quality' \in [Rows -> {"none", "pending", "done"}]
      BY <1>0, <1>5, <3>1 DEF CheckQuality, TypeOK
    <3> QED
      BY <1>0, <1>5, <3>2 DEF CheckQuality, TypeOK, session_vars, budget
  <2>3. RowsInTurn' /\ (Live' <=> Live)
    BY <1>0, <2>1 DEF RowsInTurn, file_vars, Live
  <2> QED
    BY <2>1, <2>2, <2>3, FilesAsTheyAre
<1>6. CASE UNCHANGED vars
  <2>1. UNCHANGED file_vars /\ UNCHANGED <<row, session, timer, capture>>
    BY <1>6 DEF vars, file_vars
  <2>2. TypeOK'
    BY <1>0, <1>6 DEF TypeOK, vars
  <2>3. RowsInTurn' /\ (Live' <=> Live)
    BY <1>0, <2>1 DEF RowsInTurn, file_vars, Live
  <2> QED
    BY <2>1, <2>2, <2>3, FilesAsTheyAre
<1> QED
  BY <1>1, <1>2, <1>3, <1>4, <1>5, <1>6

-----------------------------------------------------------------------------
(* A step about one file, while a collection goes on. *)
Elsewhere(f) ==
  \A g \in Files \ {f} :
    /\ status'[g] = status[g] /\ attempts'[g] = attempts[g] /\ local'[g] = local[g]
    /\ worker'[g] = worker[g] /\ sums'[g] = sums[g] /\ mail'[g] = mail[g]

LEMMA OneFile ==
  ASSUME QueueInv, NEW f \in Files, Elsewhere(f), TypeOK', Live,
         UNCHANGED <<row, refreshing, restarts, session, capture>>,
         Fits(status[f], worker[f], sums[f], mail[f], local[f])',
         Tended(status[f], worker[f], sums[f], mail[f])',
         Distinct(queue'), Elements(queue') \ {f} = Elements(queue) \ {f},
         f \in Elements(queue') => status'[f] = "pending",
         status'[f] = "pending" => f \in Elements(queue') \/ (status[f] = "pending" /\ f \notin Elements(queue)),
         attempts'[f] <= Retries + restarts + (IF status'[f] \in {"none", "pending"} THEN 0 ELSE 1),
         (status'[f] = status[f] /\ local'[f] = local[f]) \/ status[f] \in {"downloading", "present"},
         compared' \ {f} \subseteq compared, f \in compared' => status'[f] = "verified" /\ local'[f] = "good"
  PROVE  QueueInv' /\ Final
<1>0. /\ TypeOK /\ InPlace(queue, delayed, status, attempts, worker, sums, mail)
      /\ RowsInTurn /\ Compared /\ Looked(queue, status, worker, sums, mail, refreshing)
  BY DEF QueueInv
<1>1. InPlace(queue, delayed, status, attempts, worker, sums, mail)'
  <2>1. /\ queue' \in Seq(Files) /\ delayed' \subseteq Files
        /\ status' \in [Files -> Statuses]
        /\ worker' \in [Files -> {"none", "connecting", "transferring"}]
        /\ sums' \in [Files -> {"none", "asking", "hashing"}]
        /\ mail' \in [Files -> Seq(Signals)]
    BY DEF TypeOK
  <2>2. attempts' \in [Files -> Nat]
    <3>1. attempts' \in [Files -> 0 .. (Retries + 1 + Restarts)]
      BY DEF TypeOK
    <3> QED
      BY <3>1
  <2>3. \A g \in Files : Fits(status'[g], worker'[g], sums'[g], mail'[g], local'[g])
    BY <1>0 DEF InPlace, Elsewhere
  <2>4. InTurn(queue', status')
    <3> SUFFICES ASSUME NEW g \in Elements(queue'), g # f PROVE status'[g] = "pending"
      BY DEF InTurn
    <3>1. g \in Elements(queue)
      OBVIOUS
    <3>2. g \in Files
      BY <2>1 DEF Elements
    <3> QED
      BY <1>0, <3>1, <3>2 DEF InPlace, InTurn, Elsewhere
  <2>5. Tried(status', attempts', restarts')
    <3>1. restarts' = restarts
      OBVIOUS
    <3>2. \A g \in Files \ {f} : status'[g] = status[g] /\ attempts'[g] = attempts[g]
      BY DEF Elsewhere
    <3>3. \A g \in Files : attempts[g] <= Retries + restarts + (IF status[g] \in {"none", "pending"} THEN 0 ELSE 1)
      BY <1>0 DEF InPlace, Tried
    <3> QED
      BY <3>1, <3>2, <3>3 DEF Tried
  <2> QED
    BY <2>1, <2>2, <2>3, <2>4, <2>5 DEF InPlace
<1>2. RowsInTurn'
  BY <1>0 DEF RowsInTurn, Elsewhere
<1>3. Compared'
  <2> SUFFICES ASSUME NEW g \in compared', g # f PROVE g \in Files /\ status'[g] = "verified" /\ local'[g] = "good"
    BY DEF Compared, TypeOK
  <2>1. g \in compared
    OBVIOUS
  <2>2. g \in Files /\ status[g] = "verified" /\ local[g] = "good"
    BY <1>0, <2>1 DEF Compared
  <2> QED
    BY <2>2 DEF Elsewhere
<1>4. Live'
  BY DEF Live
<1>5. Looked(queue, status, worker, sums, mail, refreshing)'
  <2>1. Queued(queue', status', refreshing)
    BY <1>0 DEF Looked, Queued, Elsewhere
  <2>2. \A g \in Files : Tended(status'[g], worker'[g], sums'[g], mail'[g])
    BY <1>0 DEF Looked, Elsewhere
  <2> QED
    BY <2>1, <2>2 DEF Looked
<1>6. Final
  BY DEF Final, Elsewhere
<1> QED
  BY <1>1, <1>2, <1>3, <1>4, <1>5, <1>6 DEF QueueInv

(* The threads of a file's workers. *)
LEMMA FileFacts ==
  ASSUME QueueInv, NEW f \in Files
  PROVE  /\ mail[f] \in Seq(Signals) /\ LastWords(mail[f])
         /\ Fits(status[f], worker[f], sums[f], mail[f], local[f])
         /\ Distinct(queue) /\ (f \in Elements(queue) => status[f] = "pending")
         /\ attempts[f] \in Nat
         /\ attempts[f] <= Retries + restarts + (IF status[f] \in {"none", "pending"} THEN 0 ELSE 1)
         /\ f \in compared => status[f] = "verified" /\ local[f] = "good"
         /\ worker[f] # "none" \/ sums[f] # "none" \/ mail[f] # <<>> \/ f \in delayed \/ queue # <<>> => Live
         /\ Live => Tended(status[f], worker[f], sums[f], mail[f])
         /\ worker[f] # "none" => status[f] = "downloading" /\ sums[f] = "none"
         /\ sums[f] # "none" => status[f] = "present" /\ worker[f] = "none"
<1>1. InPlace(queue, delayed, status, attempts, worker, sums, mail) /\ Compared
  BY DEF QueueInv
<1>2. /\ mail[f] \in Seq(Signals) /\ attempts[f] \in Nat
      /\ Fits(status[f], worker[f], sums[f], mail[f], local[f])
      /\ Distinct(queue) /\ (f \in Elements(queue) => status[f] = "pending")
  BY <1>1 DEF InPlace, InTurn
<1>3. attempts[f] <= Retries + restarts + (IF status[f] \in {"none", "pending"} THEN 0 ELSE 1)
  BY <1>1 DEF InPlace, Tried
<1>4. f \in compared => status[f] = "verified" /\ local[f] = "good"
  BY <1>1 DEF Compared
<1>5. worker[f] # "none" \/ sums[f] # "none" \/ mail[f] # <<>> \/ f \in delayed \/ queue # <<>> => Live
  BY DEF QueueInv, AtRest
<1>6. Live => Tended(status[f], worker[f], sums[f], mail[f])
  BY DEF QueueInv, Looked
<1>7. /\ LastWords(mail[f])
      /\ worker[f] # "none" => status[f] = "downloading" /\ sums[f] = "none"
      /\ sums[f] # "none" => status[f] = "present" /\ worker[f] = "none"
  BY <1>2 DEF Fits
<1> QED
  BY <1>2, <1>3, <1>4, <1>5, <1>6, <1>7

(* Nothing final was told while a transfer goes on, or before the hash. *)
LEMMA StillNeutral ==
  ASSUME NEW st, NEW wk, NEW sm, NEW m \in Seq(Signals), NEW lc, Fits(st, wk, sm, m, lc),
         wk # "none" \/ (sm # "none" /\ ~\E i \in DOMAIN m : m[i] = HashOf(lc))
  PROVE  \A i \in 1 .. Len(m) : m[i] \in Neutral
<1>1. LastWords(m) /\ ~Closes(m)
  BY DEF Fits
<1>2. ~Hashed(m)
  <2>1. DOMAIN m = 1 .. Len(m) /\ Len(m) \in Nat
    OBVIOUS
  <2>2. Hashed(m) => Len(m) \in DOMAIN m /\ sm # "none" /\ m[Len(m)] = HashOf(lc)
    BY <2>1 DEF Hashed, Fits
  <2>3. sm # "none" => wk = "none"
    BY DEF Fits
  <2> QED
    BY <2>2, <2>3
<1> QED
  BY <1>1, <1>2, NothingLast

(* A worker's step: it tells ms, and its file's status stays. *)
LEMMA WorkerStep ==
  ASSUME QueueInv, NEW f \in Files, NEW ms, Send(f, ms), mail[f] \o ms \in Seq(Signals), Live,
         UNCHANGED worker_vars, TypeOK',
         \A g \in Files \ {f} : worker'[g] = worker[g] /\ sums'[g] = sums[g] /\ local'[g] = local[g],
         Fits(status[f], worker'[f], sums'[f], mail[f] \o ms, local'[f]),
         Tended(status[f], worker'[f], sums'[f], mail[f] \o ms),
         local'[f] = local[f] \/ status[f] = "downloading"
  PROVE  QueueInv' /\ Final
<1>1. /\ UNCHANGED <<status, attempts, compared, queue, refreshing, restarts, session, row, capture>>
  BY DEF worker_vars, session_vars, budget
<1>2. mail \in [Files -> Seq(Signals)]
  BY DEF QueueInv, TypeOK
<1>3. mail'[f] = mail[f] \o ms /\ \A g \in Files \ {f} : mail'[g] = mail[g]
  BY <1>2 DEF Send
<1>4. Elsewhere(f)
  BY <1>1, <1>3 DEF Elsewhere
<1>5. Fits(status'[f], worker'[f], sums'[f], mail'[f], local'[f]) /\ Tended(status'[f], worker'[f], sums'[f], mail'[f])
  BY <1>1, <1>3
<1>6. /\ Distinct(queue) /\ (f \in Elements(queue) => status[f] = "pending")
      /\ attempts[f] <= Retries + restarts + (IF status[f] \in {"none", "pending"} THEN 0 ELSE 1)
      /\ f \in compared => status[f] = "verified" /\ local[f] = "good"
  BY FileFacts
<1>7. Distinct(queue') /\ Elements(queue') \ {f} = Elements(queue) \ {f} /\ compared' \ {f} \subseteq compared
  BY <1>1, <1>6
<1>10. /\ f \in Elements(queue') => status'[f] = "pending"
       /\ status'[f] = "pending" => f \in Elements(queue') \/ (status[f] = "pending" /\ f \notin Elements(queue))
  <2>1. status' = status /\ queue' = queue /\ (f \in Elements(queue) => status[f] = "pending")
    BY <1>1, <1>6
  <2>2. Elements(queue') = Elements(queue)
    BY <2>1
  <2>3. status'[f] = status[f]
    BY <2>1
  <2> QED
    BY <2>1, <2>2, <2>3, Zenon
<1>11. (status'[f] = status[f] /\ local'[f] = local[f]) \/ status[f] \in {"downloading", "present"}
  BY <1>1
<1>8. attempts'[f] <= Retries + restarts + (IF status'[f] \in {"none", "pending"} THEN 0 ELSE 1)
  BY <1>1, <1>6
<1>9. f \in compared' => status'[f] = "verified" /\ local'[f] = "good"
  BY <1>1, <1>6
<1> QED
  BY <1>1, <1>4, <1>5, <1>7, <1>8, <1>9, <1>10, <1>11, OneFile

LEMMA WorkerTypes ==
  ASSUME QueueInv, NEW f \in Files, UNCHANGED worker_vars, NEW ms, Send(f, ms), mail[f] \o ms \in Seq(Signals),
         worker' \in [Files -> {"none", "connecting", "transferring"}],
         sums' \in [Files -> {"none", "asking", "hashing"}],
         local' \in [Files -> {"absent", "good", "torn", "corrupt"}],
         (faults < Faults /\ faults' = faults + 1) \/ faults' = faults
  PROVE  TypeOK'
<1>1. TypeOK
  BY DEF QueueInv
<1>2. mail' \in [Files -> Seq(Signals)]
  BY <1>1 DEF TypeOK, Send
<1>3. faults' \in 0 .. Faults
  <2>1. faults \in 0 .. Faults /\ Faults \in Nat
    BY <1>1, QueueAssumption DEF TypeOK
  <2> QED
    BY <2>1
<1> QED
  BY <1>1, <1>2, <1>3 DEF TypeOK, worker_vars, session_vars, check_vars, budget

(* The steps of the download worker, of the checksum worker and of what happens to them. *)
LEMMA Workers ==
  ASSUME QueueInv, NEW f \in Files, Worker(f)
  PROVE  QueueInv' /\ Final
<1>0. TypeOK
  BY DEF QueueInv
<1>1. /\ mail[f] \in Seq(Signals) /\ Fits(status[f], worker[f], sums[f], mail[f], local[f])
      /\ worker[f] # "none" \/ sums[f] # "none" => Live
      /\ worker[f] # "none" => status[f] = "downloading" /\ sums[f] = "none"
      /\ sums[f] # "none" => status[f] = "present" /\ worker[f] = "none"
  BY FileFacts
<1>m. \A s \in Signals : <<s>> \in Seq(Signals)
  OBVIOUS
<1>2. CASE Connect(f)
  <2>1. /\ worker[f] = "connecting" /\ Send(f, <<"connected">>) /\ UNCHANGED worker_vars
        /\ worker' = [worker EXCEPT ![f] = "transferring"] /\ UNCHANGED <<sums, local, faults>>
    BY <1>2 DEF Connect
  <2>2. \A i \in 1 .. Len(mail[f]) : mail[f][i] \in Neutral
    BY <1>1, <2>1, StillNeutral
  <2>3. "connected" \in Neutral
    BY DEF Neutral, Signals, Closing, Hashes
  <2> DEFINE m == mail[f] \o <<"connected">>
  <2>4. m \in Seq(Signals) /\ \A i \in 1 .. Len(m) : m[i] \in Neutral
    BY <1>1, <2>2, <2>3, Told
  <2> HIDE DEF m
  <2>5. LastWords(m) /\ ~Closes(m) /\ ~Hashed(m)
    BY <2>4, NeutralWords
  <2>6. /\ worker' \in [Files -> {"none", "connecting", "transferring"}] /\ worker'[f] = "transferring"
        /\ \A g \in Files \ {f} : worker'[g] = worker[g] /\ sums'[g] = sums[g] /\ local'[g] = local[g]
        /\ sums'[f] = "none" /\ local'[f] = local[f] /\ status[f] = "downloading" /\ Live
    BY <1>0, <1>1, <2>1 DEF TypeOK
  <2>7. TypeOK'
    <3>1. /\ sums' \in [Files -> {"none", "asking", "hashing"}] /\ faults' = faults
          /\ local' \in [Files -> {"absent", "good", "torn", "corrupt"}]
      BY <1>0, <2>1 DEF TypeOK
    <3> QED
      BY <2>1, <2>4, <2>6, <3>1, WorkerTypes DEF m
  <2>8. Fits(status[f], worker'[f], sums'[f], m, local'[f]) /\ Tended(status[f], worker'[f], sums'[f], m)
    BY <2>5, <2>6 DEF Fits, Tended
  <2> QED
    BY <2>1, <2>4, <2>6, <2>7, <2>8, WorkerStep DEF m
<1>3. CASE Refused(f)
  <2>1. /\ worker[f] = "connecting" /\ Send(f, <<"waiting">>) /\ UNCHANGED worker_vars
        /\ UNCHANGED <<worker, sums, local>> /\ faults < Faults /\ faults' = faults + 1
    BY <1>3 DEF Refused
  <2>2. \A i \in 1 .. Len(mail[f]) : mail[f][i] \in Neutral
    BY <1>1, <2>1, StillNeutral
  <2>3. "waiting" \in Neutral
    BY DEF Neutral, Signals, Closing, Hashes
  <2> DEFINE m == mail[f] \o <<"waiting">>
  <2>4. m \in Seq(Signals) /\ \A i \in 1 .. Len(m) : m[i] \in Neutral
    BY <1>1, <2>2, <2>3, Told
  <2> HIDE DEF m
  <2>5. LastWords(m) /\ ~Closes(m) /\ ~Hashed(m)
    BY <2>4, NeutralWords
  <2>6. /\ worker'[f] = "connecting"
        /\ \A g \in Files \ {f} : worker'[g] = worker[g] /\ sums'[g] = sums[g] /\ local'[g] = local[g]
        /\ sums'[f] = "none" /\ local'[f] = local[f] /\ status[f] = "downloading" /\ Live
    BY <1>0, <1>1, <2>1 DEF TypeOK
  <2>7. TypeOK'
    <3>1. /\ worker' \in [Files -> {"none", "connecting", "transferring"}]
          /\ sums' \in [Files -> {"none", "asking", "hashing"}]
          /\ local' \in [Files -> {"absent", "good", "torn", "corrupt"}]
      BY <1>0, <2>1 DEF TypeOK
    <3> QED
      BY <2>1, <2>4, <3>1, WorkerTypes DEF m
  <2>8. Fits(status[f], worker'[f], sums'[f], m, local'[f]) /\ Tended(status[f], worker'[f], sums'[f], m)
    BY <2>5, <2>6 DEF Fits, Tended
  <2> QED
    BY <2>1, <2>4, <2>6, <2>7, <2>8, WorkerStep DEF m
<1>4. ASSUME NEW c \in Closing, NEW dg \in Digests,
             worker[f] # "none", worker' = [worker EXCEPT ![f] = "none"], UNCHANGED worker_vars, UNCHANGED sums,
             local' = local \/ (\E x \in {"good", "torn", "corrupt"} : local' = [local EXCEPT ![f] = x]),
             (faults < Faults /\ faults' = faults + 1) \/ faults' = faults,
             Send(f, dg \o <<c, "ended">>)
      PROVE  QueueInv' /\ Final
  <2>1. \A i \in 1 .. Len(mail[f]) : mail[f][i] \in Neutral
    BY <1>1, <1>4, StillNeutral
  <2>2. c \in Signals /\ "ended" \in Signals
    BY SignalKinds DEF Neutral
  <2> DEFINE p == mail[f] \o dg
             m == mail[f] \o (dg \o <<c, "ended">>)
  <2>3. p \in Seq(Signals) /\ (\A i \in 1 .. Len(p) : p[i] \in Neutral) /\ m = p \o <<c, "ended">>
    BY <1>1, <2>1, <2>2, ToldDigest
  <2> HIDE DEF p, m
  <2>4. m \in Seq(Signals) /\ LastWords(m) /\ Closes(m) /\ ~Hashed(m)
    BY <2>3, ToldEnd
  <2>5. /\ worker' \in [Files -> {"none", "connecting", "transferring"}] /\ worker'[f] = "none"
        /\ \A g \in Files \ {f} : worker'[g] = worker[g] /\ sums'[g] = sums[g]
        /\ sums'[f] = "none" /\ status[f] = "downloading" /\ Live
    BY <1>0, <1>1, <1>4 DEF TypeOK
  <2>6. /\ local' \in [Files -> {"absent", "good", "torn", "corrupt"}]
        /\ \A g \in Files \ {f} : local'[g] = local[g]
    <3>1. local \in [Files -> {"absent", "good", "torn", "corrupt"}]
      BY <1>0 DEF TypeOK
    <3>2. CASE local' = local
      BY <3>1, <3>2
    <3>3. CASE \E x \in {"good", "torn", "corrupt"} : local' = [local EXCEPT ![f] = x]
      <4>1. PICK x \in {"good", "torn", "corrupt"} : local' = [local EXCEPT ![f] = x]
        BY <3>3
      <4> QED
        BY <3>1, <4>1
    <3> QED
      BY <1>4, <3>2, <3>3
  <2>7. TypeOK'
    <3>1. sums' \in [Files -> {"none", "asking", "hashing"}]
      BY <1>0, <1>4 DEF TypeOK
    <3> QED
      BY <1>4, <2>4, <2>5, <2>6, <3>1, WorkerTypes DEF m
  <2>8. Fits(status[f], worker'[f], sums'[f], m, local'[f]) /\ Tended(status[f], worker'[f], sums'[f], m)
    BY <2>4, <2>5 DEF Fits, Tended
  <2> QED
    BY <1>4, <2>4, <2>5, <2>6, <2>7, <2>8, WorkerStep DEF m
<1>d. <<>> \in Digests /\ \A c \in Closing : <<>> \o <<c, "ended">> = <<c, "ended">>
  BY DEF Digests
<1>c. {"unreachable", "failed", "finished"} \subseteq Closing
  BY DEF Closing
<1>5. CASE GiveUp(f)
  <2>1. /\ worker[f] # "none" /\ worker' = [worker EXCEPT ![f] = "none"] /\ UNCHANGED worker_vars
        /\ UNCHANGED sums /\ local' = local /\ faults' = faults /\ Send(f, <<"unreachable", "ended">>)
    BY <1>5 DEF GiveUp
  <2>2. Send(f, <<>> \o <<"unreachable", "ended">>)
    BY <1>c, <1>d, <2>1
  <2> QED
    BY <1>4, <1>c, <1>d, <2>1, <2>2
<1>6. CASE Cut(f)
  <2>1. /\ worker[f] # "none" /\ worker' = [worker EXCEPT ![f] = "none"] /\ UNCHANGED worker_vars
        /\ UNCHANGED sums /\ local' = local /\ faults < Faults /\ faults' = faults + 1
        /\ Send(f, <<"failed", "ended">>)
    BY <1>6 DEF Cut
  <2>2. Send(f, <<>> \o <<"failed", "ended">>)
    BY <1>c, <1>d, <2>1
  <2> QED
    BY <1>4, <1>c, <1>d, <2>1, <2>2
<1>7. ASSUME NEW x \in {"good", "torn", "corrupt"}, Transferred(f, x) PROVE QueueInv' /\ Final
  <2>1. /\ worker[f] # "none" /\ worker' = [worker EXCEPT ![f] = "none"] /\ UNCHANGED worker_vars
        /\ UNCHANGED sums /\ local' = [local EXCEPT ![f] = x]
        /\ (faults < Faults /\ faults' = faults + 1) \/ faults' = faults
    BY <1>7 DEF Transferred
  <2>2. PICK dg \in Digests : Send(f, dg \o <<"finished", "ended">>)
    BY <1>7 DEF Transferred, Digests
  <2> QED
    BY <1>4, <1>c, <1>7, <2>1, <2>2
<1>8. CASE Hash(f)
  <2>1. /\ sums[f] # "none" /\ ~\E i \in DOMAIN mail[f] : mail[f][i] = HashOf(local[f])
        /\ UNCHANGED worker_vars /\ UNCHANGED <<worker, sums, local, faults>>
    BY <1>8 DEF Hash
  <2>2. PICK dg \in Digests : Send(f, dg \o <<HashOf(local[f])>>)
    BY <1>8 DEF Hash, Digests
  <2>3. \A i \in 1 .. Len(mail[f]) : mail[f][i] \in Neutral
    BY <1>1, <2>1, StillNeutral
  <2>4. HashOf(local[f]) \in Hashes /\ HashOf(local[f]) \in Signals
    BY SignalKinds
  <2> DEFINE h == HashOf(local[f])
             p == mail[f] \o dg
             m == mail[f] \o (dg \o <<h>>)
  <2>5. p \in Seq(Signals) /\ (\A i \in 1 .. Len(p) : p[i] \in Neutral) /\ m = p \o <<h>>
    BY <1>1, <2>3, <2>4, ToldDigest
  <2> HIDE DEF p, m
  <2>6. m \in Seq(Signals) /\ LastWords(m) /\ ~Closes(m) /\ Hashed(m) /\ m[Len(m)] = h
    <3> HIDE DEF h
    <3> QED
      BY <2>4, <2>5, ToldHash DEF h
  <2>7. /\ \A g \in Files \ {f} : worker'[g] = worker[g] /\ sums'[g] = sums[g] /\ local'[g] = local[g]
        /\ worker'[f] = "none" /\ sums'[f] = sums[f] /\ local'[f] = local[f] /\ status[f] = "present" /\ Live
    BY <1>1, <2>1
  <2>8. TypeOK'
    <3>1. /\ worker' \in [Files -> {"none", "connecting", "transferring"}]
          /\ sums' \in [Files -> {"none", "asking", "hashing"}]
          /\ local' \in [Files -> {"absent", "good", "torn", "corrupt"}]
      BY <1>0, <2>1 DEF TypeOK
    <3> QED
      BY <2>1, <2>2, <2>6, <3>1, WorkerTypes DEF m
  <2>9. Whole(local[f])
    BY <1>1, <2>1 DEF Fits
  <2>10. Fits(status[f], worker'[f], sums'[f], m, local'[f]) /\ Tended(status[f], worker'[f], sums'[f], m)
    BY <2>1, <2>6, <2>7, <2>9 DEF Fits, Tended
  <2> QED
    BY <2>1, <2>2, <2>6, <2>7, <2>8, <2>10, WorkerStep DEF m
<1> QED
  BY <1>2, <1>3, <1>5, <1>6, <1>7, <1>8 DEF Worker

-----------------------------------------------------------------------------
(* The handlers of the signals. *)
LEMMA Received ==
  ASSUME QueueInv, NEW f \in Files, mail[f] # <<>>
  PROVE  /\ Rest(f) \in [Files -> Seq(Signals)] /\ Rest(f)[f] = Tail(mail[f])
         /\ \A g \in Files \ {f} : Rest(f)[g] = mail[g]
         /\ Live /\ Fits(status[f], worker[f], sums[f], mail[f], local[f])
         /\ Tended(status[f], worker[f], sums[f], mail[f])
         /\ Tail(mail[f]) \in Seq(Signals) /\ LastWords(Tail(mail[f]))
         /\ Closes(Tail(mail[f])) => Closes(mail[f])
         /\ Hashed(Tail(mail[f])) => Hashed(mail[f]) /\ Tail(mail[f])[Len(Tail(mail[f]))] = mail[f][Len(mail[f])]
         /\ Head(mail[f]) \notin Closing => (Closes(mail[f]) => Closes(Tail(mail[f])))
         /\ Head(mail[f]) \in Closing =>
              Closes(mail[f]) /\ ~Closes(Tail(mail[f])) /\ ~Hashed(Tail(mail[f]))
         /\ Head(mail[f]) \in Hashes =>
              Hashed(mail[f]) /\ mail[f][Len(mail[f])] = Head(mail[f]) /\ Tail(mail[f]) = <<>>
<1>1. /\ mail[f] \in Seq(Signals) /\ LastWords(mail[f]) /\ Live
      /\ Fits(status[f], worker[f], sums[f], mail[f], local[f])
      /\ Tended(status[f], worker[f], sums[f], mail[f])
  BY FileFacts
<1>2. mail \in [Files -> Seq(Signals)]
  BY DEF QueueInv, TypeOK
<1>3. /\ Tail(mail[f]) \in Seq(Signals) /\ LastWords(Tail(mail[f]))
      /\ Closes(Tail(mail[f])) => Closes(mail[f])
      /\ Hashed(Tail(mail[f])) => Hashed(mail[f]) /\ Tail(mail[f])[Len(Tail(mail[f]))] = mail[f][Len(mail[f])]
      /\ Head(mail[f]) \notin Closing => (Closes(mail[f]) => Closes(Tail(mail[f])))
      /\ Head(mail[f]) \in Closing =>
           Closes(mail[f]) /\ ~Closes(Tail(mail[f])) /\ ~Hashed(Tail(mail[f]))
      /\ Head(mail[f]) \in Hashes =>
           Hashed(mail[f]) /\ mail[f][Len(mail[f])] = Head(mail[f]) /\ Tail(mail[f]) = <<>>
  BY <1>1, Handled
<1>4. /\ Rest(f) \in [Files -> Seq(Signals)] /\ Rest(f)[f] = Tail(mail[f])
      /\ \A g \in Files \ {f} : Rest(f)[g] = mail[g]
  <2> DEFINE t == Tail(mail[f])
  <2>1. Rest(f) = [mail EXCEPT ![f] = t]
    BY DEF Rest
  <2>2. t \in Seq(Signals)
    BY <1>3
  <2> HIDE DEF t
  <2>3. /\ Rest(f) \in [Files -> Seq(Signals)] /\ Rest(f)[f] = t
        /\ \A g \in Files \ {f} : Rest(f)[g] = mail[g]
    BY <1>2, <2>1, <2>2
  <2> QED
    BY <2>3 DEF t
<1> QED
  BY <1>1, <1>3, <1>4

LEMMA NeutralHandled ==
  ASSUME QueueInv, NEW f \in Files, mail[f] # <<>>, Head(mail[f]) \in Neutral
  PROVE  /\ Fits(status[f], worker[f], sums[f], Tail(mail[f]), local[f])
         /\ Tended(status[f], worker[f], sums[f], Tail(mail[f]))
<1>1. Head(mail[f]) \notin Closing
  BY DEF Neutral
<1>2. /\ Fits(status[f], worker[f], sums[f], mail[f], local[f])
      /\ Tended(status[f], worker[f], sums[f], mail[f])
      /\ LastWords(Tail(mail[f])) /\ (Closes(Tail(mail[f])) <=> Closes(mail[f]))
      /\ Hashed(Tail(mail[f])) => Hashed(mail[f]) /\ Tail(mail[f])[Len(Tail(mail[f]))] = mail[f][Len(mail[f])]
  BY <1>1, Received
<1> DEFINE t == Tail(mail[f])
<1> HIDE DEF t
<1>3. Fits(status[f], worker[f], sums[f], t, local[f]) /\ Tended(status[f], worker[f], sums[f], t)
  BY <1>2 DEF t, Fits, Tended
<1> QED
  BY <1>3 DEF t

(* A word that is no answer: that the sensor refused or took the connection, or its digest. *)
LEMMA Words ==
  ASSUME QueueInv, NEW f \in Files, OnWaiting(f) \/ OnConnected(f) \/ OnRemoteChecksum(f)
  PROVE  QueueInv' /\ Final
<1>1. /\ mail[f] # <<>> /\ mail' = Rest(f)
      /\ UNCHANGED <<status, attempts, compared, queue, delayed, refreshing, check_vars,
                     session_vars, timer, capture, worker, sums, local, faults, budget>>
  BY DEF OnWaiting, OnConnected, OnRemoteChecksum, Receive
<1>2. Head(mail[f]) \in Neutral
  <2>1. Head(mail[f]) \in {"waiting", "connected", "digest of sensor", "no digest of sensor"}
    BY DEF OnWaiting, OnConnected, OnRemoteChecksum, Receive
  <2> DEFINE s == Head(mail[f])
  <2> HIDE DEF s
  <2>2. s \in {"waiting", "connected", "digest of sensor", "no digest of sensor"} => s \in Neutral
    BY DEF Neutral, Signals, Closing, Hashes
  <2> QED
    BY <2>1, <2>2 DEF s
<1>3. /\ mail' \in [Files -> Seq(Signals)] /\ mail'[f] = Tail(mail[f])
      /\ (\A g \in Files \ {f} : mail'[g] = mail[g]) /\ Live
  BY <1>1, Received
<1>4. Fits(status'[f], worker'[f], sums'[f], mail'[f], local'[f]) /\ Tended(status'[f], worker'[f], sums'[f], mail'[f])
  BY <1>1, <1>2, <1>3, NeutralHandled
<1>5. TypeOK'
  <2>1. refused' \subseteq Files
    BY DEF QueueInv, TypeOK, OnWaiting, OnConnected, OnRemoteChecksum
  <2>2. sha' \in [Files -> BOOLEAN]
    BY DEF QueueInv, TypeOK, OnWaiting, OnConnected, OnRemoteChecksum
  <2>3. TypeOK
    BY DEF QueueInv
  <2> QED
    BY <1>1, <1>3, <2>1, <2>2, <2>3 DEF TypeOK, check_vars, session_vars, budget
<1>6. /\ UNCHANGED <<status, attempts, compared, queue, refreshing, restarts, session, row, capture, local>>
      /\ Elsewhere(f)
  BY <1>1, <1>3 DEF session_vars, budget, Elsewhere
<1>7. /\ Distinct(queue) /\ (f \in Elements(queue) => status[f] = "pending")
      /\ attempts[f] <= Retries + restarts + (IF status[f] \in {"none", "pending"} THEN 0 ELSE 1)
      /\ f \in compared => status[f] = "verified" /\ local[f] = "good"
  BY FileFacts
<1>8. Distinct(queue') /\ Elements(queue') \ {f} = Elements(queue) \ {f} /\ compared' \ {f} \subseteq compared
  BY <1>6, <1>7
<1>9. /\ f \in Elements(queue') => status'[f] = "pending"
      /\ status'[f] = "pending" => f \in Elements(queue') \/ (status[f] = "pending" /\ f \notin Elements(queue))
  BY <1>6, <1>7
<1>10. attempts'[f] <= Retries + restarts + (IF status'[f] \in {"none", "pending"} THEN 0 ELSE 1)
  BY <1>6, <1>7
<1>11. f \in compared' => status'[f] = "verified" /\ local'[f] = "good"
  BY <1>6, <1>7
<1>12. (status'[f] = status[f] /\ local'[f] = local[f]) \/ status[f] \in {"downloading", "present"}
  BY <1>6
<1> QED
  BY <1>3, <1>4, <1>5, <1>6, <1>8, <1>9, <1>10, <1>11, <1>12, OneFile

(* _transfer_failed(): the file waits for its turn again, or is given up. *)
LEMMA Failing ==
  ASSUME QueueInv, NEW f \in Files, status[f] \notin {"none", "pending"}, TransferFailed(f), attempts' = attempts
  PROVE  /\ queue' \in Seq(Files) /\ Distinct(queue') /\ Elements(queue') \ {f} = Elements(queue) \ {f}
         /\ delayed' \subseteq Files /\ status' \in [Files -> Statuses]
         /\ \A g \in Files \ {f} : status'[g] = status[g]
         /\ status'[f] \in {"pending", "failed"} /\ (f \in Elements(queue') <=> status'[f] = "pending")
         /\ attempts'[f] <= Retries + restarts + (IF status'[f] \in {"none", "pending"} THEN 0 ELSE 1)
<1>0. /\ queue \in Seq(Files) /\ delayed \subseteq Files /\ status \in [Files -> Statuses] /\ restarts \in Nat
  BY DEF QueueInv, TypeOK
<1>1. /\ Distinct(queue) /\ f \notin Elements(queue) /\ attempts[f] \in Nat
      /\ attempts[f] <= Retries + restarts + (IF status[f] \in {"none", "pending"} THEN 0 ELSE 1)
  BY FileFacts
<1>2. attempts[f] <= Retries + restarts + 1 /\ Retries \in Nat
  BY <1>1, QueueAssumption
<1>3. CASE attempts[f] <= Retries
  <2>1. /\ status' = [status EXCEPT ![f] = "pending"] /\ delayed' = delayed \cup {f} /\ queue' = Append(queue, f)
    BY <1>3 DEF TransferFailed
  <2>2. queue' \in Seq(Files) /\ Elements(queue') = Elements(queue) \cup {f} /\ Distinct(queue')
    BY <1>0, <1>1, <2>1, Longer
  <2>3. status' \in [Files -> Statuses] /\ status'[f] = "pending" /\ \A g \in Files \ {f} : status'[g] = status[g]
    BY <1>0, <2>1 DEF Statuses
  <2>4. delayed' \subseteq Files
    BY <1>0, <2>1
  <2>5. attempts'[f] <= Retries + restarts + (IF status'[f] \in {"none", "pending"} THEN 0 ELSE 1)
    BY <1>0, <1>1, <1>2, <1>3, <2>3
  <2> QED
    BY <2>2, <2>3, <2>4, <2>5
<1>4. CASE ~(attempts[f] <= Retries)
  <2>1. status' = [status EXCEPT ![f] = "failed"] /\ delayed' = delayed /\ queue' = queue
    BY <1>4 DEF TransferFailed
  <2>2. status' \in [Files -> Statuses] /\ status'[f] = "failed" /\ \A g \in Files \ {f} : status'[g] = status[g]
    BY <1>0, <2>1 DEF Statuses
  <2>3. attempts'[f] <= Retries + restarts + (IF status'[f] \in {"none", "pending"} THEN 0 ELSE 1)
    BY <1>2, <2>2
  <2>4. queue' \in Seq(Files) /\ Distinct(queue') /\ Elements(queue') = Elements(queue) /\ delayed' \subseteq Files
    BY <1>0, <1>1, <2>1
  <2> QED
    BY <1>1, <2>2, <2>3, <2>4
<1> QED
  BY <1>3, <1>4

LEMMA ChecksTyped ==
  ASSUME QueueInv, NEW f \in Files, AfterFileVerified(f)
  PROVE  quality' \in [Rows -> {"none", "pending", "done"}] /\ checkQueue' \in Seq(Rows)
<1>1. quality \in [Rows -> {"none", "pending", "done"}] /\ checkQueue \in Seq(Rows) /\ RowOf[f] \in Rows
  BY QueueAssumption DEF QueueInv, TypeOK
<1>2. Append(checkQueue, RowOf[f]) \in Seq(Rows)
  BY <1>1
<1> QED
  BY <1>1, <1>2 DEF AfterFileVerified, check_vars

(* A handler of what is over: the file's status changes, and its worker is gone. *)
LEMMA Over ==
  ASSUME QueueInv, NEW f \in Files, mail[f] # <<>>, mail' = Rest(f),
         status[f] \in {"downloading", "present"},
         UNCHANGED <<attempts, row, refreshing, restarts, session, capture>>, TypeOK',
         \A g \in Files \ {f} : status'[g] = status[g] /\ sums'[g] = sums[g] /\ local'[g] = local[g],
         worker' = worker, worker[f] = "none", ~Closes(Tail(mail[f])), ~Hashed(Tail(mail[f])),
         sums'[f] # "none" <=> status'[f] = "present",
         status'[f] \in {"present", "verified"} => Whole(local'[f]),
         status'[f] # "downloading",
         Distinct(queue'), Elements(queue') \ {f} = Elements(queue) \ {f},
         f \in Elements(queue') <=> status'[f] = "pending",
         attempts'[f] <= Retries + restarts + (IF status'[f] \in {"none", "pending"} THEN 0 ELSE 1),
         compared' \ {f} \subseteq compared, f \in compared' => status'[f] = "verified" /\ local'[f] = "good"
  PROVE  QueueInv' /\ Final
<1>1. /\ mail'[f] = Tail(mail[f]) /\ (\A g \in Files \ {f} : mail'[g] = mail[g]) /\ Live
      /\ LastWords(Tail(mail[f]))
  BY Received
<1>2. Elsewhere(f)
  BY <1>1 DEF Elsewhere
<1>3. LastWords(mail'[f]) /\ ~Closes(mail'[f]) /\ ~Hashed(mail'[f]) /\ worker'[f] = "none"
  BY <1>1
<1>4. Fits(status'[f], worker'[f], sums'[f], mail'[f], local'[f])
  BY <1>3 DEF Fits
<1>5. Tended(status'[f], worker'[f], sums'[f], mail'[f])
  BY <1>3 DEF Tended
<1> QED
  BY <1>1, <1>2, <1>4, <1>5, OneFile

LEMMA Failed ==
  ASSUME QueueInv, NEW f \in Files, OnFailed(f)
  PROVE  QueueInv' /\ Final
<1>1. /\ mail[f] # <<>> /\ Head(mail[f]) = "failed" /\ mail' = Rest(f)
      /\ IF Awaited(f) THEN TransferFailed(f) ELSE UNCHANGED <<status, delayed, queue>>
      /\ UNCHANGED <<attempts, sha, compared, refused, refreshing, check_vars, session_vars, timer,
                     capture, worker, sums, local, faults, budget>>
  BY DEF OnFailed, Receive
<1>2. /\ Closes(mail[f]) /\ ~Closes(Tail(mail[f])) /\ ~Hashed(Tail(mail[f]))
      /\ Fits(status[f], worker[f], sums[f], mail[f], local[f])
      /\ mail' \in [Files -> Seq(Signals)]
  <2>1. Head(mail[f]) \in Closing
    BY <1>1 DEF Closing
  <2> QED
    BY <1>1, <2>1, Received
<1>3. status[f] = "downloading" /\ worker[f] = "none" /\ sums[f] = "none"
  BY <1>2 DEF Fits
<1>4. TransferFailed(f)
  BY <1>1, <1>3 DEF Awaited
<1>5. /\ queue' \in Seq(Files) /\ Distinct(queue') /\ Elements(queue') \ {f} = Elements(queue) \ {f}
      /\ delayed' \subseteq Files /\ status' \in [Files -> Statuses]
      /\ \A g \in Files \ {f} : status'[g] = status[g]
      /\ status'[f] \in {"pending", "failed"} /\ (f \in Elements(queue') <=> status'[f] = "pending")
      /\ attempts'[f] <= Retries + restarts + (IF status'[f] \in {"none", "pending"} THEN 0 ELSE 1)
  BY <1>1, <1>3, <1>4, Failing
<1>6. TypeOK'
  <2>1. TypeOK
    BY DEF QueueInv
  <2> QED
    BY <1>1, <1>2, <1>5, <2>1 DEF TypeOK, check_vars, session_vars, budget
<1>7. f \notin compared
  BY <1>3, FileFacts
<1>8. /\ UNCHANGED <<attempts, row, refreshing, restarts, session, capture>> /\ worker' = worker
      /\ \A g \in Files \ {f} : status'[g] = status[g] /\ sums'[g] = sums[g] /\ local'[g] = local[g]
      /\ sums'[f] = "none" /\ compared' = compared
  BY <1>1, <1>5, <1>3 DEF session_vars, budget
<1>9. /\ sums'[f] # "none" <=> status'[f] = "present"
      /\ status'[f] \in {"present", "verified"} => Whole(local'[f])
      /\ status'[f] # "downloading"
  BY <1>5, <1>8
<1>10. /\ compared' \ {f} \subseteq compared
       /\ f \in compared' => status'[f] = "verified" /\ local'[f] = "good"
  BY <1>7, <1>8
<1> QED
  BY <1>1, <1>2, <1>3, <1>5, <1>6, <1>8, <1>9, <1>10, Over

LEMMA Finished ==
  ASSUME QueueInv, NEW f \in Files, OnFinished(f)
  PROVE  QueueInv' /\ Final
<1>1. /\ mail[f] # <<>> /\ Head(mail[f]) = "finished" /\ mail' = Rest(f)
      /\ UNCHANGED <<attempts, sha, compared, refused, refreshing, session_vars, timer, capture,
                     worker, local, faults, budget>>
  BY DEF OnFinished, Receive
<1>2. /\ Closes(mail[f]) /\ ~Closes(Tail(mail[f])) /\ ~Hashed(Tail(mail[f]))
      /\ Fits(status[f], worker[f], sums[f], mail[f], local[f])
      /\ mail' \in [Files -> Seq(Signals)]
  <2>1. Head(mail[f]) \in Closing
    BY <1>1 DEF Closing
  <2> QED
    BY <1>1, <2>1, Received
<1>3. status[f] = "downloading" /\ worker[f] = "none" /\ sums[f] = "none"
  BY <1>2 DEF Fits
<1>a. Awaited(f)
  BY <1>3 DEF Awaited
<1>0. TypeOK
  BY DEF QueueInv
<1>4. f \notin compared /\ Distinct(queue) /\ f \notin Elements(queue)
      /\ attempts[f] <= Retries + restarts + 1
  BY <1>3, FileFacts
<1>5. /\ UNCHANGED <<attempts, row, refreshing, restarts, session, capture>> /\ worker' = worker
      /\ local' = local /\ compared' = compared
  BY <1>1 DEF session_vars, budget
<1>6. CASE ~Kept(f)
  <2>1. TransferFailed(f) /\ UNCHANGED <<sums, check_vars>>
    BY <1>6, <1>a DEF OnFinished
  <2>2. /\ queue' \in Seq(Files) /\ Distinct(queue') /\ Elements(queue') \ {f} = Elements(queue) \ {f}
        /\ delayed' \subseteq Files /\ status' \in [Files -> Statuses]
        /\ \A g \in Files \ {f} : status'[g] = status[g]
        /\ status'[f] \in {"pending", "failed"} /\ (f \in Elements(queue') <=> status'[f] = "pending")
        /\ attempts'[f] <= Retries + restarts + (IF status'[f] \in {"none", "pending"} THEN 0 ELSE 1)
    BY <1>5, <1>3, <2>1, Failing
  <2>3. TypeOK'
    BY <1>0, <1>1, <1>2, <2>1, <2>2 DEF TypeOK, check_vars, session_vars, budget
  <2>4. /\ \A g \in Files \ {f} : status'[g] = status[g] /\ sums'[g] = sums[g] /\ local'[g] = local[g]
        /\ sums'[f] = "none"
    BY <1>3, <1>5, <2>1, <2>2
  <2>5. /\ sums'[f] # "none" <=> status'[f] = "present"
        /\ status'[f] \in {"present", "verified"} => Whole(local'[f])
        /\ status'[f] # "downloading"
    BY <2>2, <2>4
  <2>6. compared' \ {f} \subseteq compared /\ f \notin compared'
    BY <1>4, <1>5
  <2> QED
    BY <1>1, <1>2, <1>3, <1>5, <2>2, <2>3, <2>4, <2>5, <2>6, Over
<1>7. CASE Kept(f)
  <2>1. /\ status' = [status EXCEPT ![f] = IF Verify THEN "present" ELSE "verified"]
        /\ sums' = IF Verify THEN [sums EXCEPT ![f] = "hashing"] ELSE sums
        /\ AfterFileVerified(f)
        /\ UNCHANGED <<delayed, queue>>
    BY <1>7, <1>a DEF OnFinished
  <2>2. /\ status' \in [Files -> Statuses] /\ sums' \in [Files -> {"none", "asking", "hashing"}]
        /\ \A g \in Files \ {f} : status'[g] = status[g] /\ sums'[g] = sums[g] /\ local'[g] = local[g]
    BY <1>0, <1>5, <2>1 DEF TypeOK, Statuses
  <2>3. /\ status'[f] = (IF Verify THEN "present" ELSE "verified")
        /\ sums'[f] = (IF Verify THEN "hashing" ELSE "none")
    BY <1>0, <1>3, <2>1 DEF TypeOK
  <2>4. TypeOK'
    <3>1. quality' \in [Rows -> {"none", "pending", "done"}] /\ checkQueue' \in Seq(Rows)
      BY <2>1, ChecksTyped
    <3> QED
      BY <1>0, <1>1, <1>2, <2>1, <2>2, <3>1 DEF TypeOK, session_vars, budget
  <2>5. /\ sums'[f] # "none" <=> status'[f] = "present"
        /\ status'[f] # "downloading" /\ status'[f] \notin {"none", "pending"}
    BY <2>3
  <2>6. Whole(local'[f])
    BY <1>5, <1>7 DEF Kept, Whole
  <2>7. compared' \ {f} \subseteq compared /\ f \notin compared'
    BY <1>4, <1>5
  <2>8. /\ Distinct(queue') /\ Elements(queue') \ {f} = Elements(queue) \ {f} /\ f \notin Elements(queue')
    BY <1>4, <2>1
  <2>9. attempts'[f] <= Retries + restarts + (IF status'[f] \in {"none", "pending"} THEN 0 ELSE 1)
    BY <1>4, <1>5, <2>5
  <2> QED
    BY <1>1, <1>2, <1>3, <1>5, <2>2, <2>4, <2>5, <2>6, <2>7, <2>8, <2>9, Over
<1> QED
  BY <1>6, <1>7

LEMMA ChecksumDone ==
  ASSUME QueueInv, NEW f \in Files, OnChecksumDone(f)
  PROVE  QueueInv' /\ Final
<1>0. TypeOK
  BY DEF QueueInv
<1>1. PICK content \in {"good", "torn", "corrupt", "absent"}, locked \in BOOLEAN :
        /\ Receive(f, HashOf(content)) /\ mail' = Rest(f)
        /\ sums' = [sums EXCEPT ![f] = "none"]
        /\ LET differs == sha[f] /\ content \in {"torn", "corrupt"}
           IN  /\ locked => differs /\ faults < Faults
               /\ faults' = IF locked THEN faults + 1 ELSE faults
               /\ CASE differs ->
                         /\ local' = IF locked THEN local ELSE [local EXCEPT ![f] = "absent"]
                         /\ sha' = [sha EXCEPT ![f] = FALSE]
                         /\ TransferFailed(f)
                         /\ UNCHANGED <<compared, check_vars>>
                    [] ~differs /\ content = "absent" ->
                         /\ status' = [status EXCEPT ![f] = "failed"]
                         /\ UNCHANGED <<compared, delayed, queue, local, sha, check_vars>>
                    [] OTHER ->
                         /\ status' = [status EXCEPT ![f] = "verified"]
                         /\ compared' = IF sha[f] THEN compared \cup {f} ELSE compared
                         /\ AfterFileVerified(f)
                         /\ UNCHANGED <<delayed, queue, local, sha>>
        /\ UNCHANGED <<attempts, refused, refreshing, session_vars, timer, capture, worker, budget>>
  BY DEF OnChecksumDone
<1>2. /\ mail[f] # <<>> /\ Head(mail[f]) = HashOf(content)
      /\ Hashed(mail[f]) /\ mail[f][Len(mail[f])] = HashOf(content) /\ Tail(mail[f]) = <<>>
      /\ Fits(status[f], worker[f], sums[f], mail[f], local[f]) /\ mail' \in [Files -> Seq(Signals)]
  <2>1. mail[f] # <<>> /\ Head(mail[f]) = HashOf(content)
    BY <1>1 DEF Receive
  <2>2. Head(mail[f]) \in Hashes
    BY <2>1, SignalKinds
  <2> QED
    BY <1>1, <2>1, <2>2, Received
<1>3. /\ HashOf(content) = HashOf(local[f]) /\ sums[f] # "none" /\ status[f] = "present" /\ worker[f] = "none"
      /\ Whole(local[f])
  BY <1>2 DEF Fits
<1>4. content = local[f] /\ content \in {"good", "corrupt"}
  <2> DEFINE lc == local[f]
  <2>1. lc \in {"good", "corrupt"}
    BY <1>3 DEF Whole
  <2> HIDE DEF lc
  <2>2. HashOf(content) = HashOf(lc)
    BY <1>3 DEF lc
  <2>3. content = lc
    BY <2>1, <2>2 DEF HashOf
  <2> QED
    BY <2>1, <2>3 DEF lc
<1>5. ~Closes(<<>>) /\ ~Hashed(<<>>)
  BY DEF Closes, Hashed
<1>6. f \notin compared /\ Distinct(queue) /\ f \notin Elements(queue)
      /\ attempts[f] <= Retries + restarts + 1
  BY <1>3, FileFacts
<1>7. /\ UNCHANGED <<attempts, row, refreshing, restarts, session, capture>> /\ worker' = worker
      /\ UNCHANGED <<presses, settled, listed, refused, timer>>
  BY <1>1 DEF session_vars, budget
<1>8. /\ sums' \in [Files -> {"none", "asking", "hashing"}] /\ sums'[f] = "none"
      /\ \A g \in Files \ {f} : sums'[g] = sums[g]
  BY <1>0, <1>1 DEF TypeOK
<1>9. faults' \in 0 .. Faults
  <2>1. faults \in 0 .. Faults /\ Faults \in Nat
    BY <1>0, QueueAssumption DEF TypeOK
  <2>2. (faults < Faults /\ faults' = faults + 1) \/ faults' = faults
    BY <1>1
  <2> QED
    BY <2>1, <2>2
<1>10. CASE sha[f] /\ content \in {"torn", "corrupt"}
  <2>1. /\ local' = local \/ local' = [local EXCEPT ![f] = "absent"]
        /\ sha' = [sha EXCEPT ![f] = FALSE]
        /\ TransferFailed(f) /\ UNCHANGED <<compared, check_vars>>
    BY <1>1, <1>10
  <2>2. /\ queue' \in Seq(Files) /\ Distinct(queue') /\ Elements(queue') \ {f} = Elements(queue) \ {f}
        /\ delayed' \subseteq Files /\ status' \in [Files -> Statuses]
        /\ \A g \in Files \ {f} : status'[g] = status[g]
        /\ status'[f] \in {"pending", "failed"} /\ (f \in Elements(queue') <=> status'[f] = "pending")
        /\ attempts'[f] <= Retries + restarts + (IF status'[f] \in {"none", "pending"} THEN 0 ELSE 1)
    BY <1>3, <1>7, <2>1, Failing
  <2>3. /\ local' \in [Files -> {"absent", "good", "torn", "corrupt"}]
        /\ \A g \in Files \ {f} : local'[g] = local[g]
    BY <1>0, <2>1 DEF TypeOK
  <2>4. sha' \in [Files -> BOOLEAN]
    BY <1>0, <2>1 DEF TypeOK
  <2>5. TypeOK'
    BY <1>0, <1>2, <1>7, <1>8, <1>9, <2>1, <2>2, <2>3, <2>4 DEF TypeOK, check_vars
  <2>6. /\ sums'[f] # "none" <=> status'[f] = "present"
        /\ status'[f] \in {"present", "verified"} => Whole(local'[f])
        /\ status'[f] # "downloading"
    BY <1>8, <2>2
  <2>7. compared' \ {f} \subseteq compared /\ f \notin compared'
    BY <1>6, <2>1
  <2>8. \A g \in Files \ {f} : status'[g] = status[g] /\ sums'[g] = sums[g] /\ local'[g] = local[g]
    BY <1>8, <2>2, <2>3
  <2> QED
    BY <1>1, <1>2, <1>3, <1>5, <1>7, <2>2, <2>5, <2>6, <2>7, <2>8, Over
<1>11. CASE ~(sha[f] /\ content \in {"torn", "corrupt"})
  <2>1. /\ status' = [status EXCEPT ![f] = "verified"]
        /\ compared' = IF sha[f] THEN compared \cup {f} ELSE compared
        /\ AfterFileVerified(f)
        /\ UNCHANGED <<delayed, queue, local, sha>>
    BY <1>1, <1>4, <1>11
  <2>2. /\ status' \in [Files -> Statuses] /\ status'[f] = "verified"
        /\ \A g \in Files \ {f} : status'[g] = status[g] /\ sums'[g] = sums[g] /\ local'[g] = local[g]
    BY <1>0, <1>8, <2>1 DEF TypeOK, Statuses
  <2>3. compared' \subseteq compared \cup {f} /\ compared \subseteq Files /\ (f \in compared' => local'[f] = "good")
    <3>1. CASE sha[f]
      BY <1>0, <1>3, <1>4, <1>11, <2>1, <3>1 DEF TypeOK
    <3>2. CASE ~sha[f]
      BY <1>0, <1>6, <2>1, <3>2 DEF TypeOK
    <3> QED
      BY <3>1, <3>2
  <2>4. TypeOK'
    <3>1. quality' \in [Rows -> {"none", "pending", "done"}] /\ checkQueue' \in Seq(Rows)
      BY <2>1, ChecksTyped
    <3>2. compared' \subseteq Files
      BY <2>3
    <3> QED
      BY <1>0, <1>2, <1>7, <1>8, <1>9, <2>1, <2>2, <3>1, <3>2 DEF TypeOK
  <2>5. /\ sums'[f] # "none" <=> status'[f] = "present"
        /\ status'[f] # "downloading" /\ status'[f] \notin {"none", "pending"}
    BY <1>8, <2>2
  <2>6. Whole(local'[f])
    BY <1>3, <2>1
  <2>7. compared' \ {f} \subseteq compared /\ (f \in compared' => status'[f] = "verified" /\ local'[f] = "good")
    BY <2>2, <2>3
  <2>8. /\ Distinct(queue') /\ Elements(queue') \ {f} = Elements(queue) \ {f} /\ f \notin Elements(queue')
    BY <1>6, <2>1
  <2>9. attempts'[f] <= Retries + restarts + (IF status'[f] \in {"none", "pending"} THEN 0 ELSE 1)
    BY <1>6, <1>7, <2>5
  <2> QED
    BY <1>1, <1>2, <1>3, <1>5, <1>7, <2>2, <2>4, <2>5, <2>6, <2>7, <2>8, <2>9, Over
<1> QED
  BY <1>10, <1>11

(* No connection within CONNECT_PATIENCE_S: the file and all that wait are given up. *)
LEMMA Unreachable ==
  ASSUME QueueInv, NEW f \in Files, OnUnreachable(f)
  PROVE  QueueInv' /\ Final
<1>0. TypeOK
  BY DEF QueueInv
<1>1. /\ mail[f] # <<>> /\ Head(mail[f]) = "unreachable" /\ mail' = Rest(f)
      /\ UNCHANGED <<sha, compared, refused, refreshing, check_vars, session_vars, timer, capture,
                     worker, sums, local, faults, budget>>
  BY DEF OnUnreachable, Receive
<1>2. /\ Closes(mail[f]) /\ ~Closes(Tail(mail[f])) /\ ~Hashed(Tail(mail[f])) /\ LastWords(Tail(mail[f]))
      /\ Fits(status[f], worker[f], sums[f], mail[f], local[f]) /\ Live
      /\ mail' \in [Files -> Seq(Signals)] /\ mail'[f] = Tail(mail[f])
      /\ \A g \in Files \ {f} : mail'[g] = mail[g]
  <2>1. Head(mail[f]) \in Closing
    BY <1>1 DEF Closing
  <2> QED
    BY <1>1, <2>1, Received
<1>3. status[f] = "downloading" /\ worker[f] = "none" /\ sums[f] = "none"
  BY <1>2 DEF Fits
<1> DEFINE givenUp == {f} \cup {queue[i] : i \in DOMAIN queue}
<1>4. /\ status' = [g \in Files |-> IF g \in givenUp THEN "failed" ELSE status[g]]
      /\ attempts' = [attempts EXCEPT ![f] = IF @ = 0 THEN 0 ELSE @ - 1]
      /\ queue' = <<>> /\ delayed' = {}
  BY <1>3 DEF OnUnreachable, Awaited
<1>5. givenUp = {f} \cup Elements(queue)
  <2>1. queue \in Seq(Files) => DOMAIN queue = 1 .. Len(queue)
    OBVIOUS
  <2> QED
    BY <1>0, <2>1 DEF TypeOK, Elements
<1> HIDE DEF givenUp
<1>6. /\ InPlace(queue, delayed, status, attempts, worker, sums, mail)
      /\ RowsInTurn /\ Compared /\ Looked(queue, status, worker, sums, mail, refreshing)
  BY <1>2 DEF QueueInv
<1>7. \A g \in Elements(queue) : status[g] = "pending"
  BY <1>6 DEF InPlace, InTurn
<1>8. /\ \A g \in Files : g \notin givenUp => status'[g] = status[g] /\ g # f /\ g \notin Elements(queue)
      /\ \A g \in Files : g \in givenUp => status'[g] = "failed" /\ status[g] \in {"downloading", "pending"}
  BY <1>3, <1>4, <1>5, <1>7
<1>9. /\ status' \in [Files -> Statuses] /\ attempts' \in [Files -> 0 .. (Retries + 1 + Restarts)]
      /\ \A g \in Files : attempts'[g] <= attempts[g] /\ attempts[g] \in Nat
  <2>1. status' \in [Files -> Statuses]
    BY <1>0, <1>4 DEF TypeOK, Statuses
  <2>2. attempts \in [Files -> 0 .. (Retries + 1 + Restarts)] /\ Retries + 1 + Restarts \in Nat
    BY <1>0, QueueAssumption DEF TypeOK
  <2>3. attempts' \in [Files -> 0 .. (Retries + 1 + Restarts)]
    BY <1>4, <2>2
  <2>4. \A g \in Files : attempts'[g] <= attempts[g] /\ attempts[g] \in Nat
    BY <1>4, <2>2
  <2> QED
    BY <2>1, <2>3, <2>4
<1>10. TypeOK'
  <2>1. queue' \in Seq(Files) /\ delayed' \subseteq Files
    BY <1>4
  <2> QED
    BY <1>0, <1>1, <1>2, <1>9, <2>1 DEF TypeOK, check_vars, session_vars, budget
<1>11. /\ UNCHANGED <<compared, refreshing, row, session, capture, worker, sums, local, restarts>>
  BY <1>1 DEF session_vars, budget
<1>12. \A g \in Files : Fits(status'[g], worker'[g], sums'[g], mail'[g], local'[g])
  <2> SUFFICES ASSUME NEW g \in Files PROVE Fits(status'[g], worker[g], sums[g], mail'[g], local[g])
    BY <1>11
  <2>1. Fits(status[g], worker[g], sums[g], mail[g], local[g])
    BY <1>6 DEF InPlace
  <2>2. CASE g = f
    <3>1. status'[g] = "failed"
      BY <1>5, <1>8, <2>2
    <3> QED
      BY <1>2, <1>3, <2>2, <3>1 DEF Fits
  <2>3. CASE g # f /\ g \in givenUp
    <3>1. status'[g] = "failed" /\ status[g] = "pending" /\ mail'[g] = mail[g]
      BY <1>2, <1>5, <1>7, <1>8, <2>3
    <3> QED
      BY <2>1, <3>1 DEF Fits
  <2>4. CASE g \notin givenUp
    BY <1>2, <1>8, <2>1, <2>4
  <2> QED
    BY <2>2, <2>3, <2>4
<1>13. InTurn(queue', status') /\ Elements(queue') = {}
  BY <1>4 DEF InTurn, Elements, Distinct
<1>14. Tried(status', attempts', restarts')
  <2> SUFFICES ASSUME NEW g \in Files
               PROVE  attempts'[g] <= Retries + restarts + (IF status'[g] \in {"none", "pending"} THEN 0 ELSE 1)
    BY <1>11 DEF Tried
  <2>1. attempts[g] <= Retries + restarts + (IF status[g] \in {"none", "pending"} THEN 0 ELSE 1)
    BY <1>6 DEF InPlace, Tried
  <2>2. attempts'[g] <= attempts[g] /\ attempts[g] \in Nat /\ attempts'[g] \in Nat
        /\ Retries \in Nat /\ restarts \in Nat
    BY <1>0, <1>9, QueueAssumption DEF TypeOK
  <2>3. status'[g] = status[g] \/ status'[g] = "failed"
    BY <1>8
  <2> QED
    BY <2>1, <2>2, <2>3
<1>15. InPlace(queue, delayed, status, attempts, worker, sums, mail)'
  <2>1. attempts' \in [Files -> Nat]
    BY <1>9
  <2> QED
    BY <1>10, <1>12, <1>13, <1>14, <2>1 DEF InPlace, TypeOK
<1>16. RowsInTurn' /\ Compared' /\ Live'
  BY <1>2, <1>6, <1>8, <1>11 DEF RowsInTurn, Compared, Live
<1>17. Looked(queue, status, worker, sums, mail, refreshing)'
  <2>1. Queued(queue', status', refreshing')
    BY <1>6, <1>8, <1>11 DEF Looked, Queued
  <2>2. \A g \in Files : Tended(status'[g], worker'[g], sums'[g], mail'[g])
    <3> SUFFICES ASSUME NEW g \in Files PROVE Tended(status'[g], worker[g], sums[g], mail'[g])
      BY <1>11
    <3>1. Tended(status[g], worker[g], sums[g], mail[g])
      BY <1>6 DEF Looked
    <3>2. CASE g \in givenUp
      BY <1>8, <3>2 DEF Tended
    <3>3. CASE g \notin givenUp
      BY <1>2, <1>8, <3>1, <3>3
    <3> QED
      BY <3>2, <3>3
  <2> QED
    BY <2>1, <2>2 DEF Looked
<1>18. Final
  BY <1>8, <1>11 DEF Final
<1> QED
  BY <1>10, <1>15, <1>16, <1>17, <1>18 DEF QueueInv

-----------------------------------------------------------------------------
(* The steps that start downloads. *)
LEMMA AfterDrain ==
  ASSUME QueueInv, NEW q, NEW d, NEW st, NEW att, NEW mb, NEW b,
         InPlace(q, d, st, att, worker, sums, mb),
         DrainFiles(b, q, d, st, att, mb), UNCHANGED <<local, restarts, compared>>,
         row' \in Nat, row <= row', refreshing' \subseteq 1 .. row' - 1, capture' # "idle" => row' <= NRows, Live',
         refused' \subseteq Files, listed' \subseteq Rows, UNCHANGED check_vars, session' \in {"running", "done"},
         timer' \in BOOLEAN, settled' \in BOOLEAN, capture' \in {"idle", "settling", "checking", "capturing"},
         row' <= NRows + 1, faults' \in 0 .. Faults, presses' \in 0 .. OperatorRetries,
         Looked(q, st, worker, sums, mb, refreshing'),
         \A f \in Files : RowOf[f] >= row' => st[f] = status[f],
         \A f \in Files : status[f] = "verified" => st[f] = "verified",
         \A f \in Files : status[f] = "failed" /\ presses' = presses => st[f] = "failed"
  PROVE  QueueInv' /\ Final
<1>0. TypeOK /\ RowsInTurn /\ Compared /\ row \in Nat /\ row >= 1
  BY DEF QueueInv, TypeOK
<1>1. restarts \in 0 .. Restarts /\ restarts \in Nat /\ Retries \in Nat /\ Restarts \in Nat /\ NRows \in Nat
      /\ sha \in [Files -> BOOLEAN]
  BY <1>0, QueueAssumption DEF TypeOK
<1>2. /\ InPlace(queue, delayed, status, attempts, worker, sums, mail)'
      /\ sha' \in [Files -> BOOLEAN]
      /\ \A f \in Files : st[f] # "pending" => status'[f] = st[f]
      /\ \A rf : Looked(q, st, worker, sums, mb, rf) => Looked(queue', status', worker', sums', mail', rf)
  BY <1>1, Drained
<1>3. attempts' \in [Files -> 0 .. (Retries + 1 + Restarts)]
  <2>1. attempts' \in [Files -> Nat] /\ restarts' = restarts
    BY <1>2 DEF InPlace
  <2>2. ASSUME NEW f \in Files PROVE attempts'[f] \in 0 .. (Retries + 1 + Restarts)
    <3>1. attempts'[f] \in Nat
      BY <2>1
    <3>2. attempts'[f] <= Retries + restarts + (IF status'[f] \in {"none", "pending"} THEN 0 ELSE 1)
      BY <1>2, <2>1 DEF InPlace, Tried
    <3> QED
      BY <1>1, <3>1, <3>2
  <2> QED
    BY <2>1, <2>2
<1>4. TypeOK'
  <2>1. /\ queue' \in Seq(Files) /\ delayed' \subseteq Files
        /\ status' \in [Files -> Statuses]
        /\ worker' \in [Files -> {"none", "connecting", "transferring"}]
        /\ sums' \in [Files -> {"none", "asking", "hashing"}]
        /\ mail' \in [Files -> Seq(Signals)]
    BY <1>2 DEF InPlace
  <2>2. refreshing' \subseteq Rows
    BY <1>1 DEF Rows
  <2>3. row' \in 1 .. NRows + 1
    BY <1>0, <1>1
  <2>4. compared' \subseteq Files /\ quality' \in [Rows -> {"none", "pending", "done"}] /\ checkQueue' \in Seq(Rows)
        /\ restarts' \in 0 .. Restarts /\ local' \in [Files -> {"absent", "good", "torn", "corrupt"}]
    BY <1>0 DEF TypeOK, check_vars
  <2>5. session' \in {"running", "done", "interrupted", "leftover"}
    OBVIOUS
  <2>6. sha' \in [Files -> BOOLEAN]
    BY <1>2
  <2> QED
    BY <1>3, <2>1, <2>2, <2>3, <2>4, <2>5, <2>6 DEF TypeOK
<1>5. RowsInTurn'
  <2>1. ASSUME NEW f \in Files, RowOf[f] >= row' PROVE status'[f] = "none"
    <3>1. RowOf[f] \in Nat
      BY QueueAssumption DEF Rows
    <3>2. status[f] = "none"
      BY <1>0, <2>1, <3>1 DEF RowsInTurn
    <3> QED
      BY <1>2, <2>1, <3>2
  <2> QED
    BY <2>1 DEF RowsInTurn
<1>6. Compared'
  BY <1>0, <1>2 DEF Compared
<1>7. Looked(queue, status, worker, sums, mail, refreshing)'
  BY <1>2
<1>8. Final
  BY <1>2 DEF Final
<1> QED
  BY <1>2, <1>4, <1>5, <1>6, <1>7, <1>8 DEF QueueInv

(* What every drain of the controller as it stands starts from. *)
LEMMA Before ==
  ASSUME QueueInv
  PROVE  /\ InPlace(queue, delayed, status, attempts, worker, sums, mail)
         /\ row \in Nat /\ row >= 1 /\ row <= NRows + 1 /\ refreshing \subseteq 1 .. row - 1
         /\ capture # "idle" => row <= NRows
         /\ refused \subseteq Files /\ listed \subseteq Rows /\ delayed \subseteq Files
         /\ session \in {"running", "done", "interrupted", "leftover"}
         /\ timer \in BOOLEAN /\ settled \in BOOLEAN
         /\ capture \in {"idle", "settling", "checking", "capturing"}
         /\ faults \in 0 .. Faults /\ presses \in 0 .. OperatorRetries
         /\ Live => Looked(queue, status, worker, sums, mail, refreshing) /\ session \in {"running", "done"}
         /\ timer => Live
         /\ delayed # {} \/ refreshing # {} \/ capture # "idle" => Live
<1>1. TypeOK /\ RowsInTurn
  BY DEF QueueInv
<1>2. InPlace(queue, delayed, status, attempts, worker, sums, mail)
  BY DEF QueueInv
<1>3. /\ row \in Nat /\ row >= 1 /\ row <= NRows + 1
      /\ refused \subseteq Files /\ listed \subseteq Rows /\ delayed \subseteq Files
      /\ session \in {"running", "done", "interrupted", "leftover"}
      /\ capture \in {"idle", "settling", "checking", "capturing"}
      /\ faults \in 0 .. Faults /\ presses \in 0 .. OperatorRetries
  BY <1>1, QueueAssumption DEF TypeOK
<1>4. timer \in BOOLEAN /\ settled \in BOOLEAN
  BY <1>1 DEF TypeOK
<1>5. /\ refreshing \subseteq 1 .. row - 1
      /\ capture # "idle" => row <= NRows
  BY <1>1 DEF RowsInTurn
<1>6. Live => Looked(queue, status, worker, sums, mail, refreshing) /\ session \in {"running", "done"}
  BY DEF QueueInv, Live
<1>7. timer => Live
  BY DEF QueueInv, AtRest
<1>8. delayed # {} \/ refreshing # {} \/ capture # "idle" => Live
  BY DEF QueueInv, AtRest
<1> QED
  BY <1>2, <1>3, <1>4, <1>5, <1>6, <1>7, <1>8

LEMMA LessDelayed ==
  ASSUME NEW q, NEW d, NEW st, NEW att, NEW wk, NEW sm, NEW mb, NEW e \in SUBSET d,
         InPlace(q, d, st, att, wk, sm, mb)
  PROVE  InPlace(q, e, st, att, wk, sm, mb)
<1>1. e \subseteq Files
  BY DEF InPlace
<1> QED
  BY <1>1 DEF InPlace

LEMMA Ticks ==
  ASSUME QueueInv, Tick \/ (\E f \in Files : RetryDelayOver(f))
  PROVE  QueueInv' /\ Final
<1>1. PICK e \in SUBSET delayed :
        /\ DrainFiles(HasStorageToItself, queue, e, status, attempts, mail)
        /\ UNCHANGED <<compared, refused, refreshing, check_vars, session_vars, timer, capture, local, faults, budget>>
        /\ Live
  <2>1. CASE Tick
    <3>1. Live
      BY <2>1, Before DEF Tick
    <3>2. delayed \in SUBSET delayed
      OBVIOUS
    <3> QED
      BY <2>1, <3>1, <3>2 DEF Tick, Drain
  <2>2. ASSUME NEW f \in Files, RetryDelayOver(f)
        PROVE  \E e \in SUBSET delayed :
                 /\ DrainFiles(HasStorageToItself, queue, e, status, attempts, mail)
                 /\ UNCHANGED <<compared, refused, refreshing, check_vars, session_vars, timer, capture, local, faults, budget>>
                 /\ Live
    <3>1. Live
      BY <2>2, Before DEF RetryDelayOver
    <3>2. delayed \ {f} \in SUBSET delayed
      OBVIOUS
    <3> QED
      BY <2>2, <3>1, <3>2 DEF RetryDelayOver, Drain
  <2> QED
    BY <2>1, <2>2
<1>2. InPlace(queue, e, status, attempts, worker, sums, mail)
  BY Before, LessDelayed
<1>3. /\ row' = row /\ refreshing' = refreshing /\ capture' = capture /\ session' = session
      /\ refused' = refused /\ listed' = listed /\ UNCHANGED check_vars
      /\ timer' = timer /\ settled' = settled /\ faults' = faults /\ presses' = presses
      /\ UNCHANGED <<local, restarts, compared>>
  BY <1>1 DEF session_vars, budget
<1>4. Live'
  BY <1>1, <1>3 DEF Live
<1>5. /\ row' \in Nat /\ row <= row' /\ refreshing' \subseteq 1 .. row' - 1 /\ (capture' # "idle" => row' <= NRows)
      /\ refused' \subseteq Files /\ listed' \subseteq Rows /\ session' \in {"running", "done"}
      /\ capture' \in {"idle", "settling", "checking", "capturing"}
      /\ row' <= NRows + 1 /\ faults' \in 0 .. Faults /\ presses' \in 0 .. OperatorRetries
      /\ Looked(queue, status, worker, sums, mail, refreshing')
  BY <1>1, <1>3, Before
<1>6. timer' \in BOOLEAN /\ settled' \in BOOLEAN
  BY <1>3, Before
<1> QED
  BY <1>1, <1>2, <1>3, <1>4, <1>5, <1>6, AfterDrain

LEMMA ThreadFinished ==
  ASSUME QueueInv, NEW f \in Files, OnThreadFinished(f)
  PROVE  QueueInv' /\ Final
<1>1. /\ mail[f] # <<>> /\ Head(mail[f]) = "ended" /\ refused' = refused \ {f}
      /\ DrainFiles(HasStorageToItself, queue, delayed, status, attempts, Rest(f))
      /\ UNCHANGED <<compared, refreshing, check_vars, session_vars, capture, local, faults, budget>>
  BY DEF OnThreadFinished, Receive, Drain
<1>2. timer' \in BOOLEAN
  BY DEF OnThreadFinished
<1>3. /\ Rest(f) \in [Files -> Seq(Signals)] /\ Rest(f)[f] = Tail(mail[f])
      /\ (\A g \in Files \ {f} : Rest(f)[g] = mail[g]) /\ Live
  BY <1>1, Received
<1>4. /\ Fits(status[f], worker[f], sums[f], Tail(mail[f]), local[f])
      /\ Tended(status[f], worker[f], sums[f], Tail(mail[f]))
  BY <1>1, SignalKinds, NeutralHandled
<1>5. InPlace(queue, delayed, status, attempts, worker, sums, mail) /\ Looked(queue, status, worker, sums, mail, refreshing)
  BY <1>3, Before
<1> DEFINE mb == Rest(f)
<1> HIDE DEF mb
<1>6. InPlace(queue, delayed, status, attempts, worker, sums, mb)
  <2>1. \A g \in Files : Fits(status[g], worker[g], sums[g], mb[g], local[g])
    BY <1>3, <1>4, <1>5 DEF InPlace, mb
  <2>2. mb \in [Files -> Seq(Signals)]
    BY <1>3 DEF mb
  <2> QED
    BY <1>5, <2>1, <2>2 DEF InPlace
<1>7. Looked(queue, status, worker, sums, mb, refreshing)
  BY <1>3, <1>4, <1>5 DEF Looked, mb
<1>8. /\ row' = row /\ refreshing' = refreshing /\ capture' = capture /\ session' = session
      /\ listed' = listed /\ UNCHANGED check_vars
      /\ settled' = settled /\ faults' = faults /\ presses' = presses
      /\ UNCHANGED <<local, restarts, compared>>
  BY <1>1 DEF session_vars, budget
<1>9. Live'
  BY <1>3, <1>8 DEF Live
<1>10. /\ row' \in Nat /\ row <= row' /\ refreshing' \subseteq 1 .. row' - 1 /\ (capture' # "idle" => row' <= NRows)
       /\ refused' \subseteq Files /\ listed' \subseteq Rows /\ session' \in {"running", "done"}
       /\ capture' \in {"idle", "settling", "checking", "capturing"}
       /\ row' <= NRows + 1 /\ faults' \in 0 .. Faults /\ presses' \in 0 .. OperatorRetries
       /\ Looked(queue, status, worker, sums, mb, refreshing')
  BY <1>1, <1>3, <1>7, <1>8, Before
<1>11. settled' \in BOOLEAN
  BY <1>8, Before
<1>12. DrainFiles(HasStorageToItself, queue, delayed, status, attempts, mb)
  BY <1>1 DEF mb
<1> QED
  BY <1>2, <1>6, <1>8, <1>9, <1>10, <1>11, <1>12, AfterDrain

(* A file that comes up, or comes up again, is one nobody works on. *)
LEMMA Wakes ==
  ASSUME NEW st, NEW wk, NEW sm, NEW m, NEW lc, Fits(st, wk, sm, m, lc), st \notin {"downloading", "present"}
  PROVE  Fits("pending", wk, sm, m, lc) /\ Tended("pending", wk, sm, m)
BY DEF Fits, Tended

(* One sequence after another. *)
LEMMA Joined ==
  ASSUME NEW p \in Seq(Files), NEW q \in Seq(Files), Distinct(p), Distinct(q), Elements(p) \cap Elements(q) = {}
  PROVE  p \o q \in Seq(Files) /\ Elements(p \o q) = Elements(p) \cup Elements(q) /\ Distinct(p \o q)
<1> DEFINE n == p \o q
<1>1. /\ n \in Seq(Files) /\ Len(p) \in Nat /\ Len(q) \in Nat /\ Len(n) = Len(p) + Len(q)
      /\ \A i \in 1 .. Len(p) : n[i] = p[i]
      /\ \A i \in 1 .. Len(q) : n[Len(p) + i] = q[i]
  OBVIOUS
<1> HIDE DEF n
<1>2. \A i \in 1 .. Len(n) : i \in 1 .. Len(p) \/ (i - Len(p) \in 1 .. Len(q) /\ n[i] = q[i - Len(p)])
  <2> SUFFICES ASSUME NEW i \in 1 .. Len(n), i \notin 1 .. Len(p)
               PROVE  i - Len(p) \in 1 .. Len(q) /\ n[i] = q[i - Len(p)]
    OBVIOUS
  <2>1. i - Len(p) \in 1 .. Len(q) /\ i = Len(p) + (i - Len(p))
    BY <1>1
  <2> QED
    BY <1>1, <2>1
<1>3. Elements(n) = Elements(p) \cup Elements(q)
  <2>1. Elements(n) \subseteq Elements(p) \cup Elements(q)
    BY <1>1, <1>2 DEF Elements
  <2>2. Elements(p) \subseteq Elements(n)
    BY <1>1 DEF Elements
  <2>3. Elements(q) \subseteq Elements(n)
    <3> SUFFICES ASSUME NEW i \in 1 .. Len(q) PROVE q[i] \in Elements(n)
      BY DEF Elements
    <3>1. Len(p) + i \in 1 .. Len(n) /\ n[Len(p) + i] = q[i]
      BY <1>1
    <3> QED
      BY <3>1 DEF Elements
  <2> QED
    BY <2>1, <2>2, <2>3
<1>4. Distinct(n)
  <2> SUFFICES ASSUME NEW i \in 1 .. Len(n), NEW j \in 1 .. Len(n), n[i] = n[j] PROVE i = j
    BY DEF Distinct
  <2>1. ASSUME NEW a \in 1 .. Len(n), a \in 1 .. Len(p) PROVE n[a] \in Elements(p)
    BY <1>1, <2>1 DEF Elements
  <2>2. ASSUME NEW a \in 1 .. Len(n), a \notin 1 .. Len(p) PROVE n[a] \in Elements(q)
    BY <1>2, <2>2 DEF Elements
  <2>3. CASE i \in 1 .. Len(p) /\ j \in 1 .. Len(p)
    BY <1>1, <2>3 DEF Distinct
  <2>4. CASE i \notin 1 .. Len(p) /\ j \notin 1 .. Len(p)
    <3>1. i - Len(p) = j - Len(p)
      BY <1>2, <2>4 DEF Distinct
    <3> QED
      BY <1>1, <3>1
  <2> QED
    BY <2>1, <2>2, <2>3, <2>4
<1> QED
  BY <1>1, <1>3, <1>4 DEF n

LEMMA AllListed ==
  ASSUME NEW S \in SUBSET Files
  PROVE  Only(FileSeq, S) \in Seq(Files) /\ Elements(Only(FileSeq, S)) = S /\ Distinct(Only(FileSeq, S))
<1>1. FileSeq \in Seq(Files) /\ DOMAIN FileSeq = 1 .. Len(FileSeq)
  BY QueueAssumption
<1>2. Distinct(FileSeq) /\ Elements(FileSeq) = Files
  BY <1>1, QueueAssumption DEF Distinct, Elements, Files
<1>3. /\ Only(FileSeq, S) \in Seq(Files)
      /\ Elements(Only(FileSeq, S)) = Elements(FileSeq) \cap S
      /\ Distinct(FileSeq) => Distinct(Only(FileSeq, S))
  BY <1>1, OnlyLeaves
<1>4. Files \cap S = S
  OBVIOUS
<1> QED
  BY <1>2, <1>3, <1>4

LEMMA CaptureOver ==
  ASSUME QueueInv, NEW c \in BOOLEAN, CaptureFinished(c)
  PROVE  QueueInv' /\ Final
<1> DEFINE new == {f \in FilesOf(row) \ Late : c}
           st == [f \in Files |-> IF f \in new THEN "pending" ELSE status[f]]
<1>1. /\ capture = "capturing" /\ capture' = "idle" /\ row' = row + 1
      /\ refreshing' = IF c THEN refreshing \cup {row} ELSE refreshing
      /\ DrainFiles(FALSE, queue, delayed, st, attempts, mail)
      /\ UNCHANGED <<compared, refused, listed, check_vars, session, settled, timer, local, faults, budget>>
  BY DEF CaptureFinished
<1>2. /\ new \subseteq Files /\ (\A f \in new : RowOf[f] = row) /\ (new # {} => c)
  BY DEF FilesOf
<1>3. /\ InPlace(queue, delayed, status, attempts, worker, sums, mail)
      /\ row \in Nat /\ row >= 1 /\ row <= NRows /\ refreshing \subseteq 1 .. row - 1 /\ Live
      /\ Looked(queue, status, worker, sums, mail, refreshing)
  BY <1>1, Before
<1>4. \A f \in new : status[f] = "none"
  <2>1. \A f \in Files : RowOf[f] >= row => status[f] = "none"
    BY DEF QueueInv, RowsInTurn
  <2> QED
    BY <1>2, <1>3, <2>1
<1> HIDE DEF new
<1>5. /\ st \in [Files -> Statuses] /\ (\A f \in new : st[f] = "pending")
      /\ (\A f \in Files \ new : st[f] = status[f])
  BY <1>2, <1>3 DEF InPlace, Statuses
<1> HIDE DEF st
<1>6. InPlace(queue, delayed, st, attempts, worker, sums, mail)
  <2>1. \A f \in Files : Fits(st[f], worker[f], sums[f], mail[f], local[f])
    <3> SUFFICES ASSUME NEW f \in Files PROVE Fits(st[f], worker[f], sums[f], mail[f], local[f])
      OBVIOUS
    <3>1. Fits(status[f], worker[f], sums[f], mail[f], local[f])
      BY <1>3 DEF InPlace
    <3>2. CASE f \in new
      <4>1. st[f] = "pending" /\ status[f] \notin {"downloading", "present"}
        BY <1>4, <1>5, <3>2
      <4> QED
        BY <3>1, <4>1, Wakes
    <3> QED
      BY <1>5, <3>1, <3>2
  <2>2. InTurn(queue, st)
    <3>1. Elements(queue) \subseteq Files
      BY <1>3 DEF InPlace, Elements
    <3> QED
      BY <1>3, <1>5, <3>1 DEF InPlace, InTurn
  <2>3. Tried(st, attempts, restarts)
    <3> SUFFICES ASSUME NEW f \in Files
                 PROVE  attempts[f] <= Retries + restarts + (IF st[f] \in {"none", "pending"} THEN 0 ELSE 1)
      BY DEF Tried
    <3>1. attempts[f] <= Retries + restarts + (IF status[f] \in {"none", "pending"} THEN 0 ELSE 1)
      BY <1>3 DEF InPlace, Tried
    <3> QED
      BY <1>4, <1>5, <3>1
  <2> QED
    BY <1>3, <1>5, <2>1, <2>2, <2>3 DEF InPlace
<1>7. Looked(queue, st, worker, sums, mail, refreshing')
  <2>1. Queued(queue, st, refreshing')
    BY <1>1, <1>2, <1>3, <1>5 DEF Looked, Queued
  <2>2. \A f \in Files : Tended(st[f], worker[f], sums[f], mail[f])
    <3>1. \A f \in new : Tended(st[f], worker[f], sums[f], mail[f])
      BY <1>5 DEF Tended
    <3> QED
      BY <1>3, <1>5, <3>1 DEF Looked
  <2> QED
    BY <2>1, <2>2 DEF Looked
<1>8. /\ row' \in Nat /\ row <= row' /\ row' <= NRows + 1 /\ capture' = "idle" /\ session' = session
      /\ NRows \in Nat
  BY <1>1, <1>3, QueueAssumption
<1>9. refreshing' \subseteq 1 .. row' - 1
  BY <1>1, <1>3
<1>10. /\ refused' \subseteq Files /\ listed' \subseteq Rows /\ session' \in {"running", "done"}
       /\ faults' \in 0 .. Faults /\ presses' \in 0 .. OperatorRetries
  BY <1>1, <1>3, Before DEF budget
<1>11. timer' \in BOOLEAN /\ settled' \in BOOLEAN
  BY <1>1, Before
<1>12. /\ UNCHANGED <<local, restarts, compared>> /\ UNCHANGED check_vars /\ presses' = presses
  BY <1>1 DEF budget
<1>13. Live'
  BY <1>3, <1>8 DEF Live
<1>14. /\ \A f \in Files : RowOf[f] >= row' => st[f] = status[f]
       /\ \A f \in Files : status[f] = "verified" => st[f] = "verified"
       /\ \A f \in Files : status[f] = "failed" /\ presses' = presses => st[f] = "failed"
  BY <1>1, <1>2, <1>3, <1>4, <1>5
<1> QED
  BY <1>1, <1>6, <1>7, <1>8, <1>9, <1>10, <1>11, <1>12, <1>13, <1>14, AfterDrain

(* Files a listing adds, and those that wait for it, join the queue. *)
LEMMA Listed ==
  ASSUME QueueInv, NEW r \in Rows, NEW ok \in BOOLEAN, FilesListed(r, ok)
  PROVE  QueueInv' /\ Final
<1> DEFINE new == {f \in FilesOf(r) : ok /\ status[f] = "none"}
           st == [f \in Files |-> IF ok /\ f \in FilesOf(r) /\ status[f] = "none" THEN "pending" ELSE status[f]]
           queued == {queue[i] : i \in DOMAIN queue}
           waiting == {f \in FilesOf(r) : st[f] = "pending"} \ queued
           q == queue \o Only(FileSeq, waiting)
<1>1. /\ r \in refreshing /\ (ok \/ faults < Faults) /\ faults' = IF ok THEN faults ELSE faults + 1
      /\ refreshing' = refreshing \ {r}
      /\ listed' = IF ok THEN listed \cup {r} ELSE listed
      /\ DrainFiles(HasStorageToItself, q, delayed, st, attempts, mail)
      /\ capture' \in {capture} \cup
           (IF session = "running" /\ capture = "idle" /\ row <= NRows
               /\ Len(queue') + Cardinality(Threads(worker', mail')) <= BacklogLimit
            THEN {NextCapture(Active(worker', mail') \ refused, refreshing', settled)} ELSE {})
      /\ UNCHANGED <<compared, refused, check_vars, session, settled, row, timer, local, budget>>
  BY DEF FilesListed, Drain
<1>2. /\ InPlace(queue, delayed, status, attempts, worker, sums, mail)
      /\ row \in Nat /\ row >= 1 /\ row <= NRows + 1 /\ refreshing \subseteq 1 .. row - 1 /\ Live
      /\ Looked(queue, status, worker, sums, mail, refreshing)
  BY <1>1, Before
<1>3. FilesOf(r) \subseteq Files /\ (\A f \in FilesOf(r) : RowOf[f] = r) /\ (\A f \in Files : RowOf[f] = r => f \in FilesOf(r))
  BY DEF FilesOf
<1>4. r < row
  BY <1>1, <1>2
<1>5. /\ st \in [Files -> Statuses] /\ new \subseteq FilesOf(r)
      /\ (\A f \in new : st[f] = "pending" /\ status[f] = "none")
      /\ (\A f \in Files \ new : st[f] = status[f])
  BY <1>2, <1>3 DEF InPlace, Statuses
<1> HIDE DEF st, new
<1>6. queue \in Seq(Files) /\ queued = Elements(queue) /\ Distinct(queue) /\ (\A f \in Elements(queue) : status[f] = "pending")
  <2>1. queue \in Seq(Files) /\ DOMAIN queue = 1 .. Len(queue)
    BY <1>2 DEF InPlace
  <2> QED
    BY <1>2, <2>1 DEF InPlace, InTurn, Elements
<1> HIDE DEF queued
<1>7. waiting \subseteq Files /\ waiting \cap Elements(queue) = {} /\ (\A f \in waiting : st[f] = "pending")
      /\ (\A f \in Files : RowOf[f] = r /\ st[f] = "pending" => f \in waiting \/ f \in Elements(queue))
  BY <1>3, <1>6
<1> HIDE DEF waiting
<1>8. q \in Seq(Files) /\ Elements(q) = Elements(queue) \cup waiting /\ Distinct(q)
  <2>1. /\ Only(FileSeq, waiting) \in Seq(Files) /\ Elements(Only(FileSeq, waiting)) = waiting
        /\ Distinct(Only(FileSeq, waiting))
    BY <1>7, AllListed
  <2> QED
    BY <1>6, <1>7, <2>1, Joined
<1> HIDE DEF q
<1>9. InPlace(q, delayed, st, attempts, worker, sums, mail)
  <2>1. \A f \in Files : Fits(st[f], worker[f], sums[f], mail[f], local[f])
    <3> SUFFICES ASSUME NEW f \in Files PROVE Fits(st[f], worker[f], sums[f], mail[f], local[f])
      OBVIOUS
    <3>1. Fits(status[f], worker[f], sums[f], mail[f], local[f])
      BY <1>2 DEF InPlace
    <3>2. CASE f \in new
      <4>1. st[f] = "pending" /\ status[f] \notin {"downloading", "present"}
        BY <1>5, <3>2
      <4> QED
        BY <3>1, <4>1, Wakes
    <3> QED
      BY <1>5, <3>1, <3>2
  <2>2. InTurn(q, st)
    <3>1. Elements(queue) \subseteq Files
      BY <1>6 DEF Elements
    <3>2. \A f \in Elements(queue) : st[f] = "pending"
      BY <1>5, <1>6, <3>1
    <3> QED
      BY <1>7, <1>8, <3>2 DEF InTurn
  <2>3. Tried(st, attempts, restarts)
    <3> SUFFICES ASSUME NEW f \in Files
                 PROVE  attempts[f] <= Retries + restarts + (IF st[f] \in {"none", "pending"} THEN 0 ELSE 1)
      BY DEF Tried
    <3>1. attempts[f] <= Retries + restarts + (IF status[f] \in {"none", "pending"} THEN 0 ELSE 1)
      BY <1>2 DEF InPlace, Tried
    <3> QED
      BY <1>5, <3>1
  <2> QED
    BY <1>2, <1>5, <1>8, <2>1, <2>2, <2>3 DEF InPlace
<1>10. Looked(q, st, worker, sums, mail, refreshing')
  <2>1. Queued(q, st, refreshing')
    <3> SUFFICES ASSUME NEW f \in Files, st[f] = "pending", f \notin Elements(q) PROVE RowOf[f] \in refreshing'
      BY DEF Queued
    <3>1. RowOf[f] # r /\ f \notin Elements(queue)
      BY <1>7, <1>8
    <3>2. status[f] = "pending"
      BY <1>3, <1>5, <3>1
    <3> QED
      BY <1>1, <1>2, <3>1, <3>2 DEF Looked, Queued
  <2>2. \A f \in Files : Tended(st[f], worker[f], sums[f], mail[f])
    <3>1. \A f \in new : Tended(st[f], worker[f], sums[f], mail[f])
      BY <1>5 DEF Tended
    <3> QED
      BY <1>2, <1>5, <3>1 DEF Looked
  <2> QED
    BY <2>1, <2>2 DEF Looked
<1>11. /\ row' = row /\ session' = session /\ presses' = presses /\ refused' = refused
       /\ UNCHANGED <<local, restarts, compared>> /\ UNCHANGED check_vars
  BY <1>1 DEF budget
<1>12. /\ refreshing' \subseteq 1 .. row' - 1 /\ row' \in Nat /\ row <= row' /\ row' <= NRows + 1
       /\ refused' \subseteq Files /\ session' \in {"running", "done"} /\ presses' \in 0 .. OperatorRetries
  BY <1>1, <1>2, <1>11, Before
<1>13. listed' \subseteq Rows
  BY <1>1, Before
<1>14. timer' \in BOOLEAN /\ settled' \in BOOLEAN
  BY <1>1, Before
<1>15. faults' \in 0 .. Faults
  <2>1. faults \in 0 .. Faults /\ Faults \in Nat
    BY Before, QueueAssumption
  <2> QED
    BY <1>1, <2>1
<1>16. /\ capture' \in {"idle", "settling", "checking", "capturing"}
       /\ capture' # "idle" => row' <= NRows
  <2>1. capture' = capture \/ (row <= NRows /\ capture' \in {"idle", "settling", "checking"})
    BY <1>1 DEF NextCapture
  <2> QED
    BY <1>11, <2>1, Before
<1>17. Live'
  BY <1>2, <1>11 DEF Live
<1>18. /\ \A f \in Files : RowOf[f] >= row' => st[f] = status[f]
       /\ \A f \in Files : status[f] = "verified" => st[f] = "verified"
       /\ \A f \in Files : status[f] = "failed" /\ presses' = presses => st[f] = "failed"
  <2>1. \A f \in new : RowOf[f] = r /\ status[f] = "none"
    BY <1>3, <1>5
  <2>2. row' = row /\ r \in Nat
    BY <1>11 DEF Rows
  <2>3. \A f \in Files : RowOf[f] >= row' => f \notin new
    BY <1>2, <1>4, <2>1, <2>2
  <2>4. \A f \in Files : status[f] # "none" => f \notin new
    BY <2>1
  <2> QED
    BY <1>5, <2>3, <2>4
<1> QED
  BY <1>1, <1>9, <1>10, <1>11, <1>12, <1>13, <1>14, <1>15, <1>16, <1>17, <1>18, AfterDrain

(* Retry downloads: every file given up gets all its attempts again. *)
LEMMA Retried ==
  ASSUME QueueInv, ContinuesFirst, RetryDownloads
  PROVE  QueueInv' /\ Final
<1> DEFINE failed == {f \in Files : status[f] = "failed"}
           st == [f \in Files |-> IF status[f] = "failed" THEN "pending" ELSE status[f]]
           att == [f \in Files |-> IF status[f] = "failed" THEN 0 ELSE attempts[f]]
           q == Only(FileSeq, failed)
<1>1. /\ presses < OperatorRetries /\ presses' = presses + 1 /\ queue = <<>>
      /\ session \in {"running", "done"} /\ timer' = TRUE
      /\ DrainFiles(HasStorageToItself, q, {}, st, att, mail)
      /\ UNCHANGED <<compared, refused, refreshing, check_vars, session_vars, capture, local, faults, restarts>>
  BY DEF RetryDownloads, Drain, ContinuesFirst
<1>2. /\ InPlace(queue, delayed, status, attempts, worker, sums, mail)
      /\ row \in Nat /\ row >= 1 /\ row <= NRows + 1 /\ refreshing \subseteq 1 .. row - 1 /\ Live
      /\ Looked(queue, status, worker, sums, mail, refreshing)
  BY <1>1, Before DEF Live
<1>3. failed \subseteq Files /\ q \in Seq(Files) /\ Elements(q) = failed /\ Distinct(q)
  BY AllListed
<1>4. /\ st \in [Files -> Statuses] /\ att \in [Files -> Nat]
      /\ \A f \in failed : st[f] = "pending" /\ att[f] = 0 /\ status[f] = "failed"
      /\ \A f \in Files \ failed : st[f] = status[f] /\ att[f] = attempts[f] /\ status[f] # "failed"
  BY <1>2 DEF InPlace, Statuses
<1> HIDE DEF st, att, q, failed
<1>5. InPlace(q, {}, st, att, worker, sums, mail)
  <2>1. \A f \in Files : Fits(st[f], worker[f], sums[f], mail[f], local[f])
    <3> SUFFICES ASSUME NEW f \in Files PROVE Fits(st[f], worker[f], sums[f], mail[f], local[f])
      OBVIOUS
    <3>1. Fits(status[f], worker[f], sums[f], mail[f], local[f])
      BY <1>2 DEF InPlace
    <3>2. CASE f \in failed
      <4>1. st[f] = "pending" /\ status[f] \notin {"downloading", "present"}
        BY <1>4, <3>2
      <4> QED
        BY <3>1, <4>1, Wakes
    <3> QED
      BY <1>4, <3>1, <3>2
  <2>2. InTurn(q, st)
    BY <1>3, <1>4 DEF InTurn
  <2>3. Tried(st, att, restarts)
    <3> SUFFICES ASSUME NEW f \in Files
                 PROVE  att[f] <= Retries + restarts + (IF st[f] \in {"none", "pending"} THEN 0 ELSE 1)
      BY DEF Tried
    <3>1. attempts[f] <= Retries + restarts + (IF status[f] \in {"none", "pending"} THEN 0 ELSE 1)
      BY <1>2 DEF InPlace, Tried
    <3>2. Retries \in Nat /\ restarts \in Nat
      BY QueueAssumption DEF QueueInv, TypeOK
    <3> QED
      BY <1>4, <3>1, <3>2
  <2> QED
    BY <1>2, <1>3, <1>4, <2>1, <2>2, <2>3 DEF InPlace
<1>6. Looked(q, st, worker, sums, mail, refreshing)
  <2>0. Elements(queue) = {}
    BY <1>1 DEF Elements
  <2>1. Queued(q, st, refreshing)
    BY <1>2, <1>3, <1>4, <2>0 DEF Looked, Queued
  <2>2. \A f \in Files : Tended(st[f], worker[f], sums[f], mail[f])
    <3>1. \A f \in failed : Tended(st[f], worker[f], sums[f], mail[f])
      BY <1>4 DEF Tended
    <3> QED
      BY <1>2, <1>4, <3>1 DEF Looked
  <2> QED
    BY <2>1, <2>2 DEF Looked
<1>7. /\ row' = row /\ refreshing' = refreshing /\ capture' = capture /\ session' = session
      /\ refused' = refused /\ listed' = listed /\ settled' = settled /\ faults' = faults
      /\ UNCHANGED <<local, restarts, compared>> /\ UNCHANGED check_vars
  BY <1>1 DEF session_vars
<1>8. /\ row' \in Nat /\ row <= row' /\ refreshing' \subseteq 1 .. row' - 1 /\ (capture' # "idle" => row' <= NRows)
      /\ refused' \subseteq Files /\ listed' \subseteq Rows /\ session' \in {"running", "done"}
      /\ capture' \in {"idle", "settling", "checking", "capturing"}
      /\ row' <= NRows + 1 /\ faults' \in 0 .. Faults
      /\ Looked(q, st, worker, sums, mail, refreshing')
  BY <1>1, <1>2, <1>6, <1>7, Before
<1>9. presses' \in 0 .. OperatorRetries /\ presses' # presses
  <2>1. presses \in 0 .. OperatorRetries /\ OperatorRetries \in Nat
    BY Before, QueueAssumption
  <2> QED
    BY <1>1, <2>1
<1>10. timer' \in BOOLEAN /\ settled' \in BOOLEAN
  BY <1>1, <1>7, Before
<1>11. Live'
  BY <1>2, <1>7 DEF Live
<1>12. /\ \A f \in Files : RowOf[f] >= row' => st[f] = status[f]
       /\ \A f \in Files : status[f] = "verified" => st[f] = "verified"
       /\ \A f \in Files : status[f] = "failed" /\ presses' = presses => st[f] = "failed"
  <2>1. \A f \in Files : RowOf[f] >= row => status[f] = "none"
    BY DEF QueueInv, RowsInTurn
  <2>2. \A f \in failed : status[f] # "none" /\ status[f] # "verified"
    BY <1>4
  <2> QED
    BY <1>3, <1>4, <1>7, <1>9, <2>1, <2>2
<1> QED
  BY <1>1, <1>5, <1>7, <1>8, <1>9, <1>10, <1>11, <1>12, AfterDrain

(* Continue after a restart: what was under way waits again, or is listed again first. *)
LEMMA Continued ==
  ASSUME QueueInv, Continue
  PROVE  QueueInv' /\ Final
<1> DEFINE relisted == {r \in Rows : r \notin listed /\ \E f \in Unfinished : RowOf[f] = r}
           queued == {queue[i] : i \in DOMAIN queue}
           joining == {f \in Unfinished : RowOf[f] \notin relisted} \ queued
           q == queue \o Only(FileSeq, joining)
           st == [f \in Files |-> IF f \in Unfinished /\ f \notin queued THEN "pending" ELSE status[f]]
<1>1. /\ session \in {"interrupted", "leftover"} /\ session' \in {"running", "done"}
      /\ timer' = TRUE /\ refreshing' = refreshing \cup relisted
      /\ DrainFiles(HasStorageToItself, q, delayed, st, attempts, mail)
      /\ UNCHANGED <<compared, refused, check_vars, settled, row, listed, capture, local, faults, budget>>
  BY DEF Continue, Drain
<1>2. ~Live /\ AtRest
  BY <1>1 DEF Live, QueueInv
<1>3. queue = <<>> /\ delayed = {} /\ refreshing = {} /\ queued = {} /\ capture = "idle"
  BY <1>2 DEF AtRest
<1>4. /\ InPlace(queue, delayed, status, attempts, worker, sums, mail)
      /\ row \in Nat /\ row >= 1 /\ row <= NRows + 1
  BY Before
<1>u. Unfinished \subseteq Files /\ (\A f \in Unfinished : status[f] \in {"pending", "downloading", "present"})
      /\ (\A f \in Files \ Unfinished : status[f] \notin {"pending", "downloading", "present"})
  BY DEF Unfinished
<1>5. /\ st \in [Files -> Statuses]
      /\ \A f \in Unfinished : st[f] = "pending"
      /\ \A f \in Files \ Unfinished : st[f] = status[f]
  BY <1>3, <1>4, <1>u DEF InPlace, Statuses
<1>6. /\ joining \subseteq Unfinished
      /\ \A f \in Unfinished : f \in joining \/ RowOf[f] \in relisted
  BY <1>3
<1>7. relisted \subseteq 1 .. row - 1
  <2>1. \A f \in Files : RowOf[f] >= row => status[f] = "none"
    BY DEF QueueInv, RowsInTurn
  <2> SUFFICES ASSUME NEW r \in relisted PROVE r \in 1 .. row - 1
    OBVIOUS
  <2>2. PICK f \in Unfinished : RowOf[f] = r
    OBVIOUS
  <2>3. r \in Nat /\ r >= 1 /\ f \in Files /\ status[f] # "none"
    BY <1>u DEF Rows
  <2> QED
    BY <1>4, <2>1, <2>2, <2>3
<1> HIDE DEF relisted, queued, joining
<1>8. q \in Seq(Files) /\ Elements(q) = joining /\ Distinct(q)
  <2>1. /\ Only(FileSeq, joining) \in Seq(Files) /\ Elements(Only(FileSeq, joining)) = joining
        /\ Distinct(Only(FileSeq, joining))
    BY <1>u, <1>6, AllListed
  <2>2. q = Only(FileSeq, joining)
    BY <1>3, <2>1
  <2> QED
    BY <2>1, <2>2
<1> HIDE DEF q, st
<1>9. \A f \in Files : /\ worker[f] = "none" /\ sums[f] = "none" /\ mail[f] = <<>>
                       /\ attempts[f] <= Retries + restarts
  BY <1>2 DEF AtRest
<1>10. InPlace(q, delayed, st, attempts, worker, sums, mail)
  <2>1. \A f \in Files : Fits(st[f], worker[f], sums[f], mail[f], local[f])
    <3> SUFFICES ASSUME NEW f \in Files PROVE Fits(st[f], worker[f], sums[f], mail[f], local[f])
      OBVIOUS
    <3>1. Fits(status[f], worker[f], sums[f], mail[f], local[f])
      BY <1>4 DEF InPlace
    <3>2. ~Closes(<<>>)
      BY DEF Closes
    <3> QED
      BY <1>5, <1>9, <3>1, <3>2 DEF Fits
  <2>2. InTurn(q, st)
    BY <1>5, <1>6, <1>8 DEF InTurn
  <2>3. Tried(st, attempts, restarts)
    <3>1. attempts \in [Files -> Nat] /\ Retries \in Nat /\ restarts \in Nat
      BY <1>4, QueueAssumption DEF InPlace, QueueInv, TypeOK
    <3> QED
      BY <1>9, <3>1 DEF Tried
  <2> QED
    BY <1>4, <1>5, <1>8, <2>1, <2>2, <2>3 DEF InPlace
<1>11. Looked(q, st, worker, sums, mail, refreshing')
  <2>1. Queued(q, st, refreshing')
    <3> SUFFICES ASSUME NEW f \in Files, st[f] = "pending" PROVE f \in Elements(q) \/ RowOf[f] \in refreshing'
      BY DEF Queued
    <3>1. f \in Unfinished
      BY <1>5, <1>u
    <3> QED
      BY <1>1, <1>6, <1>8, <3>1
  <2>2. \A f \in Files : st[f] \notin {"downloading", "present"}
    BY <1>5, <1>u
  <2>3. \A f \in Files : Tended(st[f], worker[f], sums[f], mail[f])
    BY <2>2 DEF Tended
  <2> QED
    BY <2>1, <2>3 DEF Looked
<1>12. /\ row' = row /\ capture' = "idle" /\ refused' = refused /\ listed' = listed /\ settled' = settled
       /\ faults' = faults /\ presses' = presses
       /\ UNCHANGED <<local, restarts, compared>> /\ UNCHANGED check_vars
  BY <1>1, <1>3 DEF budget
<1>13. /\ row' \in Nat /\ row <= row' /\ row' <= NRows + 1 /\ refused' \subseteq Files /\ listed' \subseteq Rows
       /\ faults' \in 0 .. Faults /\ presses' \in 0 .. OperatorRetries
       /\ refreshing' \subseteq 1 .. row' - 1
  BY <1>1, <1>3, <1>7, <1>12, Before
<1>14. timer' \in BOOLEAN /\ settled' \in BOOLEAN
  BY <1>1, <1>12, Before
<1>15. Live'
  BY <1>1 DEF Live
<1>16. /\ \A f \in Files : RowOf[f] >= row' => st[f] = status[f]
       /\ \A f \in Files : status[f] = "verified" => st[f] = "verified"
       /\ \A f \in Files : status[f] = "failed" /\ presses' = presses => st[f] = "failed"
  <2>1. \A f \in Files : RowOf[f] >= row => status[f] = "none"
    BY DEF QueueInv, RowsInTurn
  <2>2. \A f \in Unfinished : status[f] \notin {"none", "verified", "failed"}
    BY <1>u
  <2> QED
    BY <1>5, <1>12, <2>1, <2>2
<1> QED
  BY <1>1, <1>10, <1>11, <1>12, <1>13, <1>14, <1>15, <1>16, AfterDrain

(* The end of the application leaves what the session file holds. *)
LEMMA Restarted ==
  ASSUME QueueInv, Restart
  PROVE  QueueInv' /\ Final
<1>1. /\ restarts < Restarts /\ restarts' = restarts + 1
      /\ session' = CASE session = "running" -> "interrupted"
                      [] session = "done" /\ Unfinished # {} -> "leftover"
                      [] OTHER -> session
      /\ row' = IF capture = "capturing" THEN row + 1 ELSE row
      /\ worker' = [f \in Files |-> "none"] /\ sums' = [f \in Files |-> "none"]
      /\ mail' = [f \in Files |-> <<>>] /\ sha' = [f \in Files |-> FALSE]
      /\ queue' = <<>> /\ delayed' = {} /\ refused' = {} /\ refreshing' = {} /\ checkQueue' = <<>>
      /\ timer' = FALSE /\ settled' = FALSE /\ capture' = "idle"
      /\ UNCHANGED <<status, attempts, compared, listed, quality, local, faults, presses>>
  BY DEF Restart
<1>2. TypeOK /\ RowsInTurn /\ Compared /\ InPlace(queue, delayed, status, attempts, worker, sums, mail)
  BY DEF QueueInv
<1>3. /\ restarts \in Nat /\ Retries \in Nat /\ Restarts \in Nat /\ restarts' \in Nat /\ restarts' <= Restarts
      /\ attempts \in [Files -> Nat] /\ \A f \in Files : attempts[f] <= Retries + restarts'
  <2>1. restarts \in Nat /\ Retries \in Nat /\ Restarts \in Nat /\ attempts \in [Files -> Nat]
    BY <1>2, QueueAssumption DEF TypeOK, InPlace
  <2>2. restarts' \in Nat /\ restarts' <= Restarts
    BY <1>1, <2>1
  <2>3. ASSUME NEW f \in Files PROVE attempts[f] <= Retries + restarts'
    <3>1. attempts[f] <= Retries + restarts + (IF status[f] \in {"none", "pending"} THEN 0 ELSE 1)
      BY <1>2 DEF InPlace, Tried
    <3>2. attempts[f] \in Nat
      BY <2>1
    <3> QED
      BY <1>1, <2>1, <3>1, <3>2
  <2> QED
    BY <2>1, <2>2, <2>3
<1>4. /\ row' \in 1 .. NRows + 1 /\ row \in Nat /\ row <= row'
  BY <1>1, Before, QueueAssumption
<1>5. session' \in {"running", "done", "interrupted", "leftover"} /\ session' # "running"
      /\ (session' = "done" => Unfinished = {})
  <2>1. session \in {"running", "done", "interrupted", "leftover"}
    BY Before
  <2>2. CASE session = "running"
    BY <1>1, <2>2
  <2>3. CASE session = "done"
    BY <1>1, <2>3
  <2>4. CASE session \in {"interrupted", "leftover"}
    BY <1>1, <2>4
  <2> QED
    BY <2>1, <2>2, <2>3, <2>4
<1>6. TypeOK'
  <2>1. /\ queue' \in Seq(Files) /\ delayed' \subseteq Files /\ refused' \subseteq Files
        /\ refreshing' \subseteq Rows /\ checkQueue' \in Seq(Rows)
    BY <1>1
  <2>2. /\ worker' \in [Files -> {"none", "connecting", "transferring"}]
        /\ sums' \in [Files -> {"none", "asking", "hashing"}]
        /\ mail' \in [Files -> Seq(Signals)]
    <3>1. <<>> \in Seq(Signals)
      OBVIOUS
    <3> QED
      BY <1>1, <3>1
  <2>3. sha' \in [Files -> BOOLEAN] /\ timer' \in BOOLEAN /\ settled' \in BOOLEAN
    BY <1>1
  <2>4. restarts' \in 0 .. Restarts
    BY <1>3
  <2> QED
    BY <1>1, <1>2, <1>4, <1>5, <2>1, <2>2, <2>3, <2>4 DEF TypeOK
<1>7. InPlace(queue, delayed, status, attempts, worker, sums, mail)'
  <2>1. \A f \in Files : Fits(status'[f], worker'[f], sums'[f], mail'[f], local'[f])
    <3> SUFFICES ASSUME NEW f \in Files PROVE Fits(status[f], "none", "none", <<>>, local[f])
      BY <1>1
    <3>1. Fits(status[f], worker[f], sums[f], mail[f], local[f])
      BY <1>2 DEF InPlace
    <3>2. LastWords(<<>>) /\ ~Closes(<<>>) /\ ~Hashed(<<>>)
      BY DEF LastWords, Closes, Hashed
    <3> QED
      BY <3>1, <3>2 DEF Fits
  <2>2. InTurn(queue', status')
    BY <1>1 DEF InTurn, Distinct, Elements
  <2>3. Tried(status', attempts', restarts')
    <3>1. \A f \in Files : attempts'[f] \in Nat /\ attempts'[f] <= Retries + restarts'
      BY <1>1, <1>3
    <3> QED
      BY <1>3, <3>1 DEF Tried
  <2> QED
    BY <1>1, <1>3, <1>6, <2>1, <2>2, <2>3 DEF InPlace, TypeOK
<1>8. RowsInTurn'
  <2>1. \A f \in Files : RowOf[f] \in Nat
    BY QueueAssumption DEF Rows
  <2> QED
    BY <1>1, <1>2, <1>4, <2>1 DEF RowsInTurn
<1>9. Compared'
  BY <1>1, <1>2 DEF Compared
<1>10. Live' => Looked(queue, status, worker, sums, mail, refreshing)'
  <2> SUFFICES ASSUME Live' PROVE Looked(queue, status, worker, sums, mail, refreshing)'
    OBVIOUS
  <2>1. \A f \in Files : status'[f] \notin {"pending", "downloading", "present"}
    BY <1>1, <1>5 DEF Live, Unfinished
  <2>2. Queued(queue', status', refreshing')
    BY <2>1 DEF Queued
  <2>3. \A f \in Files : Tended(status'[f], worker'[f], sums'[f], mail'[f])
    BY <2>1 DEF Tended
  <2> QED
    BY <2>2, <2>3 DEF Looked
<1>11. AtRest'
  BY <1>1, <1>3 DEF AtRest
<1>12. Final
  BY <1>1 DEF Final
<1> QED
  BY <1>6, <1>7, <1>8, <1>9, <1>10, <1>11, <1>12 DEF QueueInv

-----------------------------------------------------------------------------
LEMMA QueueInvInit ==
  ASSUME Init
  PROVE  QueueInv
<1>1. TypeOK
  <2>1. /\ Retries \in Nat /\ Restarts \in Nat /\ Faults \in Nat /\ OperatorRetries \in Nat /\ NRows \in Nat
        /\ 0 \in 0 .. Retries + 1 + Restarts
    BY QueueAssumption
  <2>2. <<>> \in Seq(Files) /\ <<>> \in Seq(Rows) /\ <<>> \in Seq(Signals)
    OBVIOUS
  <2>3. attempts \in [Files -> 0 .. (Retries + 1 + Restarts)] /\ row \in 1 .. (NRows + 1)
        /\ faults \in 0 .. Faults /\ restarts \in 0 .. Restarts /\ presses \in 0 .. OperatorRetries
    BY <2>1 DEF Init
  <2>4. sha \in [Files -> BOOLEAN] /\ timer \in BOOLEAN /\ settled \in BOOLEAN
    BY DEF Init
  <2>5. mail \in [Files -> Seq(Signals)] /\ queue \in Seq(Files) /\ checkQueue \in Seq(Rows)
    BY <2>2 DEF Init
  <2>6. /\ status \in [Files -> Statuses] /\ quality \in [Rows -> {"none", "pending", "done"}]
        /\ worker \in [Files -> {"none", "connecting", "transferring"}]
        /\ sums \in [Files -> {"none", "asking", "hashing"}]
        /\ local \in [Files -> {"absent", "good", "torn", "corrupt"}]
    BY DEF Init, Statuses
  <2>7. /\ compared \subseteq Files /\ delayed \subseteq Files /\ refused \subseteq Files
        /\ refreshing \subseteq Rows /\ listed \subseteq Rows
        /\ session \in {"running", "done", "interrupted", "leftover"}
        /\ capture \in {"idle", "settling", "checking", "capturing"}
    BY DEF Init
  <2> QED
    BY <2>3, <2>4, <2>5, <2>6, <2>7 DEF TypeOK
<1>2. \A f \in Files : /\ status[f] = "none" /\ worker[f] = "none" /\ sums[f] = "none" /\ mail[f] = <<>>
                       /\ attempts[f] = 0
  BY DEF Init
<1>3. InPlace(queue, delayed, status, attempts, worker, sums, mail)
  <2>1. LastWords(<<>>) /\ ~Closes(<<>>) /\ ~Hashed(<<>>)
    BY DEF LastWords, Closes, Hashed
  <2>2. \A f \in Files : Fits(status[f], worker[f], sums[f], mail[f], local[f])
    BY <1>2, <2>1 DEF Fits
  <2>3. InTurn(queue, status)
    BY DEF Init, InTurn, Distinct, Elements
  <2>4. Tried(status, attempts, restarts)
    BY <1>2, QueueAssumption DEF Init, Tried
  <2>5. attempts \in [Files -> Nat]
    BY DEF Init
  <2> QED
    BY <1>1, <2>2, <2>3, <2>4, <2>5 DEF InPlace, TypeOK
<1>4. RowsInTurn /\ Compared
  BY <1>2 DEF Init, RowsInTurn, Compared
<1>5. Live /\ Looked(queue, status, worker, sums, mail, refreshing)
  BY <1>2 DEF Init, Live, Looked, Queued, Tended
<1> QED
  BY <1>1, <1>3, <1>4, <1>5 DEF QueueInv

LEMMA QueueInvStep ==
  ASSUME QueueInv, ContinuesFirst, [Next]_vars
  PROVE  QueueInv' /\ Final
<1>1. CASE StartNextTask \/ FinishSession \/ StorageSettled \/ CheckQuality \/ UNCHANGED vars
  BY <1>1, Captures
<1>2. ASSUME NEW ok \in BOOLEAN, SensorIdle(ok) PROVE QueueInv' /\ Final
  BY <1>2, Captures
<1>3. ASSUME NEW c \in BOOLEAN, CaptureFinished(c) PROVE QueueInv' /\ Final
  BY <1>3, CaptureOver
<1>4. ASSUME NEW r \in Rows, NEW ok \in BOOLEAN, FilesListed(r, ok) PROVE QueueInv' /\ Final
  BY <1>4, Listed
<1>5. CASE Tick
  BY <1>5, Ticks
<1>6. ASSUME NEW f \in Files, RetryDelayOver(f) PROVE QueueInv' /\ Final
  BY <1>6, Ticks
<1>7. ASSUME NEW f \in Files, Deliver(f) PROVE QueueInv' /\ Final
  BY <1>7, Words, Unreachable, Failed, Finished, ChecksumDone, ThreadFinished DEF Deliver
<1>8. ASSUME NEW f \in Files, Worker(f) PROVE QueueInv' /\ Final
  BY <1>8, Workers
<1>9. CASE RetryDownloads
  BY <1>9, Retried
<1>10. CASE Restart
  BY <1>10, Restarted
<1>11. CASE Continue
  BY <1>11, Continued
<1> QED
  BY <1>1, <1>2, <1>3, <1>4, <1>5, <1>6, <1>7, <1>8, <1>9, <1>10, <1>11 DEF Next

(* A file waits once. *)
LEMMA WaitsOnce ==
  ASSUME QueueInv, NEW f \in Files
  PROVE  Waits(f) = IF f \in Elements(queue) THEN 1 ELSE 0
<1>1. queue \in Seq(Files) /\ DOMAIN queue = 1 .. Len(queue) /\ Distinct(queue)
  BY DEF QueueInv, InPlace, InTurn
<1> DEFINE places == {i \in DOMAIN queue : queue[i] = f}
<1>2. CASE f \in Elements(queue)
  <2>1. PICK i \in 1 .. Len(queue) : queue[i] = f
    BY <1>2 DEF Elements
  <2>2. places = {i}
    BY <1>1, <2>1 DEF Distinct
  <2>3. Cardinality({i}) = 1
    BY FS_Singleton
  <2> QED
    BY <1>2, <2>2, <2>3 DEF Waits
<1>3. CASE f \notin Elements(queue)
  <2>1. places = {}
    BY <1>1, <1>3 DEF Elements
  <2>2. Cardinality({}) = 0
    BY FS_EmptySet
  <2> QED
    BY <1>3, <2>1, <2>2 DEF Waits
<1> QED
  BY <1>2, <1>3

LEMMA QueueIsSafe ==
  ASSUME QueueInv
  PROVE  DownloadsAreSafe
<1>1. TypeOK
  BY DEF QueueInv
<1>2. ASSUME NEW f \in Files
      PROVE  /\ Waits(f) <= 1
             /\ Waits(f) = 1 => status[f] = "pending"
             /\ session \in {"running", "done"} =>
                  CASE status[f] = "pending" -> Waits(f) = 1 \/ RowOf[f] \in refreshing
                    [] status[f] = "downloading" -> f \in Active(worker, mail)
                    [] status[f] = "present" -> sums[f] # "none"
                    [] OTHER -> TRUE
             /\ worker[f] # "none" => status[f] = "downloading" /\ Waits(f) = 0
             /\ status[f] = "verified" => local[f] \in {"good", "corrupt"}
             /\ f \in compared => local[f] = "good"
  <2>1. Waits(f) = IF f \in Elements(queue) THEN 1 ELSE 0
    BY <1>2, WaitsOnce
  <2>2. /\ mail[f] \in Seq(Signals)
        /\ Fits(status[f], worker[f], sums[f], mail[f], local[f])
        /\ (f \in Elements(queue) => status[f] = "pending")
        /\ f \in compared => status[f] = "verified" /\ local[f] = "good"
        /\ Live => Tended(status[f], worker[f], sums[f], mail[f])
        /\ worker[f] # "none" => status[f] = "downloading" /\ sums[f] = "none"
    BY <1>2, FileFacts
  <2>3. Waits(f) <= 1 /\ (Waits(f) = 1 <=> f \in Elements(queue)) /\ (Waits(f) = 0 <=> f \notin Elements(queue))
    BY <2>1
  <2>4. status[f] = "verified" => local[f] \in {"good", "corrupt"}
    BY <2>2 DEF Fits, Whole
  <2>5. session \in {"running", "done"} <=> Live
    BY DEF Live
  <2>6. Live /\ status[f] = "pending" => Waits(f) = 1 \/ RowOf[f] \in refreshing
    BY <1>2, <2>3 DEF QueueInv, Looked, Queued
  <2>7. Live /\ status[f] = "downloading" => f \in Active(worker, mail)
    <3> SUFFICES ASSUME Live, status[f] = "downloading" PROVE f \in Active(worker, mail)
      OBVIOUS
    <3>1. CASE worker[f] # "none"
      <4>1. <<f, 0>> \in Threads(worker, mail)
        BY <3>1 DEF Threads
      <4>2. <<f, 0>>[1] = f
        OBVIOUS
      <4> QED
        BY <4>1, <4>2 DEF Active
    <3>2. CASE Closes(mail[f])
      <4> DEFINE n == Len(mail[f])
      <4>1. n \in DOMAIN mail[f] /\ mail[f][n] = "ended"
        BY <2>2, <3>2 DEF Closes
      <4> HIDE DEF n
      <4>2. <<f, n>> \in Threads(worker, mail)
        BY <4>1 DEF Threads
      <4>3. <<f, n>>[1] = f
        OBVIOUS
      <4> QED
        BY <4>2, <4>3 DEF Active
    <3> QED
      BY <2>2, <3>1, <3>2 DEF Tended
  <2>8. Live /\ status[f] = "present" => sums[f] # "none"
    BY <2>2 DEF Tended
  <2>9. session \in {"running", "done"} =>
                  CASE status[f] = "pending" -> Waits(f) = 1 \/ RowOf[f] \in refreshing
                    [] status[f] = "downloading" -> f \in Active(worker, mail)
                    [] status[f] = "present" -> sums[f] # "none"
                    [] OTHER -> TRUE
    BY <2>5, <2>6, <2>7, <2>8
  <2>10. worker[f] # "none" => status[f] = "downloading" /\ Waits(f) = 0
    BY <2>2, <2>3
  <2> QED
    BY <2>2, <2>3, <2>4, <2>9, <2>10
<1>3. NoFileForgotten
  BY <1>2 DEF NoFileForgotten
<1>4. WriterOwnsFile
  BY <1>2 DEF WriterOwnsFile
<1>5. VerifiedIsWhole
  BY <1>2 DEF VerifiedIsWhole
<1> QED
  BY <1>1, <1>3, <1>4, <1>5 DEF DownloadsAreSafe

(* Whatever fails, and however often the application ends: every file of a recording that waits is
   in the queue, once, or on a row still being listed; one that is downloaded has a worker or an
   unread signal of one; a copy that is checked has its checksum worker; a file that a worker
   writes is not queued for another; and one called verified has a whole copy, with the sensor's
   own bytes wherever the two digests were compared.                                            *)
THEOREM DownloadsSafe == ASSUME ContinuesFirst PROVE Spec => []DownloadsAreSafe
<1>1. Init => QueueInv
  BY QueueInvInit
<1>2. ContinuesFirst /\ QueueInv /\ [Next]_vars => QueueInv'
  BY QueueInvStep
<1>3. QueueInv => DownloadsAreSafe
  BY QueueIsSafe
<1>4. []ContinuesFirst
  <2>1. ContinuesFirst
    OBVIOUS
  <2> QED
    BY <2>1, PTL
<1> QED
  BY <1>1, <1>2, <1>3, <1>4, PTL DEF Spec

(* A verified copy is never replaced nor taken back to another status, and a file given up after
   its retries is tried again only when the operator asks (_drain_downloads, the handlers of the
   workers' signals, resume_after_restart).                                                     *)
THEOREM VerifiedFinal == ASSUME ContinuesFirst PROVE Spec => VerifiedIsFinal
<1>1. Init => QueueInv
  BY QueueInvInit
<1>2. ContinuesFirst /\ QueueInv /\ [Next]_vars => QueueInv'
  BY QueueInvStep
<1>3. ContinuesFirst /\ QueueInv /\ [Next]_vars =>
        [\A f \in Files :
           /\ status[f] = "verified" => status'[f] = "verified" /\ local'[f] = local[f]
           /\ status[f] = "failed" /\ presses' = presses => status'[f] = "failed"]_vars
  BY QueueInvStep DEF Final
<1>4. []ContinuesFirst
  <2>1. ContinuesFirst
    OBVIOUS
  <2> QED
    BY <2>1, PTL
<1> QED
  BY <1>1, <1>2, <1>3, <1>4, PTL DEF Spec, VerifiedIsFinal
=============================================================================
