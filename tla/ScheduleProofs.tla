---------------------------- MODULE ScheduleProofs ----------------------------
(***************************************************************************)
(* Theorems about what a collection keeps over days and restarts.          *)
(*                                                                         *)
(*   PassesScheduled  the passes are those that were listed, each at its   *)
(*                    time or at the operator's word (PassSchedule), for   *)
(*                    any schedules, time zones, interruptions, horizon    *)
(*                    and grace;                                           *)
(*   StoreSound       a state file that is written over and over is read   *)
(*                    as the old or the new document (JsonStore), for      *)
(*                    every number of documents and of attempts.           *)
(***************************************************************************)
EXTENDS PassSchedule, JsonStore, FiniteSetTheorems, WellFoundedInduction, TLAPS

(* The times listed for the days from c on, as far as the calendar was read on day e. *)
DaysFrom(s, c, e) == {d \in c .. e + Horizon : s.until = 0 \/ d <= s.until}
ListedFrom(s, c, e) == IF s.daily THEN On(s, DaysFrom(s, c, e)) ELSE On(s, s.dates)

Statuses(rs) == rs \in [DOMAIN rs -> PassStatuses] /\ DOMAIN rs \subseteq Nat /\ IsFiniteSet(DOMAIN rs)

(* The pass that is under way is known as such, and every pass whose status was judged has come up. *)
Judged(rs, pass) ==
  /\ Statuses(rs)
  /\ pass # Nobody => pass \in DOMAIN rs /\ rs[pass] = "running"
  /\ \A t \in DOMAIN rs : rs[t] # "pending" => t <= now

CalendarRead ==
  stage # "none" =>
    /\ created \in Nat /\ extended \in Nat /\ created <= extended /\ extended <= Today(schedule, now)
    /\ ~lapsed => DOMAIN passes = Capped(schedule, ListedFrom(schedule, created, extended))

ScheduleInv ==
  /\ schedule \in Schedules /\ now \in Nat
  /\ stage \in {"none", "active", "held", "closed", "interrupted", "done"}
  /\ Judged(passes, under_way)
  /\ CalendarRead
  /\ strayed = {}
  /\ stage = "done" => \A t \in DOMAIN passes : t <= now

-----------------------------------------------------------------------------
LEMMA Sizes ==
  DayLength \in Nat \ {0} /\ Horizon \in Nat \ {0} /\ LastTick \in Nat \ {0} /\ MissedAfter \in Nat
BY ScheduleAssumption

LEMMA OfSchedule ==
  ASSUME NEW s \in Schedules
  PROVE  /\ s.times \in SUBSET (0 .. DayLength - 1) /\ s.daily \in BOOLEAN
         /\ s.dates \in SUBSET Nat /\ IsFiniteSet(s.dates)
         /\ s.until \in Nat /\ s.repeat \in Nat
         /\ s.zone.change \in Nat /\ s.zone.shift \in Int /\ s.zone.shift <= s.zone.change
BY ScheduleAssumption

(* Nonempty sets of naturals have a least element, bounded ones a greatest. *)
LEMMA LeastExists ==
  ASSUME NEW S \in SUBSET Nat, S # {}
  PROVE  \E i \in S : \A j \in S : i <= j
<1> DEFINE R == {ss \in Nat \X Nat : ss[1] < ss[2]}
<1>1. IsWellFoundedOn(R, Nat)
  BY NatLessThanWellFounded DEF OpToRel
<1>2. PICK i \in S : \A j \in S : <<j, i>> \notin R
  BY <1>1, WFMin, Zenon
<1>3. \A j \in S : ~(j < i)
  BY <1>2
<1> QED
  BY <1>3

LEMMA GreatestExists ==
  ASSUME NEW n \in Nat, NEW S \in SUBSET (0 .. n), S # {}
  PROVE  \E i \in S : \A j \in S : j <= i
<1> DEFINE T == {n - i : i \in S}
<1>0. \A i \in S : n - i \in Nat
  OBVIOUS
<1>1. T \in SUBSET Nat /\ T # {}
  BY <1>0
<1>2. PICK k \in T : \A l \in T : k <= l
  BY <1>1, LeastExists
<1>3. PICK i \in S : k = n - i
  OBVIOUS
<1>4. \A j \in S : j <= i
  BY <1>2, <1>3
<1> QED
  BY <1>4

(* The first day of later ticks is no earlier. *)
LEMMA DivGrows ==
  ASSUME NEW a \in Nat, NEW b \in Nat, NEW d \in Nat \ {0}, a <= b
  PROVE  a \div d \in Nat /\ a \div d <= b \div d
<1> DEFINE p == a \div d
           q == b \div d
<1>1. p \in Int /\ q \in Int /\ a = d * p + (a % d) /\ b = d * q + (b % d) /\ a % d \in 0 .. d - 1 /\ b % d \in 0 .. d - 1
  OBVIOUS
<1>2. p \in Nat
  OBVIOUS
<1> HIDE DEF p, q
<1>3. ASSUME q < p PROVE FALSE
  <2>1. p - q - 1 \in Nat
    BY <1>1, <1>3
  <2>2. d * (p - q - 1) \in Nat
    BY <2>1
  <2>3. d * (p - q - 1) = d * p - d * q - d
    BY <1>1
  <2> QED
    BY <1>1, <2>2, <2>3
<1> QED
  BY <1>1, <1>2, <1>3 DEF p, q

LEMMA LocalizedNat ==
  ASSUME NEW s \in Schedules, NEW w \in Nat
  PROVE  Localized(s, w) \in Nat /\ Localized(s, 0) = 0
BY OfSchedule DEF Localized

LEMMA WallRead ==
  ASSUME NEW s \in Schedules, NEW u \in Nat
  PROVE  /\ WallAt(s, u) \in 0 .. LastTick + DayLength /\ Localized(s, WallAt(s, u)) <= u
         /\ \A v \in WallAt(s, u) + 1 .. LastTick + DayLength : Localized(s, v) > u
<1> DEFINE M == LastTick + DayLength
           S == {w \in 0 .. M : Localized(s, w) <= u}
<1>1. M \in Nat
  BY Sizes
<1>2. \A w \in 0 .. M : Localized(s, w) \in Nat
  BY <1>1, LocalizedNat
<1>3. 0 \in S
  BY <1>1, LocalizedNat
<1> HIDE DEF M
<1>4. PICK w \in S : \A v \in S : v <= w
  BY <1>1, <1>3, GreatestExists
<1>5. \A v \in w + 1 .. M : Localized(s, v) > u
  BY <1>1, <1>2, <1>4
<1>6. \E x \in 0 .. M : Localized(s, x) <= u /\ \A v \in x + 1 .. M : Localized(s, v) > u
  BY <1>5
<1> QED
  BY <1>6 DEF WallAt, M

LEMMA TodayGrows ==
  ASSUME NEW s \in Schedules, NEW a \in Nat, NEW b \in Nat, a <= b
  PROVE  Today(s, a) \in Nat /\ Today(s, a) <= Today(s, b)
<1> DEFINE M == LastTick + DayLength
           v == WallAt(s, a)
           w == WallAt(s, b)
<1>1. M \in Nat /\ DayLength \in Nat \ {0}
  BY Sizes
<1>2. /\ v \in 0 .. M /\ Localized(s, v) <= a
      /\ w \in 0 .. M /\ \A x \in w + 1 .. M : Localized(s, x) > b
  BY WallRead
<1> HIDE DEF v, w, M
<1>3. Localized(s, v) \in Nat
  BY <1>1, <1>2, LocalizedNat
<1>4. v <= w
  BY <1>1, <1>2, <1>3
<1>5. v \in Nat /\ w \in Nat
  BY <1>1, <1>2
<1>6. v \div DayLength \in Nat /\ v \div DayLength <= w \div DayLength
  BY <1>1, <1>4, <1>5, DivGrows
<1> QED
  BY <1>6 DEF Today, v, w
-----------------------------------------------------------------------------
(* The listed times are naturals, and those of the days of two sets are those of both. *)
LEMMA OnDays ==
  ASSUME NEW s \in Schedules, NEW A \in SUBSET Nat
  PROVE  /\ On(s, A) \in SUBSET Nat
         /\ \A B \in SUBSET Nat : On(s, A \cup B) = On(s, A) \cup On(s, B)
<1>1. \A d \in A, t \in s.times : Localized(s, d * DayLength + t) \in Nat
  <2> TAKE d \in A, t \in s.times
  <2>1. d * DayLength + t \in Nat
    <3>1. d \in Nat /\ DayLength \in Nat /\ t \in Nat
      BY Sizes, OfSchedule
    <3>2. d * DayLength \in Nat
      BY <3>1
    <3> QED
      BY <3>1, <3>2
  <2> QED
    BY <2>1, LocalizedNat
<1>2. On(s, A) \in SUBSET Nat
  BY <1>1 DEF On
<1>3. \A x, D : x \in On(s, D) <=> \E d \in D, t \in s.times : x = Localized(s, d * DayLength + t)
  BY DEF On
<1>4. \A B : On(s, A \cup B) = On(s, A) \cup On(s, B)
  <2> TAKE B
  <2>1. \A x : x \in On(s, A \cup B) <=> x \in On(s, A) \/ x \in On(s, B)
    <3>1. /\ \A x : x \in On(s, A) <=> \E d \in A, t \in s.times : x = Localized(s, d * DayLength + t)
          /\ \A x : x \in On(s, B) <=> \E d \in B, t \in s.times : x = Localized(s, d * DayLength + t)
          /\ \A x : x \in On(s, A \cup B) <=> \E d \in A \cup B, t \in s.times : x = Localized(s, d * DayLength + t)
      BY <1>3, Zenon
    <3> QED
      BY <3>1, Zenon
  <2> QED
    BY <2>1, Zenon
<1> QED
  BY <1>2, <1>4

LEMMA OnFinite ==
  ASSUME NEW s \in Schedules, NEW A \in SUBSET Nat, IsFiniteSet(A)
  PROVE  IsFiniteSet(On(s, A))
<1> DEFINE P == A \X s.times
           f == [x \in P |-> Localized(s, x[1] * DayLength + x[2])]
           T == On(s, A)
<1>1. IsFiniteSet(s.times)
  <2>1. s.times \in SUBSET (0 .. DayLength - 1) /\ IsFiniteSet(0 .. DayLength - 1)
    BY OfSchedule, Sizes, FS_Interval
  <2> QED
    BY <2>1, FS_Subset
<1>2. IsFiniteSet(P)
  BY <1>1, FS_Product
<1>3. f \in Surjection(P, T)
  <2>1. \A x \in P : x[1] \in A /\ x[2] \in s.times /\ f[x] = Localized(s, x[1] * DayLength + x[2])
    OBVIOUS
  <2>2. \A d \in A, t \in s.times : <<d, t>> \in P /\ f[<<d, t>>] = Localized(s, d * DayLength + t)
    OBVIOUS
  <2>3. \A y : y \in T <=> \E d \in A, t \in s.times : y = Localized(s, d * DayLength + t)
    BY DEF On
  <2>4. DOMAIN f = P /\ f = [x \in P |-> f[x]]
    OBVIOUS
  <2> HIDE DEF f, P, T
  <2>5. \A x \in P : f[x] \in T
    BY <2>1, <2>3
  <2>6. \A y \in T : \E x \in P : f[x] = y
    <3> TAKE y \in T
    <3>1. PICK d \in A, t \in s.times : y = Localized(s, d * DayLength + t)
      BY <2>3, Zenon
    <3>2. <<d, t>> \in P /\ f[<<d, t>>] = y
      BY <2>2, <3>1, Zenon
    <3> QED
      BY <3>2, Zenon
  <2>7. f \in [P -> T]
    BY <2>4, <2>5
  <2> QED
    BY <2>6, <2>7 DEF Surjection
<1> HIDE DEF f, P, T
<1>4. IsFiniteSet(T)
  BY <1>2, <1>3, FS_Surjection
<1> QED
  BY <1>4 DEF T

LEMMA DaysFinite ==
  ASSUME NEW s \in Schedules, NEW c \in Nat, NEW e \in Nat
  PROVE  DaysFrom(s, c, e) \in SUBSET Nat /\ IsFiniteSet(DaysFrom(s, c, e))
<1>1. e + Horizon \in Int /\ c .. e + Horizon \in SUBSET Nat
  BY Sizes
<1>2. IsFiniteSet(c .. e + Horizon)
  BY <1>1, FS_Interval
<1>3. DaysFrom(s, c, e) \in SUBSET (c .. e + Horizon)
  BY DEF DaysFrom
<1> QED
  BY <1>1, <1>2, <1>3, FS_Subset

LEMMA ListedFinite ==
  ASSUME NEW s \in Schedules, NEW c \in Nat, NEW e \in Nat
  PROVE  ListedFrom(s, c, e) \in SUBSET Nat /\ IsFiniteSet(ListedFrom(s, c, e))
<1>1. DaysFrom(s, c, e) \in SUBSET Nat /\ IsFiniteSet(DaysFrom(s, c, e)) /\ s.dates \in SUBSET Nat /\ IsFiniteSet(s.dates)
  BY DaysFinite, OfSchedule
<1> QED
  BY <1>1, OnDays, OnFinite DEF ListedFrom

(* What is planned on a day is what is listed from that day on. *)
LEMMA PlannedListed ==
  ASSUME NEW s \in Schedules, NEW at \in Nat
  PROVE  Planned(s, at) = ListedFrom(s, Today(s, at), Today(s, at))
BY DEF Planned, DaysPlanned, ListedFrom, DaysFrom

-----------------------------------------------------------------------------
(* How many of S come before t *)
Before(t, S) == {u \in S : u < t}

LEMMA BeforeCounts ==
  ASSUME NEW A \in SUBSET Nat, NEW B \in SUBSET Nat, IsFiniteSet(B), A \subseteq B, NEW t, NEW u, Before(t, A) \subseteq Before(u, B)
  PROVE  /\ Cardinality(Before(t, A)) \in Nat /\ Cardinality(Before(u, B)) \in Nat
         /\ Cardinality(Before(t, A)) <= Cardinality(Before(u, B))
<1>1. Before(u, B) \in SUBSET B
  BY DEF Before
<1>2. IsFiniteSet(Before(u, B))
  BY <1>1, FS_Subset
<1>3. Before(t, A) \in SUBSET Before(u, B)
  OBVIOUS
<1>4. IsFiniteSet(Before(t, A)) /\ Cardinality(Before(t, A)) <= Cardinality(Before(u, B))
  BY <1>2, <1>3, FS_Subset
<1> QED
  BY <1>2, <1>4, FS_CardinalityType

LEMMA FirstIs ==
  ASSUME NEW n, NEW S
  PROVE  First(n, S) = {t \in S : Cardinality(Before(t, S)) < n}
BY DEF First, Before

(* If u of A is not among the first n, then these are n at least, and all come before u. *)
LEMMA FirstFilled ==
  ASSUME NEW n \in Nat, NEW A \in SUBSET Nat, IsFiniteSet(A), NEW u \in A \ First(n, A)
  PROVE  /\ First(n, A) \subseteq Before(u, A)
         /\ Cardinality(First(n, A)) \in Nat /\ Cardinality(First(n, A)) >= n
<1>0. \A t, v : Before(t, A) \subseteq Before(v, A) =>
        /\ Cardinality(Before(t, A)) \in Nat /\ Cardinality(Before(v, A)) \in Nat
        /\ Cardinality(Before(t, A)) <= Cardinality(Before(v, A))
  BY BeforeCounts
<1>1. \A t \in A : Cardinality(Before(t, A)) \in Nat
  BY <1>0
<1>2. \A t \in A : t \in First(n, A) <=> Cardinality(Before(t, A)) < n
  BY FirstIs
<1>3. First(n, A) \subseteq Before(u, A)
  <2> SUFFICES ASSUME NEW v \in First(n, A) PROVE v \in A /\ v < u
    BY DEF Before
  <2>1. v \in A
    BY FirstIs
  <2>2. ASSUME v >= u PROVE FALSE
    <3>0. \A x \in A : x < u => x < v
      BY <2>1, <2>2
    <3>1. Before(u, A) \subseteq Before(v, A)
      BY <3>0 DEF Before
    <3>2. Cardinality(Before(u, A)) <= Cardinality(Before(v, A))
      BY <3>1, <1>0
    <3> QED
      BY <1>1, <1>2, <2>1, <3>2
  <2> QED
    BY <2>1, <2>2
<1> DEFINE W == {t \in A : Cardinality(Before(t, A)) >= n}
<1>4. W \in SUBSET Nat /\ u \in W
  <2>1. u \in A /\ ~(Cardinality(Before(u, A)) < n) /\ Cardinality(Before(u, A)) \in Nat
    BY <1>1, <1>2
  <2>2. Cardinality(Before(u, A)) >= n
    BY <2>1
  <2> QED
    BY <2>1, <2>2
<1>5. PICK w \in W : \A v \in W : w <= v
  BY <1>4, LeastExists
<1>6. Before(w, A) \subseteq First(n, A)
  <2> SUFFICES ASSUME NEW v \in Before(w, A) PROVE v \in First(n, A)
    OBVIOUS
  <2>1. v \in A /\ v < w
    BY DEF Before
  <2>2. v \notin W
    BY <1>5, <2>1
  <2> QED
    BY <1>1, <1>2, <2>1, <2>2
<1>7. First(n, A) \in SUBSET A
  BY FirstIs
<1>8. IsFiniteSet(First(n, A))
  BY <1>7, FS_Subset
<1>9. Before(w, A) \in SUBSET First(n, A)
  BY <1>6
<1>10. Cardinality(Before(w, A)) <= Cardinality(First(n, A))
  BY <1>8, <1>9, FS_Subset
<1>11. Cardinality(First(n, A)) \in Nat
  BY <1>8, FS_CardinalityType
<1>12. Cardinality(Before(w, A)) >= n
  OBVIOUS
<1> QED
  BY <1>1, <1>3, <1>10, <1>11, <1>12

(* The first n of A, with B, have the same first n as A with B. *)
LEMMA FirstAgain ==
  ASSUME NEW n \in Nat, NEW A \in SUBSET Nat, NEW B \in SUBSET Nat, IsFiniteSet(A), IsFiniteSet(B)
  PROVE  First(n, First(n, A) \cup B) = First(n, A \cup B)
<1> DEFINE F == First(n, A)
           S == F \cup B
           U == A \cup B
<1>1. F \subseteq A
  BY FirstIs
<1>2. IsFiniteSet(U) /\ U \in SUBSET Nat /\ S \in SUBSET Nat /\ S \subseteq U /\ A \subseteq U
  BY <1>1, FS_Union
<1>3. IsFiniteSet(S)
  <2>1. S \in SUBSET U
    BY <1>2
  <2> QED
    BY <1>2, <2>1, FS_Subset
<1>4. ASSUME NEW t \in First(n, U) PROVE t \in First(n, S)
  <2>1. t \in U /\ Cardinality(Before(t, U)) < n
    BY <1>4, FirstIs
  <2>2. t \in S
    <3>1. CASE t \in A
      <4>1. Before(t, A) \subseteq Before(t, U)
        BY DEF Before
      <4>2. /\ Cardinality(Before(t, A)) \in Nat /\ Cardinality(Before(t, U)) \in Nat
            /\ Cardinality(Before(t, A)) <= Cardinality(Before(t, U))
        BY <1>2, <4>1, BeforeCounts
      <4>3. Cardinality(Before(t, A)) < n
        BY <2>1, <4>2
      <4>4. t \in F
        BY <3>1, <4>3, FirstIs
      <4> QED
        BY <4>4
    <3>2. CASE t \in B
      BY <3>2
    <3> QED
      BY <2>1, <3>1, <3>2
  <2>3. Before(t, S) \subseteq Before(t, U)
    BY <1>2 DEF Before
  <2>4. /\ Cardinality(Before(t, S)) \in Nat /\ Cardinality(Before(t, U)) \in Nat
        /\ Cardinality(Before(t, S)) <= Cardinality(Before(t, U))
    BY <1>2, <2>3, BeforeCounts
  <2>5. Cardinality(Before(t, S)) < n
    BY <2>1, <2>4
  <2> QED
    BY <2>2, <2>5, FirstIs
<1>5. ASSUME NEW t \in First(n, S) PROVE t \in First(n, U)
  <2>1. t \in S /\ Cardinality(Before(t, S)) < n
    BY <1>5, FirstIs
  <2>2. ASSUME NEW u \in A, u < t, u \notin F PROVE FALSE
    <3>1. F \subseteq Before(u, A) /\ Cardinality(F) \in Nat /\ Cardinality(F) >= n
      BY <2>2, FirstFilled
    <3>2. F \in SUBSET Before(t, S)
      <4> SUFFICES ASSUME NEW v \in F PROVE v \in S /\ v < t
        BY DEF Before
      <4>1. v \in A /\ v < u
        BY <3>1 DEF Before
      <4> QED
        BY <2>1, <2>2, <4>1, <1>2
    <3>3. Before(t, S) \in SUBSET S
      BY DEF Before
    <3>4. IsFiniteSet(Before(t, S))
      BY <1>3, <3>3, FS_Subset
    <3>5. Cardinality(F) <= Cardinality(Before(t, S)) /\ Cardinality(Before(t, S)) \in Nat
      BY <3>2, <3>4, FS_Subset, FS_CardinalityType
    <3> QED
      BY <2>1, <3>1, <3>5
  <2>3. Before(t, S) = Before(t, U)
    BY <1>1, <2>2 DEF Before
  <2>4. t \in U
    BY <1>2, <2>1
  <2>5. Cardinality(Before(t, U)) < n
    BY <2>1, <2>3
  <2> QED
    BY <2>4, <2>5, FirstIs
<1> QED
  BY <1>4, <1>5

LEMMA CappedAgain ==
  ASSUME NEW s \in Schedules, NEW A \in SUBSET Nat, NEW B \in SUBSET Nat, IsFiniteSet(A), IsFiniteSet(B)
  PROVE  /\ Capped(s, Capped(s, A) \cup B) = Capped(s, A \cup B)
         /\ Capped(s, A) \subseteq A
<1>1. s.repeat \in Nat
  BY OfSchedule
<1>2. First(s.repeat, First(s.repeat, A) \cup B) = First(s.repeat, A \cup B)
  BY <1>1, FirstAgain
<1>3. First(s.repeat, A) \subseteq A
  BY FirstIs
<1>4. CASE s.repeat <= 1
  BY <1>4 DEF Capped
<1>5. CASE ~(s.repeat <= 1)
  BY <1>2, <1>3, <1>5 DEF Capped
<1> QED
  BY <1>4, <1>5

(* The calendar that is read on a later day, not too late, goes on where it ended. *)
LEMMA CalendarGoesOn ==
  ASSUME NEW s \in Schedules, NEW c \in Nat, NEW e \in Nat, NEW at \in Nat,
         c <= e, e <= Today(s, at), Today(s, at) <= e + Horizon + 1
  PROVE  Capped(s, Capped(s, ListedFrom(s, c, e)) \cup Planned(s, at)) = Capped(s, ListedFrom(s, c, Today(s, at)))
<1> DEFINE T == Today(s, at)
<1>1. T \in Nat /\ Horizon \in Nat /\ c <= T /\ e <= T /\ T <= e + Horizon + 1
  BY TodayGrows, Sizes
<1>2. Planned(s, at) = ListedFrom(s, T, T)
  BY PlannedListed
<1> HIDE DEF T
<1>3. DaysFrom(s, c, e) \cup DaysFrom(s, T, T) = DaysFrom(s, c, T)
  <2>1. \A d : d \in c .. e + Horizon \/ d \in T .. T + Horizon <=> d \in c .. T + Horizon
    BY <1>1
  <2> QED
    BY <2>1 DEF DaysFrom
<1>4. ListedFrom(s, c, e) \cup ListedFrom(s, T, T) = ListedFrom(s, c, T)
  <2>1. DaysFrom(s, c, e) \in SUBSET Nat /\ DaysFrom(s, T, T) \in SUBSET Nat
    BY <1>1, DaysFinite
  <2>2. On(s, DaysFrom(s, c, e)) \cup On(s, DaysFrom(s, T, T)) = On(s, DaysFrom(s, c, T))
    BY <2>1, <1>3, OnDays
  <2> QED
    BY <2>2 DEF ListedFrom
<1>5. /\ ListedFrom(s, c, e) \in SUBSET Nat /\ IsFiniteSet(ListedFrom(s, c, e))
      /\ ListedFrom(s, T, T) \in SUBSET Nat /\ IsFiniteSet(ListedFrom(s, T, T))
  BY <1>1, ListedFinite
<1>6. Capped(s, Capped(s, ListedFrom(s, c, e)) \cup ListedFrom(s, T, T)) = Capped(s, ListedFrom(s, c, T))
  BY <1>4, <1>5, CappedAgain
<1> QED
  BY <1>2, <1>6 DEF T
-----------------------------------------------------------------------------
LEMMA Apart ==
  ASSUME NEW rs, Statuses(rs)
  PROVE  Nobody \notin DOMAIN rs
BY DEF Statuses, Nobody

(* classify_pending(): nothing is due or missed before its time, and what comes up comes up within the
   grace.                                                                                             *)
LEMMA ClassifyKeeps ==
  ASSUME now \in Nat, NEW rs, NEW busy \in BOOLEAN, Statuses(rs)
  PROVE  LET v == ClassifyPending(rs, now, busy)
         IN /\ Statuses(v) /\ DOMAIN v = DOMAIN rs
            /\ \A t \in DOMAIN rs : rs[t] \notin Waits => v[t] = rs[t]
            /\ \A t \in DOMAIN rs : rs[t] \in Waits => v[t] \in {"pending", "missed", "due", "delayed"}
            /\ \A t \in DOMAIN rs : rs[t] \in Waits /\ v[t] # "pending" => t <= now
            /\ \A t \in DOMAIN rs : rs[t] = "pending" /\ v[t] \in Begun => t <= now /\ now - t <= MissedAfter
<1> DEFINE v == ClassifyPending(rs, now, busy)
<1>1. DOMAIN v = DOMAIN rs
  BY DEF ClassifyPending
<1>2. ASSUME NEW t \in DOMAIN rs
      PROVE  /\ v[t] \in PassStatuses
             /\ rs[t] \notin Waits => v[t] = rs[t]
             /\ rs[t] \in Waits => v[t] \in {"pending", "missed", "due", "delayed"}
             /\ rs[t] \in Waits /\ v[t] # "pending" => t <= now
             /\ rs[t] = "pending" /\ v[t] \in Begun => t <= now /\ now - t <= MissedAfter
  <2>0. t \in Nat /\ rs[t] \in PassStatuses /\ MissedAfter \in Nat
    BY Sizes DEF Statuses
  <2>1. v[t] = CASE rs[t] \notin Waits -> rs[t]
                 [] rs[t] \in Waits /\ t > now -> "pending"
                 [] rs[t] = "pending" /\ t <= now /\ now - t > MissedAfter -> "missed"
                 [] OTHER -> IF busy \/ rs[t] = "delayed" THEN "delayed" ELSE "due"
    BY DEF ClassifyPending
  <2>2. CASE rs[t] \notin Waits
    <3>1. v[t] = rs[t]
      BY <2>1, <2>2 DEF Waits
    <3> QED
      BY <2>0, <2>2, <3>1 DEF Waits
  <2>3. CASE rs[t] \in Waits /\ t > now
    <3>1. v[t] = "pending"
      BY <2>0, <2>1, <2>3 DEF Waits
    <3> QED
      BY <2>3, <3>1 DEF PassStatuses, Begun, Waits
  <2>4. CASE rs[t] = "pending" /\ t <= now /\ now - t > MissedAfter
    <3>1. v[t] = "missed"
      BY <2>0, <2>1, <2>4 DEF Waits
    <3> QED
      BY <2>4, <3>1 DEF PassStatuses, Begun, Waits
  <2>5. CASE rs[t] \in Waits /\ t <= now /\ ~(rs[t] = "pending" /\ now - t > MissedAfter)
    <3>1. v[t] \in {"delayed", "due"}
      BY <2>0, <2>1, <2>5 DEF Waits
    <3> QED
      BY <2>0, <2>5, <3>1 DEF PassStatuses, Begun, Waits
  <2> QED
    BY <2>0, <2>2, <2>3, <2>4, <2>5
<1>3. v = [t \in DOMAIN v |-> v[t]]
  BY DEF ClassifyPending
<1> HIDE DEF v
<1>4. Statuses(v)
  BY <1>1, <1>2, <1>3 DEF Statuses
<1> QED
  BY <1>1, <1>2, <1>4 DEF v

LEMMA MarkedKeeps ==
  ASSUME NEW rs, NEW pass, Judged(rs, pass), now \in Nat
  PROVE  /\ Judged(MissedWhileClosed(rs), pass) /\ DOMAIN MissedWhileClosed(rs) = DOMAIN rs
         /\ \A t \in DOMAIN rs : MissedWhileClosed(rs)[t] \in {rs[t], "missed"}
<1> DEFINE v == MissedWhileClosed(rs)
<1>1. DOMAIN v = DOMAIN rs /\ v = [t \in DOMAIN v |-> v[t]]
  BY DEF MissedWhileClosed
<1>2. \A t \in DOMAIN rs : v[t] = IF rs[t] \in Waits /\ t <= now THEN "missed" ELSE rs[t]
  BY DEF MissedWhileClosed
<1>3. Statuses(rs)
  BY DEF Judged
<1> HIDE DEF v
<1>4. \A t \in DOMAIN rs : v[t] \in {rs[t], "missed"} /\ v[t] \in PassStatuses
  BY <1>2, <1>3 DEF PassStatuses, Statuses
<1>5. Statuses(v)
  BY <1>1, <1>3, <1>4 DEF Statuses
<1>6. \A t \in DOMAIN rs : (rs[t] = "running" => v[t] = "running") /\ (v[t] # "pending" => t <= now)
  BY <1>2 DEF Waits, Judged
<1>7. Judged(v, pass)
  BY <1>1, <1>5, <1>6 DEF Judged
<1> QED
  BY <1>1, <1>4, <1>7 DEF v

(* One status is set. *)
LEMMA OneSet ==
  ASSUME NEW rs, Statuses(rs), NEW t \in DOMAIN rs, NEW x \in PassStatuses
  PROVE  LET v == [rs EXCEPT ![t] = x]
         IN Statuses(v) /\ DOMAIN v = DOMAIN rs /\ v[t] = x /\ \A u \in DOMAIN rs : u # t => v[u] = rs[u]
BY DEF Statuses

(* Materialised passes are the known ones, or wait. *)
LEMMA MaterialisedKeeps ==
  ASSUME NEW s \in Schedules, now \in Nat, NEW rs, Statuses(rs)
  PROVE  LET v == Materialised(s, rs, now)
         IN /\ Statuses(v) /\ DOMAIN v = Capped(s, DOMAIN rs \cup Planned(s, now))
            /\ \A t \in DOMAIN v : v[t] = IF t \in DOMAIN rs THEN rs[t] ELSE "pending"
<1> DEFINE v == Materialised(s, rs, now)
           D == DOMAIN rs \cup Planned(s, now)
<1>1. DOMAIN rs \in SUBSET Nat /\ IsFiniteSet(DOMAIN rs)
  BY DEF Statuses
<1>2. Planned(s, now) \in SUBSET Nat /\ IsFiniteSet(Planned(s, now))
  <2>1. Today(s, now) \in Nat
    BY TodayGrows
  <2> QED
    BY <2>1, PlannedListed, ListedFinite
<1>3. D \in SUBSET Nat /\ IsFiniteSet(D)
  BY <1>1, <1>2, FS_Union
<1>4. DOMAIN v = Capped(s, D) /\ v = [t \in DOMAIN v |-> v[t]]
  BY DEF Materialised
<1>5. \A t \in DOMAIN v : v[t] = IF t \in DOMAIN rs THEN rs[t] ELSE "pending"
  BY DEF Materialised
<1> HIDE DEF v, D
<1>6. Capped(s, D) \in SUBSET D
  BY FirstIs DEF Capped
<1>7. IsFiniteSet(Capped(s, D)) /\ Capped(s, D) \in SUBSET Nat
  BY <1>3, <1>6, FS_Subset
<1>8. \A t \in DOMAIN v : v[t] \in PassStatuses
  BY <1>5 DEF Statuses, PassStatuses, Waits
<1> QED
  BY <1>4, <1>5, <1>7, <1>8 DEF Statuses, v, D

LEMMA EarliestIsDue ==
  ASSUME NEW rs, Statuses(rs), DueOf(rs) # {}
  PROVE  EarliestDue(rs) \in DOMAIN rs /\ rs[EarliestDue(rs)] \in {"due", "delayed"}
<1>1. DueOf(rs) \in SUBSET Nat
  BY DEF DueOf, Statuses
<1>2. \E t \in DueOf(rs) : \A u \in DueOf(rs) : t <= u
  BY <1>1, LeastExists
<1>3. EarliestDue(rs) \in DueOf(rs)
  BY <1>2 DEF EarliestDue
<1> QED
  BY <1>3 DEF DueOf

(* A pass that has begun had begun before, or begins at the operator's word or within the grace. *)
InGrace(t) == t <= now /\ now - t <= MissedAfter
HadBegun(t) == t \in DOMAIN passes /\ passes[t] \in Begun
Known(rs, commanded) == \A t \in DOMAIN rs \ commanded : rs[t] \in Begun => HadBegun(t) \/ InGrace(t)

LEMMA HasKeeps ==
  ASSUME NEW v, NEW pass, NEW is, NEW commanded, Known(v, commanded), strayed = {}, Has(v, pass, is, commanded)
  PROVE  passes' = v /\ under_way' = pass /\ stage' = is /\ strayed' = {}
<1>1. \A t \in DOMAIN v \ commanded : Begins(v, t) => InGrace(t)
  BY DEF Known, Begins, HadBegun
<1> QED
  BY <1>1 DEF Has, InGrace

LEMMA TickKeeps ==
  ASSUME NEW s \in Schedules, now \in Nat, NEW rs, NEW pass, Judged(rs, pass), NEW commanded,
         Known(rs, commanded), strayed = {}, TickOn(s, rs, pass, commanded)
  PROVE  /\ Judged(passes', under_way') /\ strayed' = {} /\ stage' \in {"active", "done"}
         /\ DOMAIN passes' = IF pass = Nobody /\ Extends(s, rs) THEN Capped(s, DOMAIN rs \cup Planned(s, now)) ELSE DOMAIN rs
         /\ stage' = "done" => \A t \in DOMAIN passes' : t <= now
<1> DEFINE more == IF pass = Nobody /\ Extends(s, rs) THEN Materialised(s, rs, now) ELSE rs
           busy == pass # Nobody
           judged == ClassifyPending(more, now, busy)
<1>1. Statuses(rs)
  BY DEF Judged
<1>2. /\ Statuses(more)
      /\ DOMAIN more = IF pass = Nobody /\ Extends(s, rs) THEN Capped(s, DOMAIN rs \cup Planned(s, now)) ELSE DOMAIN rs
      /\ \A t \in DOMAIN more : more[t] = IF t \in DOMAIN rs THEN rs[t] ELSE "pending"
      /\ pass # Nobody => more = rs
  <2>1. CASE pass = Nobody /\ Extends(s, rs)
    <3>1. more = Materialised(s, rs, now)
      BY <2>1
    <3> QED
      BY <2>1, <3>1, <1>1, MaterialisedKeeps
  <2>2. CASE ~(pass = Nobody /\ Extends(s, rs))
    BY <2>2, <1>1
  <2> QED
    BY <2>1, <2>2
<1>3. busy \in BOOLEAN
  OBVIOUS
<1>o. /\ pass # Nobody => Has(judged, pass, "active", commanded)
      /\ pass = Nobody /\ DueOf(judged) # {} =>
           Has([judged EXCEPT ![EarliestDue(judged)] = "running"], EarliestDue(judged), "active", commanded)
      /\ pass = Nobody /\ DueOf(judged) = {} =>
           Has(judged, Nobody, IF \E t \in DOMAIN judged : judged[t] \in {"pending", "missed"} THEN "active" ELSE "done", commanded)
  BY DEF TickOn
<1> HIDE DEF more, busy
<1>4. /\ Statuses(judged) /\ DOMAIN judged = DOMAIN more
      /\ \A t \in DOMAIN more : more[t] \notin Waits => judged[t] = more[t]
      /\ \A t \in DOMAIN more : more[t] \in Waits /\ judged[t] # "pending" => t <= now
      /\ \A t \in DOMAIN more : more[t] = "pending" /\ judged[t] \in Begun => t <= now /\ now - t <= MissedAfter
  <2>1. Statuses(more) /\ now \in Nat
    BY <1>2
  <2> QED
    BY <2>1, <1>3, ClassifyKeeps, Zenon
<1> HIDE DEF judged
<1>5. \A t \in DOMAIN judged : judged[t] # "pending" => t <= now
  <2> SUFFICES ASSUME NEW t \in DOMAIN judged, judged[t] # "pending" PROVE t <= now
    OBVIOUS
  <2>1. CASE more[t] \in Waits
    BY <1>4, <2>1
  <2>2. CASE more[t] \notin Waits
    <3>1. more[t] # "pending" /\ t \in DOMAIN more
      BY <1>4, <2>2 DEF Waits
    <3>2. t \in DOMAIN rs /\ rs[t] # "pending"
      BY <1>2, <3>1
    <3> QED
      BY <3>2 DEF Judged
  <2> QED
    BY <2>1, <2>2
<1>6. pass # Nobody => pass \in DOMAIN judged /\ judged[pass] = "running"
  <2> SUFFICES ASSUME pass # Nobody PROVE pass \in DOMAIN judged /\ judged[pass] = "running"
    OBVIOUS
  <2>1. more = rs /\ pass \in DOMAIN rs /\ rs[pass] = "running"
    BY <1>2 DEF Judged
  <2> QED
    BY <2>1, <1>4 DEF Waits
<1>7. Judged(judged, pass)
  BY <1>4, <1>5, <1>6 DEF Judged
<1>8. Known(judged, commanded)
  <2> SUFFICES ASSUME NEW t \in DOMAIN judged \ commanded, judged[t] \in Begun PROVE HadBegun(t) \/ InGrace(t)
    BY DEF Known
  <2>1. CASE more[t] = "pending"
    BY <1>4, <2>1 DEF InGrace
  <2>2. CASE more[t] # "pending"
    <3>1. t \in DOMAIN rs /\ rs[t] = more[t]
      BY <1>2, <1>4, <2>2
    <3>2. rs[t] \in Begun
      <4>1. CASE more[t] \in Waits
        BY <4>1, <2>2, <3>1 DEF Waits, Begun
      <4>2. CASE more[t] \notin Waits
        BY <4>2, <1>4, <3>1
      <4> QED
        BY <4>1, <4>2
    <3> QED
      BY <3>1, <3>2 DEF Known
  <2> QED
    BY <2>1, <2>2
<1>9. CASE pass # Nobody
  <2>1. passes' = judged /\ under_way' = pass /\ stage' = "active" /\ strayed' = {}
    BY <1>9, <1>o, <1>8, HasKeeps
  <2> QED
    BY <2>1, <1>2, <1>4, <1>7
<1>10. CASE pass = Nobody /\ DueOf(judged) # {}
  <2> DEFINE e == EarliestDue(judged)
             v == [judged EXCEPT ![e] = "running"]
  <2>1. e \in DOMAIN judged /\ judged[e] \in {"due", "delayed"}
    BY <1>4, <1>10, EarliestIsDue
  <2>h. Has(v, e, "active", commanded)
    BY <1>10, <1>o
  <2> HIDE DEF e
  <2>2. /\ Statuses(v) /\ DOMAIN v = DOMAIN judged /\ v[e] = "running"
        /\ \A u \in DOMAIN judged : u # e => v[u] = judged[u]
    BY <1>4, <2>1, OneSet DEF PassStatuses
  <2> HIDE DEF v
  <2>3. Known(v, commanded)
    <3> SUFFICES ASSUME NEW t \in DOMAIN v \ commanded, v[t] \in Begun PROVE HadBegun(t) \/ InGrace(t)
      BY DEF Known
    <3>1. judged[t] \in Begun
      BY <2>1, <2>2 DEF Begun
    <3> QED
      BY <3>1, <2>2, <1>8 DEF Known
  <2>4. passes' = v /\ under_way' = e /\ stage' = "active" /\ strayed' = {}
    BY <2>h, <2>3, HasKeeps
  <2>5. \A t \in DOMAIN v : v[t] # "pending" => t <= now
    BY <1>5, <2>1, <2>2
  <2>6. Judged(v, e)
    BY <2>1, <2>2, <2>5 DEF Judged
  <2> QED
    BY <2>2, <2>4, <2>6, <1>2, <1>4
<1>11. CASE pass = Nobody /\ DueOf(judged) = {}
  <2> DEFINE left == \E t \in DOMAIN judged : judged[t] \in {"pending", "missed"}
  <2>1. passes' = judged /\ under_way' = pass /\ stage' = (IF left THEN "active" ELSE "done") /\ strayed' = {}
    BY <1>11, <1>o, <1>8, HasKeeps
  <2>2. stage' = "done" => \A t \in DOMAIN judged : t <= now
    BY <2>1, <1>5
  <2>3. stage' \in {"active", "done"}
    BY <2>1
  <2> QED
    BY <2>1, <2>2, <2>3, <1>2, <1>4, <1>7
<1> QED
  BY <1>9, <1>10, <1>11
-----------------------------------------------------------------------------
(* What a step leaves when it ticks or sets passes of the same times: all but the calendar. *)
LEMMA JudgedThen ==
  ASSUME NEW v, NEW pass, Judged(v, pass), passes' = v, under_way' = pass, now' = now
  PROVE  Judged(passes, under_way)'
<1>1. /\ v \in [DOMAIN v -> PassStatuses] /\ DOMAIN v \subseteq Nat /\ IsFiniteSet(DOMAIN v)
      /\ pass # Nobody => pass \in DOMAIN v /\ v[pass] = "running"
      /\ \A t \in DOMAIN v : v[t] # "pending" => t <= now
  BY DEF Judged, Statuses
<1>2. /\ passes' \in [DOMAIN passes' -> PassStatuses] /\ DOMAIN passes' \subseteq Nat /\ IsFiniteSet(DOMAIN passes')
      /\ under_way' # Nobody => under_way' \in DOMAIN passes' /\ passes'[under_way'] = "running"
      /\ \A t \in DOMAIN passes' : passes'[t] # "pending" => t <= now'
  BY <1>1, Zenon
<1> QED
  BY <1>2 DEF Judged, Statuses

LEMMA CalendarStays ==
  ASSUME CalendarRead, stage # "none", schedule' = schedule, now' = now, created' = created, extended' = extended,
         lapsed' = lapsed, DOMAIN passes' = DOMAIN passes
  PROVE  CalendarRead'
<1>1. /\ created \in Nat /\ extended \in Nat /\ created <= extended /\ extended <= Today(schedule, now)
      /\ ~lapsed => DOMAIN passes = Capped(schedule, ListedFrom(schedule, created, extended))
  BY DEF CalendarRead
<1>2. Today(schedule, now)' = Today(schedule, now)
  BY DEF Today, WallAt, Localized
<1>3. Capped(schedule, ListedFrom(schedule, created, extended))' = Capped(schedule, ListedFrom(schedule, created, extended))
  BY DEF Capped, First, ListedFrom, DaysFrom, On, Localized
<1>4. ~lapsed' => DOMAIN passes' = Capped(schedule, ListedFrom(schedule, created, extended))'
  BY <1>1, <1>3, Zenon
<1>5. created' \in Nat /\ extended' \in Nat /\ created' <= extended' /\ extended' <= Today(schedule, now)'
  BY <1>1, <1>2
<1> QED
  BY <1>4, <1>5 DEF CalendarRead

(* A step that may read the calendar *)
LEMMA CalendarRuns ==
  ASSUME schedule \in Schedules, now \in Nat, CalendarRead, stage # "none",
         schedule' = schedule, now' = now, created' = created,
         NEW rs, DOMAIN rs = DOMAIN passes, NEW known, DOMAIN known = DOMAIN passes, NEW pass,
         ReadsCalendar(schedule, known, pass),
         DOMAIN passes' = IF pass = Nobody /\ Extends(schedule, rs) THEN Capped(schedule, DOMAIN rs \cup Planned(schedule, now))
                          ELSE DOMAIN rs
  PROVE  CalendarRead'
<1> DEFINE T == Today(schedule, now)
           L == ListedFrom(schedule, created, extended)
           late == T > extended + Horizon + 1
<1>1. /\ created \in Nat /\ extended \in Nat /\ created <= extended /\ extended <= T
      /\ ~lapsed => DOMAIN passes = Capped(schedule, L)
  BY DEF CalendarRead
<1>2. T \in Nat /\ Horizon \in Nat
  BY TodayGrows, Sizes
<1>3. Extends(schedule, rs) <=> Extends(schedule, known)
  BY DEF Extends
<1>4. CASE pass = Nobody /\ Extends(schedule, rs)
  <2>1. extended' = T /\ lapsed' = (lapsed \/ late)
    BY <1>3, <1>4, Zenon DEF ReadsCalendar
  <2>2. DOMAIN passes' = Capped(schedule, DOMAIN passes \cup Planned(schedule, now))
    BY <1>4
  <2>3. ~lapsed' => ~lapsed /\ ~late
    BY <2>1, Zenon
  <2>4. ~late => T <= extended + Horizon + 1
    BY <1>1, <1>2
  <2>5. T <= extended + Horizon + 1 =>
          Capped(schedule, Capped(schedule, L) \cup Planned(schedule, now)) = Capped(schedule, ListedFrom(schedule, created, T))
    BY <1>1, CalendarGoesOn
  <2> HIDE DEF L
  <2>6. ~lapsed' => DOMAIN passes' = Capped(schedule, ListedFrom(schedule, created, T))
    BY <1>1, <2>2, <2>3, <2>4, <2>5, Zenon
  <2>7. Capped(schedule, ListedFrom(schedule, created, extended))' = Capped(schedule, ListedFrom(schedule, created, T))
    <3> HIDE DEF T
    <3> QED
      BY <2>1 DEF Capped, First, ListedFrom, DaysFrom, On, Localized
  <2>8. Today(schedule, now)' = T
    BY DEF Today, WallAt, Localized
  <2>9. created' \in Nat /\ extended' \in Nat /\ created' <= extended' /\ extended' <= Today(schedule, now)'
    <3> HIDE DEF T
    <3> QED
      BY <1>1, <1>2, <2>1, <2>8
  <2>10. ~lapsed' => DOMAIN passes' = Capped(schedule, ListedFrom(schedule, created, extended))'
    BY <2>6, <2>7, Zenon
  <2> QED
    BY <2>9, <2>10 DEF CalendarRead
<1>5. CASE ~(pass = Nobody /\ Extends(schedule, rs))
  <2>1. extended' = extended /\ lapsed' = lapsed
    BY <1>3, <1>5, Zenon DEF ReadsCalendar
  <2>2. DOMAIN passes' = DOMAIN passes
    BY <1>5
  <2> QED
    BY <2>1, <2>2, CalendarStays, Zenon
<1> QED
  BY <1>4, <1>5

LEMMA HasStep ==
  ASSUME ScheduleInv, stage # "none", NEW v, NEW pass, NEW is \in {"active", "held", "interrupted"}, NEW commanded,
         Judged(v, pass), DOMAIN v = DOMAIN passes, Known(v, commanded), Has(v, pass, is, commanded),
         UNCHANGED <<schedule, now, created, extended, lapsed>>
  PROVE  ScheduleInv'
<1>1. schedule' = schedule /\ now' = now /\ created' = created /\ extended' = extended
  OBVIOUS
<1>2. lapsed' = lapsed
  BY Zenon
<1>3. CalendarRead /\ strayed = {} /\ schedule \in Schedules /\ now \in Nat
  BY DEF ScheduleInv
<1>4. passes' = v /\ under_way' = pass /\ stage' = is /\ strayed' = {}
  BY <1>3, HasKeeps
<1>5. Judged(passes, under_way)'
  BY <1>1, <1>4, JudgedThen
<1>6. CalendarRead'
  BY <1>1, <1>2, <1>3, <1>4, CalendarStays, Zenon
<1> QED
  BY <1>1, <1>3, <1>4, <1>5, <1>6 DEF ScheduleInv

LEMMA TickStep ==
  ASSUME ScheduleInv, stage # "none", NEW rs, NEW known, NEW pass, NEW commanded,
         Judged(rs, pass), DOMAIN rs = DOMAIN passes, DOMAIN known = DOMAIN passes, Known(rs, commanded),
         TickOn(schedule, rs, pass, commanded), ReadsCalendar(schedule, known, pass),
         UNCHANGED <<schedule, now, created>>
  PROVE  ScheduleInv'
<1>1. schedule' = schedule /\ now' = now /\ created' = created
  OBVIOUS
<1>2. CalendarRead /\ strayed = {} /\ schedule \in Schedules /\ now \in Nat
  BY DEF ScheduleInv
<1>3. /\ Judged(passes', under_way') /\ strayed' = {} /\ stage' \in {"active", "done"}
      /\ DOMAIN passes' = IF pass = Nobody /\ Extends(schedule, rs) THEN Capped(schedule, DOMAIN rs \cup Planned(schedule, now)) ELSE DOMAIN rs
      /\ stage' = "done" => \A t \in DOMAIN passes' : t <= now
  BY <1>2, TickKeeps
<1>4. Judged(passes, under_way)'
  BY <1>1, <1>3, JudgedThen
<1>5. CalendarRead'
  BY <1>1, <1>2, <1>3, CalendarRuns
<1> QED
  BY <1>1, <1>2, <1>3, <1>4, <1>5 DEF ScheduleInv

-----------------------------------------------------------------------------
LEMMA Starts ==
  ASSUME ScheduleInv, StartSchedule
  PROVE  ScheduleInv'
<1> DEFINE first == Materialised(schedule, NoPasses, now)
           judged == ClassifyPending(first, now, FALSE)
           P == Planned(schedule, now)
           T == Today(schedule, now)
<1>1. schedule \in Schedules /\ now \in Nat /\ strayed = {} /\ MissedAfter \in Nat
  BY Sizes DEF ScheduleInv
<1>2. /\ TickOn(schedule, judged, Nobody, {}) /\ created' = T /\ extended' = created'
      /\ schedule' = schedule /\ now' = now
  BY DEF StartSchedule
<1>3. Statuses(NoPasses) /\ DOMAIN NoPasses = {}
  BY FS_EmptySet DEF NoPasses, Statuses
<1>4. /\ Statuses(first) /\ DOMAIN first = Capped(schedule, DOMAIN NoPasses \cup P)
      /\ \A t \in DOMAIN first : first[t] = IF t \in DOMAIN NoPasses THEN NoPasses[t] ELSE "pending"
  BY <1>1, <1>3, MaterialisedKeeps
<1>5. DOMAIN first = Capped(schedule, P) /\ \A t \in DOMAIN first : first[t] = "pending"
  <2>1. DOMAIN NoPasses \cup P = P
    BY <1>3
  <2> QED
    BY <1>3, <1>4, <2>1
<1> HIDE DEF first
<1>6. /\ Statuses(judged) /\ DOMAIN judged = DOMAIN first
      /\ \A t \in DOMAIN first : first[t] \in Waits /\ judged[t] # "pending" => t <= now
      /\ \A t \in DOMAIN first : first[t] = "pending" /\ judged[t] \in Begun => t <= now /\ now - t <= MissedAfter
  BY <1>1, <1>4, ClassifyKeeps
<1> HIDE DEF judged
<1>7. Judged(judged, Nobody) /\ Known(judged, {})
  BY <1>5, <1>6 DEF Judged, Known, InGrace, Waits
<1>8. /\ Judged(passes', under_way') /\ strayed' = {} /\ stage' \in {"active", "done"}
      /\ DOMAIN passes' = IF Nobody = Nobody /\ Extends(schedule, judged) THEN Capped(schedule, DOMAIN judged \cup P) ELSE DOMAIN judged
      /\ stage' = "done" => \A t \in DOMAIN passes' : t <= now
  BY <1>1, <1>2, <1>7, TickKeeps
<1>9. T \in Nat
  BY <1>1, TodayGrows
<1>10. DOMAIN passes' = Capped(schedule, ListedFrom(schedule, T, T))
  <2>1. P = ListedFrom(schedule, T, T)
    BY <1>1, PlannedListed
  <2>2. P \in SUBSET Nat /\ IsFiniteSet(P)
    BY <1>1, <1>9, <2>1, ListedFinite
  <2> HIDE DEF P
  <2>3. Capped(schedule, Capped(schedule, P) \cup P) = Capped(schedule, P \cup P)
    BY <1>1, <2>2, CappedAgain
  <2>4. P \cup P = P
    OBVIOUS
  <2>5. DOMAIN passes' = Capped(schedule, P)
    BY <1>5, <1>6, <1>8, <2>3, <2>4
  <2> QED
    BY <2>1, <2>5
<1>11. Today(schedule, now)' = T
  BY <1>2 DEF Today, WallAt, Localized
<1>12. Capped(schedule, ListedFrom(schedule, created, extended))' = Capped(schedule, ListedFrom(schedule, T, T))
  <2> HIDE DEF T
  <2> QED
    BY <1>2 DEF Capped, First, ListedFrom, DaysFrom, On, Localized
<1>13. CalendarRead'
  <2> HIDE DEF T
  <2>1. created' \in Nat /\ extended' \in Nat /\ created' <= extended' /\ extended' <= Today(schedule, now)'
    BY <1>2, <1>9, <1>11
  <2>2. DOMAIN passes' = Capped(schedule, ListedFrom(schedule, created, extended))'
    BY <1>10, <1>12
  <2> QED
    BY <2>1, <2>2 DEF CalendarRead
<1>14. Judged(passes, under_way)'
  BY <1>2, <1>8, JudgedThen
<1> QED
  BY <1>1, <1>2, <1>8, <1>13, <1>14 DEF ScheduleInv

LEMMA AsBefore ==
  ASSUME ScheduleInv
  PROVE  /\ Judged(passes, under_way) /\ Statuses(passes) /\ \A c : Known(passes, c)
         /\ now \in Nat /\ Nobody \notin DOMAIN passes
         /\ under_way # Nobody => under_way \in DOMAIN passes /\ passes[under_way] = "running"
         /\ \A t \in DOMAIN passes : passes[t] # "pending" => t <= now
<1>1. Judged(passes, under_way) /\ now \in Nat
  BY DEF ScheduleInv
<1> QED
  BY <1>1, Apart DEF Judged, Known, HadBegun

LEMMA Ticks ==
  ASSUME ScheduleInv, ScheduleTick
  PROVE  ScheduleInv'
<1>1. /\ stage # "none" /\ TickOn(schedule, passes, under_way, {}) /\ ReadsCalendar(schedule, passes, under_way)
      /\ UNCHANGED <<schedule, now, created>>
  BY DEF ScheduleTick
<1> QED
  BY <1>1, AsBefore, TickStep

LEMMA GoesOn ==
  ASSUME ScheduleInv, GoOn
  PROVE  ScheduleInv'
<1>1. /\ stage # "none" /\ TickOn(schedule, passes, under_way, {}) /\ ReadsCalendar(schedule, passes, under_way)
      /\ UNCHANGED <<schedule, now, created>>
  BY DEF GoOn
<1> QED
  BY <1>1, AsBefore, TickStep

LEMMA Over ==
  ASSUME ScheduleInv, PassOver
  PROVE  ScheduleInv'
<1> DEFINE v == [passes EXCEPT ![under_way] = "over"]
<1>1. stage # "none" /\ under_way # Nobody /\ Has(v, Nobody, "active", {})
  BY DEF PassOver
<1>u. UNCHANGED <<schedule, now, created, extended, lapsed>>
  BY Zenon DEF PassOver
<1>2. under_way \in DOMAIN passes /\ passes[under_way] = "running" /\ Statuses(passes)
  BY <1>1, AsBefore
<1>3. Statuses(v) /\ DOMAIN v = DOMAIN passes /\ \A u \in DOMAIN passes : u # under_way => v[u] = passes[u]
  BY <1>2, OneSet DEF PassStatuses
<1> HIDE DEF v
<1>4. Judged(v, Nobody)
  BY <1>2, <1>3, AsBefore DEF Judged
<1>5. Known(v, {})
  BY <1>2, <1>3 DEF Known, HadBegun, Begun
<1> QED
  BY <1>1, <1>u, <1>3, <1>4, <1>5, HasStep

LEMMA Reopens ==
  ASSUME ScheduleInv, Reopen
  PROVE  ScheduleInv'
<1> DEFINE v == MissedWhileClosed(passes)
<1>1. stage # "none" /\ Has(v, under_way, "interrupted", {})
  BY DEF Reopen
<1>u. UNCHANGED <<schedule, now, created, extended, lapsed>>
  BY Zenon DEF Reopen
<1>2. Judged(v, under_way) /\ DOMAIN v = DOMAIN passes /\ \A t \in DOMAIN passes : v[t] \in {passes[t], "missed"}
  BY AsBefore, MarkedKeeps
<1> HIDE DEF v
<1>3. Known(v, {})
  BY <1>2 DEF Known, HadBegun, Begun
<1> QED
  BY <1>1, <1>u, <1>2, <1>3, HasStep

LEMMA Continues ==
  ASSUME ScheduleInv, NEW left \in BOOLEAN, ContinueSchedule(left)
  PROVE  ScheduleInv'
<1> DEFINE marked == MissedWhileClosed(passes)
           pass == IF left THEN under_way ELSE Nobody
           closed == IF pass = under_way THEN marked ELSE [marked EXCEPT ![under_way] = "over"]
<1>1. /\ stage # "none" /\ TickOn(schedule, closed, pass, {}) /\ ReadsCalendar(schedule, closed, pass)
      /\ UNCHANGED <<schedule, now, created>>
  BY Zenon DEF ContinueSchedule
<1>2. Judged(marked, under_way) /\ DOMAIN marked = DOMAIN passes /\ \A t \in DOMAIN passes : marked[t] \in {passes[t], "missed"}
  BY AsBefore, MarkedKeeps
<1>3. pass = under_way \/ pass = Nobody
  OBVIOUS
<1> HIDE DEF marked, pass
<1>4. Known(marked, {})
  BY <1>2 DEF Known, HadBegun, Begun
<1>5. Judged(closed, pass) /\ DOMAIN closed = DOMAIN passes /\ Known(closed, {})
  <2>1. CASE pass = under_way
    <3>1. closed = marked
      BY <2>1
    <3> HIDE DEF closed
    <3> QED
      BY <2>1, <3>1, <1>2, <1>4
  <2>2. CASE pass # under_way
    <3>1. closed = [marked EXCEPT ![under_way] = "over"]
      BY <2>2
    <3>2. pass = Nobody /\ under_way # Nobody
      BY <1>3, <2>2
    <3>3. under_way \in DOMAIN passes /\ passes[under_way] = "running" /\ under_way <= now
      BY <3>2, AsBefore
    <3>4. Statuses(marked) /\ under_way \in DOMAIN marked
      BY <3>3, <1>2 DEF Judged
    <3>5. Statuses(closed) /\ DOMAIN closed = DOMAIN marked /\ \A u \in DOMAIN marked : u # under_way => closed[u] = marked[u]
      BY <3>1, <3>4, OneSet DEF PassStatuses
    <3> HIDE DEF closed
    <3>6. \A t \in DOMAIN closed : closed[t] # "pending" => t <= now
      BY <3>3, <3>5, <1>2 DEF Judged
    <3>7. Judged(closed, pass)
      BY <3>2, <3>5, <3>6 DEF Judged
    <3>8. Known(closed, {})
      BY <3>3, <3>5, <1>4 DEF Known, HadBegun, Begun
    <3> QED
      BY <3>5, <3>7, <3>8, <1>2
  <2> QED
    BY <2>1, <2>2
<1> HIDE DEF closed
<1> QED
  BY <1>1, <1>5, TickStep

LEMMA RunsMissed ==
  ASSUME ScheduleInv, NEW t, RunMissedRound(t)
  PROVE  ScheduleInv'
<1> DEFINE old == IF stage = "interrupted" THEN MissedWhileClosed(passes) ELSE passes
           v == [old EXCEPT ![t] = "due"]
<1>1. /\ t \in DOMAIN passes /\ passes[t] = "missed" /\ stage # "none"
      /\ stage # "held" => TickOn(schedule, v, under_way, {t}) /\ ReadsCalendar(schedule, passes, under_way)
      /\ stage = "held" => Has(v, under_way, "held", {t})
      /\ UNCHANGED <<schedule, now, created>>
  BY Zenon DEF RunMissedRound
<1>u. stage = "held" => UNCHANGED <<schedule, now, created, extended, lapsed>>
  BY Zenon DEF RunMissedRound
<1>2. Judged(old, under_way) /\ DOMAIN old = DOMAIN passes /\ \A u \in DOMAIN passes : old[u] \in {passes[u], "missed"}
  BY AsBefore, MarkedKeeps
<1> HIDE DEF old
<1>3. Statuses(old) /\ old[t] = "missed" /\ t \in DOMAIN old /\ t <= now
  BY <1>1, <1>2, AsBefore DEF Judged
<1>4. Statuses(v) /\ DOMAIN v = DOMAIN old /\ \A u \in DOMAIN old : u # t => v[u] = old[u]
  BY <1>3, OneSet DEF PassStatuses, Waits
<1> HIDE DEF v
<1>5. Judged(v, under_way)
  <2>1. under_way # Nobody => under_way \in DOMAIN v /\ v[under_way] = "running"
    BY <1>2, <1>3, <1>4 DEF Judged
  <2>2. \A u \in DOMAIN v : v[u] # "pending" => u <= now
    BY <1>2, <1>3, <1>4 DEF Judged
  <2> QED
    BY <1>4, <2>1, <2>2 DEF Judged
<1>6. Known(v, {t})
  BY <1>2, <1>4 DEF Known, HadBegun, Begun
<1>7. CASE stage = "held"
  BY <1>1, <1>u, <1>2, <1>4, <1>5, <1>6, <1>7, HasStep
<1>8. CASE stage # "held"
  BY <1>1, <1>2, <1>4, <1>5, <1>6, <1>8, TickStep
<1> QED
  BY <1>7, <1>8

LEMMA SkipsMissed ==
  ASSUME ScheduleInv, NEW t, SkipMissedRound(t)
  PROVE  ScheduleInv'
<1> DEFINE v == [passes EXCEPT ![t] = "skipped"]
<1>1. /\ t \in DOMAIN passes /\ passes[t] = "missed" /\ stage \notin {"none", "done"}
      /\ passes' = v /\ UNCHANGED <<schedule, now, under_way, stage, created, extended, strayed>>
  BY Zenon DEF SkipMissedRound
<1>u. lapsed' = lapsed
  BY Zenon DEF SkipMissedRound
<1>2. Statuses(passes) /\ t <= now
  BY <1>1, AsBefore
<1>3. Statuses(v) /\ DOMAIN v = DOMAIN passes /\ \A u \in DOMAIN passes : u # t => v[u] = passes[u]
  BY <1>1, <1>2, OneSet DEF PassStatuses
<1> HIDE DEF v
<1>4. Judged(v, under_way)
  <2>1. under_way # Nobody => under_way \in DOMAIN v /\ v[under_way] = "running"
    BY <1>1, <1>3, AsBefore
  <2>2. \A u \in DOMAIN v : v[u] # "pending" => u <= now
    BY <1>2, <1>3, AsBefore
  <2> QED
    BY <1>3, <2>1, <2>2 DEF Judged
<1>5. Judged(passes, under_way)'
  BY <1>1, <1>4, JudgedThen
<1>6. CalendarRead /\ schedule \in Schedules /\ now \in Nat /\ strayed = {} /\ stage \in {"none", "active", "held", "closed", "interrupted", "done"}
  BY DEF ScheduleInv
<1>7. CalendarRead'
  BY <1>1, <1>u, <1>3, <1>6, CalendarStays
<1> QED
  BY <1>1, <1>5, <1>6, <1>7 DEF ScheduleInv

(* Steps that leave the passes alone, and the clock *)
LEMMA StageMoves ==
  ASSUME ScheduleInv, Hold \/ CloseSchedule
  PROVE  ScheduleInv'
<1>1. /\ stage # "none" /\ stage' \in {"held", "closed"}
      /\ UNCHANGED <<schedule, now, passes, under_way, created, extended, strayed>>
  BY Zenon DEF Hold, CloseSchedule
<1>u. lapsed' = lapsed
  BY Zenon DEF Hold, CloseSchedule
<1>2. CalendarRead /\ Judged(passes, under_way) /\ schedule \in Schedules /\ now \in Nat /\ strayed = {}
  BY DEF ScheduleInv
<1>3. Judged(passes, under_way)'
  BY <1>1, <1>2, JudgedThen
<1>4. CalendarRead'
  BY <1>1, <1>u, <1>2, CalendarStays
<1> QED
  BY <1>1, <1>2, <1>3, <1>4 DEF ScheduleInv

LEMMA ClockMoves ==
  ASSUME ScheduleInv, ClockGoes
  PROVE  ScheduleInv'
<1>1. now' = now + 1 /\ stage # "none" /\ UNCHANGED <<schedule, passes, under_way, stage, created, extended, strayed>>
  BY Zenon DEF ClockGoes
<1>u. lapsed' = lapsed
  BY Zenon DEF ClockGoes
<1>2. CalendarRead /\ Judged(passes, under_way) /\ schedule \in Schedules /\ now \in Nat /\ strayed = {}
      /\ stage \in {"none", "active", "held", "closed", "interrupted", "done"}
      /\ (stage = "done" => \A t \in DOMAIN passes : t <= now)
  BY DEF ScheduleInv
<1>3. Statuses(passes) /\ DOMAIN passes \subseteq Nat
  BY <1>2 DEF Judged, Statuses
<1>4. Judged(passes, under_way)'
  <2>1. \A t \in DOMAIN passes : t <= now => t <= now'
    BY <1>1, <1>2, <1>3
  <2>2. /\ under_way # Nobody => under_way \in DOMAIN passes /\ passes[under_way] = "running"
        /\ \A t \in DOMAIN passes : passes[t] # "pending" => t <= now'
    BY <2>1, <1>2 DEF Judged
  <2> QED
    BY <1>1, <1>3, <2>2 DEF Judged, Statuses
<1>5. CalendarRead'
  <2>1. /\ created \in Nat /\ extended \in Nat /\ created <= extended /\ extended <= Today(schedule, now)
        /\ ~lapsed => DOMAIN passes = Capped(schedule, ListedFrom(schedule, created, extended))
    BY <1>1, <1>2 DEF CalendarRead
  <2>2. /\ Today(schedule, now) \in Nat /\ Today(schedule, now + 1) \in Nat
        /\ Today(schedule, now) <= Today(schedule, now + 1)
    BY <1>2, TodayGrows
  <2>3. Today(schedule, now)' = Today(schedule, now + 1)
    BY <1>1 DEF Today, WallAt, Localized
  <2>4. Capped(schedule, ListedFrom(schedule, created, extended))' = Capped(schedule, ListedFrom(schedule, created, extended))
    BY <1>1 DEF Capped, First, ListedFrom, DaysFrom, On, Localized
  <2>5. ~lapsed' => DOMAIN passes' = Capped(schedule, ListedFrom(schedule, created, extended))'
    <3>1. passes' = passes
      BY <1>1
    <3> QED
      BY <3>1, <1>u, <2>1, <2>4, Zenon
  <2>6. created' \in Nat /\ extended' \in Nat /\ created' <= extended' /\ extended' <= Today(schedule, now)'
    <3>1. extended <= Today(schedule, now + 1)
      BY <2>1, <2>2
    <3> QED
      BY <1>1, <2>1, <2>3, <3>1
  <2> QED
    BY <2>5, <2>6 DEF CalendarRead
<1>6. stage' = "done" => \A t \in DOMAIN passes' : t <= now'
  BY <1>1, <1>2, <1>3
<1> QED
  BY <1>1, <1>2, <1>4, <1>5, <1>6 DEF ScheduleInv

LEMMA ScheduleStutters ==
  ASSUME ScheduleInv, UNCHANGED schedule_vars
  PROVE  ScheduleInv'
<1>1. UNCHANGED <<schedule, now, passes, under_way, stage, created, extended, strayed>>
  BY Zenon DEF schedule_vars
<1>u. lapsed' = lapsed
  BY Zenon DEF schedule_vars
<1>2. CalendarRead /\ Judged(passes, under_way) /\ schedule \in Schedules /\ now \in Nat /\ strayed = {}
      /\ stage \in {"none", "active", "held", "closed", "interrupted", "done"}
      /\ (stage = "done" => \A t \in DOMAIN passes : t <= now)
  BY DEF ScheduleInv
<1>3. Judged(passes, under_way)'
  BY <1>1, <1>2, JudgedThen
<1>4. CalendarRead'
  <2>1. CASE stage = "none"
    BY <1>1, <2>1 DEF CalendarRead
  <2>2. CASE stage # "none"
    BY <1>1, <1>u, <1>2, <2>2, CalendarStays
  <2> QED
    BY <2>1, <2>2
<1> QED
  BY <1>1, <1>2, <1>3, <1>4 DEF ScheduleInv

-----------------------------------------------------------------------------
LEMMA ScheduleBegins ==
  ASSUME ScheduleInit
  PROVE  ScheduleInv
<1>1. /\ schedule \in Schedules /\ now \in 0 .. DayLength - 1 /\ passes = NoPasses /\ under_way = Nobody
      /\ stage = "none" /\ strayed = {}
  BY DEF ScheduleInit
<1>2. now \in Nat
  BY <1>1, Sizes
<1>3. Judged(passes, under_way)
  BY <1>1, FS_EmptySet DEF NoPasses, Judged, Statuses
<1>4. CalendarRead
  BY <1>1 DEF CalendarRead
<1> QED
  BY <1>1, <1>2, <1>3, <1>4 DEF ScheduleInv

LEMMA ScheduleSteps ==
  ASSUME ScheduleInv, [ScheduleNext]_schedule_vars
  PROVE  ScheduleInv'
<1>1. ASSUME NEW left \in BOOLEAN, ContinueSchedule(left) PROVE ScheduleInv'
  BY <1>1, Continues
<1>2. ASSUME NEW t \in DOMAIN passes, RunMissedRound(t) \/ SkipMissedRound(t) PROVE ScheduleInv'
  BY <1>2, RunsMissed, SkipsMissed
<1>3. ASSUME ScheduleRests \/ UNCHANGED schedule_vars PROVE ScheduleInv'
  <2>1. UNCHANGED schedule_vars
    BY <1>3 DEF ScheduleRests
  <2> QED
    BY <2>1, ScheduleStutters
<1> QED
  BY <1>1, <1>2, <1>3, Starts, Ticks, Over, StageMoves, GoesOn, Reopens, ClockMoves DEF ScheduleNext

LEMMA InvSchedules ==
  ASSUME ScheduleInv
  PROVE  PassesAreScheduled
<1>1. ScheduleTypeOK
  <2>1. DOMAIN passes \subseteq Nat /\ \A t \in DOMAIN passes : passes[t] \in PassStatuses
    BY AsBefore DEF Statuses
  <2>2. under_way \in DOMAIN passes \cup {Nobody}
    BY AsBefore
  <2>3. stage \in {"none", "active", "held", "closed", "interrupted", "done"}
    BY DEF ScheduleInv
  <2> QED
    BY <2>1, <2>2, <2>3 DEF ScheduleTypeOK
<1>2. NeverAtAnotherHour
  BY DEF ScheduleInv, NeverAtAnotherHour
<1>3. ASSUME stage # "none", ~lapsed
      PROVE  /\ DOMAIN passes = IF schedule.repeat > 1 THEN First(schedule.repeat, Listed) ELSE Listed
             /\ stage = "done" => \A t \in Listed : t <= now \/ schedule.repeat > 1
  <2>1. DOMAIN passes = Capped(schedule, ListedFrom(schedule, created, extended))
    BY <1>3, Zenon DEF ScheduleInv, CalendarRead
  <2>2. Listed = ListedFrom(schedule, created, extended)
    BY DEF Listed, ListedFrom, DaysFrom
  <2>3. schedule \in Schedules /\ (stage = "done" => \A t \in DOMAIN passes : t <= now)
    BY DEF ScheduleInv
  <2>4. schedule.repeat \in Nat
    BY <2>3, OfSchedule
  <2>5. CASE schedule.repeat > 1
    <3>1. ~(schedule.repeat <= 1)
      BY <2>4, <2>5
    <3>2. DOMAIN passes = First(schedule.repeat, Listed)
      BY <2>1, <2>2, <3>1 DEF Capped
    <3> QED
      BY <2>5, <3>2
  <2>6. CASE ~(schedule.repeat > 1)
    <3>1. schedule.repeat <= 1
      BY <2>4, <2>6
    <3>2. DOMAIN passes = Listed
      BY <2>1, <2>2, <3>1 DEF Capped
    <3> QED
      BY <2>3, <2>6, <3>2
  <2> QED
    BY <2>5, <2>6
<1>4. NoneDropped
  BY <1>3, Zenon DEF NoneDropped
<1> QED
  BY <1>1, <1>2, <1>4 DEF PassesAreScheduled

(* Every time that was listed has its pass, in the order and number that were asked for, whatever pauses, sleep
   and restarts come between, unless the calendar was read too late; no pass begins at another hour than its
   own but at the operator's word; and a collection is done only when all of its times have come: for any
   schedules, time zones, grace and horizon (cellular_scheduler.py, CellularRunner._tick).                   *)
THEOREM PassesScheduled == ScheduleSpec => []PassesAreScheduled
<1>1. ScheduleInit => ScheduleInv
  BY ScheduleBegins
<1>2. ScheduleInv /\ [ScheduleNext]_schedule_vars => ScheduleInv'
  BY ScheduleSteps
<1>3. ScheduleInv => PassesAreScheduled
  BY InvSchedules
<1> QED
  BY <1>1, <1>2, <1>3, PTL DEF ScheduleSpec

-----------------------------------------------------------------------------
(* Why a write that is killed leaves a document: the temporary file is whole when it replaces the
   file, and the file is whole while the copy is being made.                                     *)
JsonInv ==
  /\ StoreIsSound
  /\ step # "idle" => doc > 0
  /\ step \in {"temp", "replace"} => attempts < ReplaceAttempts
  /\ step = "replace" => tmp = doc
  /\ step \in {"backup", "backing"} => live = doc

LEMMA JsonConstants == Documents \in Nat \ {0} /\ ReplaceAttempts \in Nat \ {0}
BY JsonStoreAssumption

LEMMA JsonInvInit == JsonInit => JsonInv
<1> SUFFICES ASSUME JsonInit PROVE JsonInv
  OBVIOUS
<1>1. exposed \in BOOLEAN
  BY DEF JsonInit
<1>2. JsonInv
  BY <1>1, JsonConstants
  DEF JsonInit, JsonInv, StoreIsSound, JsonTypeOK, OldOrNew, ReadJson, Whole, Contents, None, Torn
<1> QED
  BY <1>2

LEMMA JsonInvNext == JsonInv /\ [JsonNext]_json_vars => JsonInv'
<1> SUFFICES ASSUME JsonInv, [JsonNext]_json_vars PROVE JsonInv'
  OBVIOUS
<1> DEFINE Told == exposed \in BOOLEAN
           Kept == /\ {live, bak, tmp} \subseteq Contents /\ doc \in 0 .. Documents
                   /\ step \in {"idle", "temp", "replace", "plain", "backup", "backing"}
                   /\ attempts \in 0 .. ReplaceAttempts /\ before \in Contents /\ OldOrNew
                   /\ step # "idle" => doc > 0
                   /\ step \in {"temp", "replace"} => attempts < ReplaceAttempts
                   /\ step = "replace" => tmp = doc
                   /\ step \in {"backup", "backing"} => live = doc
<1>a. Told
  BY DEF JsonInv, StoreIsSound, JsonTypeOK
<1>b. Kept
  BY DEF JsonInv, StoreIsSound, JsonTypeOK
<1> SUFFICES (Told /\ Kept)'
  BY DEF JsonInv, StoreIsSound, JsonTypeOK
<1> USE JsonConstants DEF OldOrNew, ReadJson, Whole, Contents, None, Torn
<1>1. CASE Begin
  <2>1. Told'
    BY <1>1, <1>a DEF Begin
  <2>2. Kept'
    BY <1>1, <1>b DEF Begin
  <2> QED
    BY <2>1, <2>2
<1>2. CASE BackupBegins
  <2>1. Told'
    BY <1>2, <1>a DEF BackupBegins
  <2>2. Kept'
    BY <1>2, <1>b DEF BackupBegins
  <2> QED
    BY <2>1, <2>2
<1>3. CASE JsonCrash
  <2>1. Told'
    BY <1>3, <1>a DEF JsonCrash
  <2>2. Kept'
    BY <1>3, <1>b DEF JsonCrash
  <2> QED
    BY <2>1, <2>2
<1>4. ASSUME NEW ok \in BOOLEAN, TempWritten(ok)
      PROVE  (Told /\ Kept)'
  <2>1. Told'
    BY <1>4, <1>a DEF TempWritten
  <2>2. Kept'
    BY <1>4, <1>b DEF TempWritten
  <2> QED
    BY <2>1, <2>2
<1>5. ASSUME NEW refused \in BOOLEAN, Replace(refused)
      PROVE  (Told /\ Kept)'
  <2>1. Told'
    BY <1>5, <1>a DEF Replace, LastAttempt
  <2>2. Kept'
    BY <1>5, <1>b DEF Replace, LastAttempt
  <2> QED
    BY <2>1, <2>2
<1>6. ASSUME NEW ok \in BOOLEAN, PlainWritten(ok)
      PROVE  (Told /\ Kept)'
  <2>1. Told'
    BY <1>6, <1>a DEF PlainWritten
  <2>2. Kept'
    BY <1>6, <1>b DEF PlainWritten
  <2> QED
    BY <2>1, <2>2
<1>7. ASSUME NEW ok \in BOOLEAN, BackupWritten(ok)
      PROVE  (Told /\ Kept)'
  <2>1. Told'
    BY <1>7, <1>a DEF BackupWritten
  <2>2. Kept'
    <3>1. bak' \in {bak, doc} /\ step = "backing" /\ step' = "idle"
      BY <1>7 DEF BackupWritten
    <3>2. UNCHANGED <<live, tmp, doc, attempts, before, exposed>>
      BY <1>7 DEF BackupWritten
    <3> QED
      BY <3>1, <3>2, <1>b
  <2> QED
    BY <2>1, <2>2
<1>8. CASE UNCHANGED json_vars
  <2>1. Told'
    BY <1>8, <1>a DEF json_vars
  <2>2. Kept'
    BY <1>8, <1>b DEF json_vars
  <2> QED
    BY <2>1, <2>2
<1> QED
  BY <1>1, <1>2, <1>3, <1>4, <1>5, <1>6, <1>7, <1>8 DEF JsonNext

(* A kill or power loss at any step of any write leaves the old or the new document
   (write_json() and read_json() of json_store.py).                                    *)
THEOREM StoreSound == JsonSpec => []StoreIsSound
<1>1. JsonInit => JsonInv
  BY JsonInvInit
<1>2. JsonInv /\ [JsonNext]_json_vars => JsonInv'
  BY JsonInvNext
<1>3. JsonInv => StoreIsSound
  BY DEF JsonInv
<1> QED
  BY <1>1, <1>2, <1>3, PTL DEF JsonSpec
=============================================================================
