----------------------- MODULE CollectionRunnerProofs -----------------------
(***************************************************************************)
(* Theorems about CollectionRunner, for every number of passes and rows    *)
(* and every choice of the other constants:                                *)
(*                                                                         *)
(*   TypeCorrect     the type invariant;                                   *)
(*   NoResend        no row reaches the sensor more often than it was      *)
(*                   asked for, provided the application never ends        *)
(*                   between sending a request and saving that it did;     *)
(*   RequestsImplemented  under the same condition every behaviour is one  *)
(*                   of SensorRequests under the mapping Requests;         *)
(*   PassesInOrder   one pass runs, the one the session names, and no      *)
(*                   pass is counted before each of its rows ended;        *)
(*   SessionFileCurrent  the session file has the rows and the running     *)
(*                   pass as they are.                                     *)
(*                                                                         *)
(* A handler is a function from worlds to worlds, so the inductive         *)
(* invariant is a predicate Good on worlds and each helper has one lemma:  *)
(* it takes good worlds to good worlds.                                    *)
(***************************************************************************)
EXTENDS CollectionRunner, WellFoundedInduction, TLAPS

SessionType ==
  [state: States, current: 0 .. NRounds, rounds: [Rounds -> RoundStates],
   tasks: [Keys -> Statuses], attempts: [Keys -> Nat], recordOf: [Keys -> Nat]]

CaptureType ==
  [key: Keys \cup {None}, phase: {"idle", "sent", "reached", "reported"},
   outcome: AllOutcomes \cup {"open"}]

Worlds ==
  [state: States, current: 0 .. NRounds, rounds: [Rounds -> RoundStates],
   tasks: [Keys -> Statuses], attempts: [Keys -> Nat], recordOf: [Keys -> Nat],
   disk: SessionType, inFlight: BOOLEAN, preflightDue: BOOLEAN,
   preflightPending: BOOLEAN, storageSettled: BOOLEAN, settlePending: BOOLEAN,
   idleCheck: Keys \cup {None}, idleRetries: Nat, downloadsOnly: BOOLEAN,
   timer: BOOLEAN, owned: BOOLEAN, capture: CaptureType, posts: [Keys -> Nat],
   permits: [Keys -> Nat], checked: BOOLEAN]

(* The requests a row may still make the sensor receive: one that is on its way, or that
   ended without being sent and is about to be queued again, and one that is queued.   *)
OnItsWay(c, t) ==
  IF c.key = t /\ (c.phase = "sent" \/ (c.phase = "reported" /\ c.outcome = "not_sent"))
    THEN 1 ELSE 0
ToCome(w, t) == OnItsWay(w.capture, t) + (IF w.tasks[t] = "queued" THEN 1 ELSE 0)

(* r: the requests the sensor received. *)
Owed(w, r) == \A t \in Keys : r[t] + ToCome(w, t) <= w.permits[t]

(* Between handlers the session file has the rows as they are; inside one it may not. *)
SavesFirst == "submit" \notin CrashPoints
Sound(w, r) == w \in Worlds /\ (SavesFirst => Owed(w, r))
Good(w, r) == Sound(w, r) /\ w.disk.tasks = w.tasks

-----------------------------------------------------------------------------
(* Nonempty sets of naturals have a least element, bounded ones a greatest. *)
LEMMA LeastExists ==
  ASSUME NEW S \in SUBSET Nat, S # {}
  PROVE  \E i \in S : \A j \in S : i <= j
<1> DEFINE R == {ss \in Nat \X Nat : ss[1] < ss[2]}
<1>1. IsWellFoundedOn(R, Nat)
  BY NatLessThanWellFounded DEF OpToRel
<1>2. PICK i \in S : \A j \in S : <<j, i>> \notin R
  BY <1>1, WFMin, Zenon
<1>3. \A j \in S : ~(j < i)
  BY <1>2
<1> QED
  BY <1>3

LEMMA GreatestExists ==
  ASSUME NEW n \in Nat, NEW S \in SUBSET (1 .. n), S # {}
  PROVE  \E i \in S : \A j \in S : j <= i
<1> DEFINE T == {n - i : i \in S}
<1>0. \A i \in S : n - i \in Nat
  OBVIOUS
<1>1. T \in SUBSET Nat /\ T # {}
  BY <1>0
<1>2. PICK k \in T : \A l \in T : k <= l
  BY <1>1, LeastExists
<1>3. PICK i \in S : k = n - i
  OBVIOUS
<1>4. \A j \in S : j <= i
  BY <1>2, <1>3
<1> QED
  BY <1>4

-----------------------------------------------------------------------------
(* The frame: a world with the same rows, capture and permissions is as good. *)
LEMMA Frame ==
  ASSUME NEW r, NEW w, NEW v \in Worlds,
         v.tasks = w.tasks, v.capture = w.capture, v.permits = w.permits
  PROVE  /\ Sound(w, r) => Sound(v, r)
         /\ Good(w, r) /\ v.disk.tasks = w.disk.tasks => Good(v, r)
BY DEF Sound, Good, Owed, ToCome

LEMMA SaveGood ==
  ASSUME NEW r, NEW w, Sound(w, r)
  PROVE  Good(Save(w), r)
<1>1. Save(w) \in Worlds /\ Save(w).disk.tasks = w.tasks
  BY DEF Sound, Save, Worlds, Session, SessionType
<1>2. /\ Save(w).tasks = w.tasks /\ Save(w).capture = w.capture
      /\ Save(w).permits = w.permits
  BY DEF Sound, Save, Worlds
<1>3. Sound(Save(w), r)
  BY <1>1, <1>2, Frame
<1> QED
  BY <1>1, <1>2, <1>3 DEF Good

LEMMA PausedNowGood ==
  ASSUME NEW r, NEW w, Sound(w, r)
  PROVE  Good(PausedNow(w), r)
<1> DEFINE v == [w EXCEPT !.state = "paused"]
<1>1. v \in Worlds /\ v.tasks = w.tasks /\ v.capture = w.capture /\ v.permits = w.permits
  BY DEF Sound, Worlds, States
<1>2. Sound(v, r)
  BY <1>1, Frame
<1> QED
  BY <1>2, SaveGood DEF PausedNow

LEMMA BeginWaitGood ==
  ASSUME NEW r, NEW w, Sound(w, r)
  PROVE  Good(BeginWait(w), r)
<1> DEFINE v == [w EXCEPT !.state = "waiting"]
<1>1. v \in Worlds /\ v.tasks = w.tasks /\ v.capture = w.capture /\ v.permits = w.permits
  BY DEF Sound, Worlds, States
<1>2. Sound(v, r)
  BY <1>1, Frame
<1> QED
  BY <1>2, SaveGood DEF BeginWait

LEMMA ClassifyGood ==
  ASSUME NEW r, NEW w, NEW busy, Good(w, r)
  PROVE  Good(Classify(w, busy), r)
<1> DEFINE v == Classify(w, busy)
<1>1. w \in Worlds
  BY DEF Good, Sound
<1>2. \A i \in Rounds : Classified(w.rounds[i], clock[i], busy) \in RoundStates
  BY <1>1 DEF Worlds, Classified, RoundStates, Open
<1>3. v \in Worlds
  BY <1>1, <1>2 DEF Worlds, Classify
<1>4. /\ v.tasks = w.tasks /\ v.capture = w.capture /\ v.permits = w.permits
      /\ v.disk.tasks = w.disk.tasks
  BY <1>1 DEF Worlds, Classify
<1> QED
  BY <1>3, <1>4, Frame

(* A pass ends; another one may be queued. *)
LEMMA VerdictType ==
  ASSUME NEW w, NEW i
  PROVE  Verdict(w, i) \in RoundStates
BY DEF Verdict, RoundStates

LEMMA NextPassAfterSound ==
  ASSUME NEW r, NEW w, Sound(w, r)
  PROVE  Sound(NextPassAfter(w), r)
<1>1. ASSUME NEW n
      PROVE  Sound([w EXCEPT !.rounds[n] = "pending"], r)
  <2> DEFINE v == [w EXCEPT !.rounds[n] = "pending"]
  <2>1. v \in Worlds /\ v.tasks = w.tasks /\ v.capture = w.capture /\ v.permits = w.permits
    BY DEF Sound, Worlds, RoundStates
  <2> QED
    BY <2>1, Frame
<1> QED
  BY <1>1 DEF NextPassAfter

LEMMA FinishRoundGood ==
  ASSUME NEW r, NEW w, NEW stopped, Good(w, r)
  PROVE  Good(FinishRound(w, stopped), r)
<1> DEFINE end == IF stopped THEN "stopped" ELSE Verdict(w, w.current)
           v == [w EXCEPT !.rounds[w.current] = end, !.current = 0,
                          !.state = "waiting_schedule"]
<1>1. end \in RoundStates
  BY VerdictType DEF RoundStates
<1> HIDE DEF end
<1>a. w \in Worlds
  BY DEF Good, Sound
<1>b. [w.rounds EXCEPT ![w.current] = end] \in [Rounds -> RoundStates]
  BY <1>1, <1>a DEF Worlds
<1>c. 0 \in 0 .. NRounds
  BY SizeAssumption
<1>2. v \in Worlds /\ v.tasks = w.tasks /\ v.capture = w.capture /\ v.permits = w.permits
  BY <1>a, <1>b, <1>c DEF Worlds, States
<1>3. Sound(v, r)
  BY <1>2, Frame DEF Good
<1>4. Good(Save(v), r) /\ Good(Save(NextPassAfter(v)), r)
  BY <1>3, NextPassAfterSound, SaveGood
<1> QED
  BY <1>4 DEF FinishRound, end

LEMMA FinishSessionGood ==
  ASSUME NEW r, NEW w, Sound(w, r)
  PROVE  Good(FinishSession(w), r)
<1> DEFINE u == [w EXCEPT !.state = "done", !.timer = FALSE]
           v == Save(u)
           x == [v EXCEPT !.owned = FALSE]
<1>1. u \in Worlds /\ u.tasks = w.tasks /\ u.capture = w.capture /\ u.permits = w.permits
  BY DEF Sound, Worlds, States
<1>2. Good(v, r)
  BY <1>1, Frame, SaveGood
<1> HIDE DEF v
<1>3. /\ x \in Worlds /\ x.tasks = v.tasks /\ x.capture = v.capture
      /\ x.permits = v.permits /\ x.disk.tasks = v.disk.tasks
  BY <1>2 DEF Good, Sound, Worlds
<1> QED
  BY <1>2, <1>3, Frame DEF FinishSession, v

LEMMA StoppedGood ==
  ASSUME NEW r, NEW w, Good(w, r)
  PROVE  Good(Stopped(w), r)
BY FinishRoundGood, FinishSessionGood DEF Stopped, Good

-----------------------------------------------------------------------------
(* From one request to the next. *)
LEMMA NextQueuedType ==
  ASSUME NEW w \in Worlds, QueuedRows(w) # {}
  PROVE  NextQueued(w) \in Keys /\ w.tasks[NextQueued(w)] = "queued"
<1>1. QueuedRows(w) \in SUBSET Nat
  BY DEF QueuedRows, Rows
<1>2. \E i \in QueuedRows(w) : \A j \in QueuedRows(w) : i <= j
  BY <1>1, LeastExists
<1> DEFINE k == CHOOSE i \in QueuedRows(w) : \A j \in QueuedRows(w) : i <= j
<1>3. k \in QueuedRows(w)
  BY <1>2
<1> HIDE DEF k
<1>4. k \in Rows /\ InPass(w) /\ w.tasks[<<w.current, k>>] = "queued"
  BY <1>3 DEF QueuedRows
<1>5. w.current \in Rounds
  BY <1>4, SizeAssumption DEF Worlds, InPass, Rounds
<1>6. NextQueued(w) = <<w.current, k>>
  BY DEF NextQueued, k
<1>7. <<w.current, k>> \in Keys
  BY <1>4, <1>5 DEF Keys
<1> QED
  BY <1>4, <1>6, <1>7

LEMMA StartNextTaskGood ==
  ASSUME NEW r, NEW w, NEW gate, Good(w, r)
  PROVE  Good(StartNextTask(w, gate), r)
<1>1. w \in Worlds /\ Sound(w, r)
  BY DEF Good, Sound
<1>2. Good(Save([w EXCEPT !.state = "paused_backlog"]), r)
  <2> DEFINE v == [w EXCEPT !.state = "paused_backlog"]
  <2>1. v \in Worlds /\ v.tasks = w.tasks /\ v.capture = w.capture /\ v.permits = w.permits
    BY <1>1 DEF Worlds, States
  <2> QED
    BY <1>1, <2>1, Frame, SaveGood
<1>3. Good([w EXCEPT !.preflightPending = TRUE], r)
  <2> DEFINE v == [w EXCEPT !.preflightPending = TRUE]
  <2>1. /\ v \in Worlds /\ v.tasks = w.tasks /\ v.capture = w.capture
        /\ v.permits = w.permits /\ v.disk.tasks = w.disk.tasks
    BY <1>1 DEF Worlds
  <2> QED
    BY <2>1, Frame
<1>4. Good([w EXCEPT !.settlePending = TRUE], r)
  <2> DEFINE v == [w EXCEPT !.settlePending = TRUE]
  <2>1. /\ v \in Worlds /\ v.tasks = w.tasks /\ v.capture = w.capture
        /\ v.permits = w.permits /\ v.disk.tasks = w.disk.tasks
    BY <1>1 DEF Worlds
  <2> QED
    BY <2>1, Frame
<1>5. QueuedRows(w) # {} => Good([w EXCEPT !.idleCheck = NextQueued(w)], r)
  <2> SUFFICES ASSUME QueuedRows(w) # {}
               PROVE  Good([w EXCEPT !.idleCheck = NextQueued(w)], r)
    OBVIOUS
  <2> DEFINE v == [w EXCEPT !.idleCheck = NextQueued(w)]
  <2>1. NextQueued(w) \in Keys \cup {None}
    BY <1>1, NextQueuedType
  <2>2. /\ v \in Worlds /\ v.tasks = w.tasks /\ v.capture = w.capture
        /\ v.permits = w.permits /\ v.disk.tasks = w.disk.tasks
    BY <1>1, <2>1 DEF Worlds
  <2> QED
    BY <2>2, Frame
<1>6. Good(Stopped(w), r) /\ Good(PausedNow(w), r) /\ Good(FinishRound(w, FALSE), r)
  BY <1>1, StoppedGood, PausedNowGood, FinishRoundGood
<1> QED
  BY <1>2, <1>3, <1>4, <1>5, <1>6 DEF StartNextTask

LEMMA AfterTaskGood ==
  ASSUME NEW r, NEW w, NEW gate, Good(w, r)
  PROVE  Good(AfterTask(w, gate), r)
<1>1. w \in Worlds /\ Sound(w, r)
  BY DEF Good, Sound
<1>2. Good([w EXCEPT !.state = "running"], r)
  <2> DEFINE v == [w EXCEPT !.state = "running"]
  <2>1. /\ v \in Worlds /\ v.tasks = w.tasks /\ v.capture = w.capture
        /\ v.permits = w.permits /\ v.disk.tasks = w.disk.tasks
    BY <1>1 DEF Worlds, States
  <2> QED
    BY <2>1, Frame
<1>3. Good(StartNextTask([w EXCEPT !.state = "running"], gate), r)
  BY <1>2, StartNextTaskGood
<1>4. /\ Good(Stopped(w), r) /\ Good(PausedNow(w), r) /\ Good(FinishRound(w, FALSE), r)
      /\ Good(BeginWait(w), r)
  BY <1>1, StoppedGood, PausedNowGood, FinishRoundGood, BeginWaitGood
<1> QED
  BY <1>3, <1>4 DEF AfterTask

(* A row whose request start_capture refuses is not sent. *)
LEMMA RefusedGood ==
  ASSUME NEW r \in [Keys -> Nat], NEW w, NEW t \in Keys, Good(w, r)
  PROVE  Good(Save([w EXCEPT !.tasks[t] = "not_sent", !.attempts[t] = @ + 1]), r)
<1> DEFINE v == [w EXCEPT !.tasks[t] = "not_sent", !.attempts[t] = @ + 1]
<1>1. w \in Worlds /\ Sound(w, r)
  BY DEF Good, Sound
<1>2. [w.tasks EXCEPT ![t] = "not_sent"] \in [Keys -> Statuses]
  BY <1>1 DEF Worlds, Statuses
<1>3. [w.attempts EXCEPT ![t] = @ + 1] \in [Keys -> Nat]
  BY <1>1 DEF Worlds
<1>4. /\ v \in Worlds /\ v.tasks = [w.tasks EXCEPT ![t] = "not_sent"]
      /\ v.capture = w.capture /\ v.permits = w.permits
  BY <1>1, <1>2, <1>3 DEF Worlds
<1> HIDE DEF v
<1>5. ASSUME SavesFirst, NEW u \in Keys
      PROVE  r[u] + ToCome(v, u) <= v.permits[u]
  <2>1. r[u] + ToCome(w, u) <= w.permits[u] /\ w.permits[u] \in Nat /\ r[u] \in Nat
    BY <1>1, <1>5 DEF Sound, Owed, Worlds
  <2>2. v.tasks[u] = IF u = t THEN "not_sent" ELSE w.tasks[u]
    BY <1>1, <1>4 DEF Worlds
  <2> QED
    BY <1>4, <2>1, <2>2 DEF ToCome, OnItsWay
<1> QED
  BY <1>4, <1>5, SaveGood DEF Sound, Owed, v

(* The request goes out for a queued row: what was owed to the row is now on its way. *)
LEMMA SubmitGood ==
  ASSUME NEW r \in [Keys -> Nat], NEW w, NEW t \in Keys, NEW answer \in AllAnswers, NEW gate,
         Good(w, r), w.tasks[t] = "queued"
  PROVE  Good(Submit(w, t, answer, gate), r)
<1>1. w \in Worlds /\ Sound(w, r)
  BY DEF Good, Sound
<1>2. Good(Save([w EXCEPT !.state = "paused_backlog"]), r)
  <2> DEFINE v == [w EXCEPT !.state = "paused_backlog"]
  <2>1. v \in Worlds /\ v.tasks = w.tasks /\ v.capture = w.capture /\ v.permits = w.permits
    BY <1>1 DEF Worlds, States
  <2> QED
    BY <1>1, <2>1, Frame, SaveGood
<1>3. [w.attempts EXCEPT ![t] = @ + 1] \in [Keys -> Nat]
  BY <1>1 DEF Worlds
<1>4. Good(AfterTask(Save([w EXCEPT !.tasks[t] = "not_sent", !.attempts[t] = @ + 1]), gate), r)
  BY RefusedGood, AfterTaskGood
<1>5. Good(Save([w EXCEPT !.capture = [key |-> t, phase |-> "sent", outcome |-> "open"],
                          !.posts[t] = @ + 1, !.inFlight = TRUE, !.storageSettled = FALSE,
                          !.tasks[t] = "submitting", !.attempts[t] = @ + 1]), r)
  <2> DEFINE c == [key |-> t, phase |-> "sent", outcome |-> "open"]
             v == [w EXCEPT !.capture = c, !.posts[t] = @ + 1, !.inFlight = TRUE,
                            !.storageSettled = FALSE, !.tasks[t] = "submitting",
                            !.attempts[t] = @ + 1]
  <2>1. [w.tasks EXCEPT ![t] = "submitting"] \in [Keys -> Statuses]
    BY <1>1 DEF Worlds, Statuses
  <2>2. c \in CaptureType
    BY DEF CaptureType
  <2>3. [w.posts EXCEPT ![t] = @ + 1] \in [Keys -> Nat]
    BY <1>1 DEF Worlds
  <2> HIDE DEF c
  <2>4. /\ v \in Worlds /\ v.tasks = [w.tasks EXCEPT ![t] = "submitting"]
        /\ v.capture = c /\ v.permits = w.permits
    BY <1>1, <1>3, <2>1, <2>2, <2>3 DEF Worlds
  <2> HIDE DEF v
  <2>5. ASSUME SavesFirst, NEW u \in Keys
        PROVE  r[u] + ToCome(v, u) <= v.permits[u]
    <3>1. r[u] + ToCome(w, u) <= w.permits[u] /\ w.permits[u] \in Nat /\ r[u] \in Nat
      BY <1>1, <2>5 DEF Sound, Owed, Worlds
    <3>2. v.tasks[u] = IF u = t THEN "submitting" ELSE w.tasks[u]
      BY <1>1, <2>4 DEF Worlds
    <3>3. OnItsWay(v.capture, u) = IF u = t THEN 1 ELSE 0
      BY <2>4 DEF OnItsWay, c
    <3> QED
      BY <2>4, <3>1, <3>2, <3>3 DEF ToCome, OnItsWay
  <2>6. Sound(v, r)
    BY <2>4, <2>5 DEF Sound, Owed
  <2> QED
    BY <2>6, SaveGood DEF v, c
<1> QED
  BY <1>1, <1>2, <1>4, <1>5, PausedNowGood DEF Submit, AllAnswers

(* The rows of a pass are asked for once each as it starts. *)
LEMMA StartRoundGood ==
  ASSUME NEW r \in [Keys -> Nat], NEW w, NEW i \in Rounds, NEW gate, Good(w, r)
  PROVE  Good(StartRound(w, i, gate), r)
<1> DEFINE newTasks == [t \in Keys |-> IF t[1] = i THEN "queued" ELSE w.tasks[t]]
           newPermits == [t \in Keys |-> IF t[1] = i THEN w.permits[t] + 1 ELSE w.permits[t]]
           v == [w EXCEPT !.rounds[i] = "running", !.current = i, !.tasks = newTasks,
                          !.permits = newPermits, !.state = "running",
                          !.preflightDue = TRUE, !.checked = FALSE]
<1>1. w \in Worlds /\ Sound(w, r)
  BY DEF Good, Sound
<1>2. newTasks \in [Keys -> Statuses] /\ newPermits \in [Keys -> Nat]
  BY <1>1 DEF Worlds, Statuses
<1>3. [w.rounds EXCEPT ![i] = "running"] \in [Rounds -> RoundStates]
  BY <1>1 DEF Worlds, RoundStates
<1>4. i \in 0 .. NRounds
  BY SizeAssumption DEF Rounds
<1>5. \A t \in Keys : /\ newTasks[t] = IF t[1] = i THEN "queued" ELSE w.tasks[t]
                      /\ newPermits[t] = IF t[1] = i THEN w.permits[t] + 1 ELSE w.permits[t]
  OBVIOUS
<1> HIDE DEF newTasks, newPermits
<1>6. /\ v \in Worlds /\ v.tasks = newTasks /\ v.permits = newPermits
      /\ v.capture = w.capture
  BY <1>1, <1>2, <1>3, <1>4 DEF Worlds, States
<1> HIDE DEF v
<1>7. ASSUME SavesFirst, NEW t \in Keys
      PROVE  r[t] + ToCome(v, t) <= v.permits[t]
  <2>1. r[t] + ToCome(w, t) <= w.permits[t] /\ w.permits[t] \in Nat /\ r[t] \in Nat
    BY <1>1, <1>7 DEF Sound, Owed, Worlds
  <2> QED
    BY <1>5, <1>6, <2>1 DEF ToCome, OnItsWay
<1>8. Sound(v, r)
  BY <1>6, <1>7 DEF Sound, Owed
<1>9. Good(StartNextTask(Save(v), gate), r)
  BY <1>8, SaveGood, StartNextTaskGood
<1> QED
  BY <1>9 DEF StartRound, v, newTasks, newPermits

(* The timer. *)
LEMMA StateGood ==
  ASSUME NEW r, NEW w, NEW s \in States, Good(w, r)
  PROVE  Good([w EXCEPT !.state = s], r)
<1> DEFINE v == [w EXCEPT !.state = s]
<1>1. w \in Worlds
  BY DEF Good, Sound
<1>2. /\ v \in Worlds /\ v.tasks = w.tasks /\ v.capture = w.capture
      /\ v.permits = w.permits /\ v.disk.tasks = w.disk.tasks
  BY <1>1 DEF Worlds
<1> QED
  BY <1>2, Frame

LEMMA TickBetweenPassesGood ==
  ASSUME NEW r \in [Keys -> Nat], NEW w, NEW gate, Good(w, r)
  PROVE  Good(TickBetweenPasses(w, gate), r)
<1> DEFINE c == Classify(w, FALSE)
<1>1. Good(c, r)
  BY ClassifyGood
<1> HIDE DEF c
<1>2. Good([c EXCEPT !.state = "waiting_schedule"], r)
  BY <1>1, StateGood DEF States
<1>3. Good(FinishSession(c), r)
  BY <1>1, FinishSessionGood DEF Good
<1>4. Due(c) # {} => Good(StartRound(c, NextDue(c), gate), r)
  <2> SUFFICES ASSUME Due(c) # {}
               PROVE  Good(StartRound(c, NextDue(c), gate), r)
    OBVIOUS
  <2>1. Due(c) \in SUBSET Nat /\ Due(c) \subseteq Rounds
    BY DEF Due, Rounds
  <2>2. \E i \in Due(c) : \A j \in Due(c) : i <= j
    BY <2>1, LeastExists
  <2>3. NextDue(c) \in Rounds
    BY <2>1, <2>2 DEF NextDue
  <2> QED
    BY <1>1, <2>3, StartRoundGood
<1> QED
  BY <1>2, <1>3, <1>4 DEF TickBetweenPasses, c

LEMMA TickInPassGood ==
  ASSUME NEW r \in [Keys -> Nat], NEW w, NEW gate, NEW elapsed, Good(w, r)
  PROVE  Good(TickInPass(w, gate, elapsed), r)
<1> DEFINE c == Classify(w, TRUE)
<1>1. Good(c, r)
  BY ClassifyGood
<1> HIDE DEF c
<1>2. Good([c EXCEPT !.state = "running"], r)
  BY <1>1, StateGood DEF States
<1>3. /\ Good(StartNextTask([c EXCEPT !.state = "running"], gate), r)
      /\ Good(StartNextTask(c, gate), r)
  BY <1>1, <1>2, StartNextTaskGood
<1> QED
  BY <1>1, <1>3 DEF TickInPass, c

LEMMA TickGood ==
  ASSUME NEW r \in [Keys -> Nat], NEW w, NEW gate, NEW elapsed, Good(w, r)
  PROVE  Good(Tick(w, gate, elapsed), r)
<1> DEFINE s == IF InPass(w) THEN "running" ELSE "waiting_schedule"
           caughtUp == [w EXCEPT !.state = s]
           v == IF w.state = "paused_backlog" THEN caughtUp ELSE w
<1>1. s \in States
  BY DEF States
<1> HIDE DEF s
<1>2. Good(v, r)
  BY <1>1, StateGood
<1> HIDE DEF v
<1>3. Good(TickInPass(v, gate, elapsed), r) /\ Good(TickBetweenPasses(v, gate), r)
  BY <1>2, TickInPassGood, TickBetweenPassesGood
<1> QED
  BY <1>3 DEF Tick, v, s

-----------------------------------------------------------------------------
(* The row gets its status before anything follows from it. *)
Reported(w) ==
  LET t == w.capture.key
      o == w.capture.outcome
  IN  Save([w EXCEPT !.inFlight = FALSE,
                     !.capture = NoCapture,
                     !.recordOf[t] = IF o = "not_sent" THEN @ ELSE w.posts[t],
                     !.tasks[t] = StatusAfter(o, w.attempts[t])])

(* Only a request that was not sent puts its row back in the queue, and that one was still
   counted as under way.                                                              *)
LEMMA OnCaptureFinishedGood ==
  ASSUME NEW r \in [Keys -> Nat], NEW w, NEW gate, Good(w, r),
         w.capture.phase = "reported"
  PROVE  Good(Reported(w), r) /\ Good(OnCaptureFinished(w, gate), r)
<1> DEFINE k == w.capture.key
           o == w.capture.outcome
           record == IF o = "not_sent" THEN w.recordOf[k] ELSE w.posts[k]
           status == StatusAfter(o, w.attempts[k])
           v == [w EXCEPT !.inFlight = FALSE, !.capture = NoCapture,
                          !.recordOf[k] = record, !.tasks[k] = status]
<1>1. w \in Worlds /\ Sound(w, r)
  BY DEF Good, Sound
<1>2. k \in Keys \cup {None}
  BY <1>1 DEF Worlds, CaptureType
<1>3. NoCapture \in CaptureType
  BY DEF NoCapture, CaptureType
<1>4. /\ status \in Statuses
      /\ status = "queued" => o = "not_sent"
  BY DEF StatusAfter, Statuses, Confirmed
<1>5. k \in Keys => record \in Nat
  BY <1>1 DEF Worlds
<1> HIDE DEF status, record
<1>6. [w.tasks EXCEPT ![k] = status] \in [Keys -> Statuses]
  BY <1>1, <1>4 DEF Worlds
<1>7. [w.recordOf EXCEPT ![k] = record] \in [Keys -> Nat]
  BY <1>1, <1>5 DEF Worlds
<1>8. /\ v \in Worlds /\ v.tasks = [w.tasks EXCEPT ![k] = status]
      /\ v.capture = NoCapture /\ v.permits = w.permits
  BY <1>1, <1>3, <1>6, <1>7 DEF Worlds
<1> HIDE DEF v
<1>9. ASSUME SavesFirst, NEW t \in Keys
      PROVE  r[t] + ToCome(v, t) <= v.permits[t]
  <2>1. r[t] + ToCome(w, t) <= w.permits[t] /\ w.permits[t] \in Nat /\ r[t] \in Nat
    BY <1>1, <1>9 DEF Sound, Owed, Worlds
  <2>2. v.tasks[t] = IF t = k THEN status ELSE w.tasks[t]
    BY <1>1, <1>8 DEF Worlds
  <2>3. OnItsWay(v.capture, t) = 0
    BY <1>8 DEF OnItsWay, NoCapture
  <2>4. OnItsWay(w.capture, t) = IF t = k /\ o = "not_sent" THEN 1 ELSE 0
    BY DEF OnItsWay
  <2> QED
    BY <1>4, <1>8, <2>1, <2>2, <2>3, <2>4 DEF ToCome
<1>10. Sound(v, r)
  BY <1>8, <1>9 DEF Sound, Owed
<1>11. Good(Save(v), r) /\ Good(AfterTask(Save(v), gate), r)
  BY <1>10, SaveGood, AfterTaskGood
<1> QED
  BY <1>11 DEF OnCaptureFinished, Reported, v, status, record

(* The answers of the workers. *)
LEMMA OnPreflightGood ==
  ASSUME NEW r \in [Keys -> Nat], NEW w, NEW blocking, NEW gate, Good(w, r)
  PROVE  Good(OnPreflight(w, blocking, gate), r)
<1> DEFINE a == [w EXCEPT !.preflightPending = FALSE]
           b == [a EXCEPT !.preflightDue = TRUE]
           p == [a EXCEPT !.preflightDue = FALSE, !.checked = TRUE]
<1>1. w \in Worlds
  BY DEF Good, Sound
<1>2. a \in Worlds /\ a.tasks = w.tasks /\ a.capture = w.capture /\ a.permits = w.permits
  BY <1>1 DEF Worlds
<1> HIDE DEF a
<1>3. b \in Worlds /\ b.tasks = w.tasks /\ b.capture = w.capture /\ b.permits = w.permits
  BY <1>2 DEF Worlds
<1>4. p \in Worlds /\ p.tasks = w.tasks /\ p.capture = w.capture /\ p.permits = w.permits
  BY <1>2 DEF Worlds
<1> HIDE DEF b, p
<1>5. Sound(b, r) /\ Sound(p, r)
  BY <1>3, <1>4, Frame DEF Good
<1>6. Good(PausedNow(b), r) /\ Good(Save(p), r) /\ Good(StartNextTask(Save(p), gate), r)
  BY <1>5, PausedNowGood, SaveGood, StartNextTaskGood
<1> QED
  BY <1>6 DEF OnPreflight, a, b, p

LEMMA OnStorageSettledGood ==
  ASSUME NEW r \in [Keys -> Nat], NEW w, NEW gate, Good(w, r)
  PROVE  Good(OnStorageSettled(w, gate), r)
<1> DEFINE v == [w EXCEPT !.settlePending = FALSE, !.storageSettled = TRUE]
<1>1. w \in Worlds
  BY DEF Good, Sound
<1>2. /\ v \in Worlds /\ v.tasks = w.tasks /\ v.capture = w.capture
      /\ v.permits = w.permits /\ v.disk.tasks = w.disk.tasks
  BY <1>1 DEF Worlds
<1>3. Good(v, r)
  BY <1>2, Frame
<1> HIDE DEF v
<1> QED
  BY <1>3, StartNextTaskGood DEF OnStorageSettled, v

LEMMA OnIdleResultGood ==
  ASSUME NEW r \in [Keys -> Nat], NEW w, NEW idle, NEW answer \in AllAnswers, NEW gate,
         Good(w, r), w.idleCheck # None
  PROVE  Good(OnIdleResult(w, idle, answer, gate), r)
<1> DEFINE t == w.idleCheck
           v == [w EXCEPT !.idleCheck = None]
           busy == [v EXCEPT !.idleRetries = @ + 1]
           free == [v EXCEPT !.idleRetries = 0]
<1>1. w \in Worlds
  BY DEF Good, Sound
<1>2. t \in Keys
  BY <1>1 DEF Worlds
<1>3. /\ v \in Worlds /\ v.tasks = w.tasks /\ v.capture = w.capture
      /\ v.permits = w.permits /\ v.disk.tasks = w.disk.tasks
  BY <1>1 DEF Worlds
<1> HIDE DEF v
<1>4. v.idleRetries + 1 \in Nat
  BY <1>3 DEF Worlds
<1>5. /\ busy \in Worlds /\ busy.tasks = w.tasks /\ busy.capture = w.capture
      /\ busy.permits = w.permits /\ busy.disk.tasks = w.disk.tasks
  BY <1>3, <1>4 DEF Worlds
<1>6. /\ free \in Worlds /\ free.tasks = w.tasks /\ free.capture = w.capture
      /\ free.permits = w.permits /\ free.disk.tasks = w.disk.tasks
  BY <1>3 DEF Worlds
<1> HIDE DEF busy, free, t
<1>7. Good(v, r) /\ Good(busy, r) /\ Good(free, r)
  BY <1>3, <1>5, <1>6, Frame
<1>8. Good(StartNextTask(v, gate), r) /\ Good(PausedNow(busy), r) /\ Good(BeginWait(busy), r)
  BY <1>7, StartNextTaskGood, PausedNowGood, BeginWaitGood DEF Good
<1>9. v.tasks[t] = "queued" => Good(Submit(free, t, answer, gate), r)
  BY <1>2, <1>3, <1>6, <1>7, SubmitGood
<1> DEFINE stale == v.inFlight \/ v.tasks[t] # "queued" \/ v.current # t[1]
<1>10. CASE stale \/ ~MayGoOn(v)
  <2>1. OnIdleResult(w, idle, answer, gate) = v
    BY <1>10 DEF OnIdleResult, MayGoOn, v, t
  <2> QED
    BY <1>7, <2>1
<1>11. CASE ~stale /\ MayGoOn(v) /\ v.state \in {"pause_requested", "stop_requested"}
  <2>1. OnIdleResult(w, idle, answer, gate) = StartNextTask(v, gate)
    BY <1>11 DEF OnIdleResult, v, t
  <2> QED
    BY <1>8, <2>1
<1>12. CASE ~stale /\ MayGoOn(v) /\ v.state \notin {"pause_requested", "stop_requested"}
  <2>1. v.state = "running"
    BY <1>12 DEF MayGoOn
  <2>2. CASE idle
    <3>1. OnIdleResult(w, idle, answer, gate) = Submit(free, t, answer, gate)
      BY <1>12, <2>1, <2>2 DEF OnIdleResult, v, t, free
    <3> QED
      BY <1>9, <1>12, <3>1
  <2>3. CASE ~idle
    <3>1. OnIdleResult(w, idle, answer, gate)
            = IF busy.idleRetries > IdleRetries THEN PausedNow(busy) ELSE BeginWait(busy)
      BY <1>12, <2>1, <2>3 DEF OnIdleResult, v, t, busy
    <3> QED
      BY <1>8, <3>1
  <2> QED
    BY <2>2, <2>3
<1> QED
  BY <1>10, <1>11, <1>12

-----------------------------------------------------------------------------
(* The operator's commands. *)
LEMMA PauseGood ==
  ASSUME NEW r, NEW w, Good(w, r)
  PROVE  Good(Pause(w), r)
<1>1. Good([w EXCEPT !.state = "pause_requested"], r)
  BY StateGood DEF States
<1> QED
  BY <1>1, PausedNowGood, SaveGood DEF Pause, Good

LEMMA ResumeGood ==
  ASSUME NEW r \in [Keys -> Nat], NEW w, NEW gate, NEW elapsed, Good(w, r)
  PROVE  Good(Resume(w, gate, elapsed), r)
<1>1. \A s \in States : Good(Tick(Save([w EXCEPT !.state = s]), gate, elapsed), r)
  <2> TAKE s \in States
  <2>1. Good([w EXCEPT !.state = s], r)
    BY StateGood
  <2>2. Good(Save([w EXCEPT !.state = s]), r)
    BY <2>1, SaveGood DEF Good
  <2> QED
    BY <2>2, TickGood
<1>2. Good(Tick(Save(w), gate, elapsed), r)
  BY SaveGood, TickGood DEF Good
<1>3. {"running", "waiting", "waiting_schedule"} \subseteq States
  BY DEF States
<1> QED
  BY <1>1, <1>2, <1>3 DEF Resume

LEMMA StopGood ==
  ASSUME NEW r, NEW w, Good(w, r)
  PROVE  Good(Stop(w), r)
<1>1. Good([w EXCEPT !.state = "stop_requested"], r)
  BY StateGood DEF States
<1> QED
  BY <1>1, StoppedGood, SaveGood DEF Stop, Good

LEMMA StartSessionGood ==
  ASSUME NEW r \in [Keys -> Nat], NEW w, NEW gate, NEW elapsed, Good(w, r)
  PROVE  Good(StartSession(w, gate, elapsed), r)
<1> DEFINE first == [i \in Rounds |-> CASE Mode = "times" -> "pending"
                                        [] Mode = "now" /\ i = 1 -> "due"
                                        [] OTHER -> "none"]
           v == [w EXCEPT !.rounds = first, !.owned = TRUE, !.timer = TRUE,
                          !.state = "waiting_schedule"]
<1>1. first \in [Rounds -> RoundStates]
  BY DEF RoundStates
<1> HIDE DEF first
<1>2. w \in Worlds
  BY DEF Good, Sound
<1>3. /\ v \in Worlds /\ v.tasks = w.tasks /\ v.capture = w.capture
      /\ v.permits = w.permits /\ v.disk.tasks = w.disk.tasks
  BY <1>1, <1>2 DEF Worlds, States
<1> HIDE DEF v
<1>4. Good(v, r)
  BY <1>3, Frame
<1>5. Good(IF Mode = "times" THEN Classify(v, FALSE) ELSE v, r)
  BY <1>4, ClassifyGood
<1>6. Good(Save(IF Mode = "times" THEN Classify(v, FALSE) ELSE v), r)
  BY <1>5, SaveGood DEF Good
<1>7. Good(Tick(Save(IF Mode = "times" THEN Classify(v, FALSE) ELSE v), gate, elapsed), r)
  BY <1>6, TickGood
<1> QED
  BY <1>7 DEF StartSession, v, first

(* Each row that is retried is asked for once more. *)
LEMMA RetryGood ==
  ASSUME NEW r \in [Keys -> Nat], NEW w, NEW i \in Rounds, NEW gate, NEW elapsed, Good(w, r)
  PROVE  Good(Retry(w, i, gate, elapsed), r)
<1> DEFINE keys == RetryableKeys(w, i)
           newTasks == [t \in Keys |-> IF t \in keys THEN "queued" ELSE w.tasks[t]]
           newPermits == [t \in Keys |-> IF t \in keys THEN w.permits[t] + 1 ELSE w.permits[t]]
           status == IF InPass(w) THEN w.rounds[i] ELSE "running"
           s == IF AtRest(w) THEN "running" ELSE w.state
           holds == w.owned \/ AtRest(w)
           ticks == w.timer \/ AtRest(w)
           v == [w EXCEPT !.tasks = newTasks, !.permits = newPermits, !.rounds[i] = status,
                          !.current = i, !.owned = holds, !.timer = ticks, !.state = s]
<1>1. w \in Worlds /\ Sound(w, r)
  BY DEF Good, Sound
<1>2. newTasks \in [Keys -> Statuses] /\ newPermits \in [Keys -> Nat]
  BY <1>1 DEF Worlds, Statuses
<1>3. \A t \in Keys : /\ newTasks[t] = IF t \in keys THEN "queued" ELSE w.tasks[t]
                      /\ newPermits[t] = IF t \in keys THEN w.permits[t] + 1 ELSE w.permits[t]
  OBVIOUS
<1>4. \A t \in keys : w.tasks[t] # "queued"
  BY DEF RetryableKeys, Retryable
<1>5. status \in RoundStates /\ s \in States
  BY <1>1 DEF Worlds, RoundStates, States
<1>6. holds \in BOOLEAN /\ ticks \in BOOLEAN
  BY <1>1 DEF AtRest
<1> HIDE DEF newTasks, newPermits, status, s, keys, holds, ticks
<1>7. [w.rounds EXCEPT ![i] = status] \in [Rounds -> RoundStates]
  BY <1>1, <1>5 DEF Worlds
<1>8. i \in 0 .. NRounds
  BY SizeAssumption DEF Rounds
<1>9. /\ v \in Worlds /\ v.tasks = newTasks /\ v.permits = newPermits
      /\ v.capture = w.capture
  BY <1>1, <1>2, <1>5, <1>6, <1>7, <1>8 DEF Worlds
<1> HIDE DEF v
<1>10. ASSUME SavesFirst, NEW t \in Keys
       PROVE  r[t] + ToCome(v, t) <= v.permits[t]
  <2>1. r[t] + ToCome(w, t) <= w.permits[t] /\ w.permits[t] \in Nat /\ r[t] \in Nat
    BY <1>1, <1>10 DEF Sound, Owed, Worlds
  <2> QED
    BY <1>3, <1>4, <1>9, <2>1 DEF ToCome, OnItsWay
<1>11. Sound(v, r)
  BY <1>9, <1>10 DEF Sound, Owed
<1>12. Good(Tick(Save(v), gate, elapsed), r)
  BY <1>11, SaveGood, TickGood
<1>13. Retry(w, i, gate, elapsed)
         = IF RetryRefused(w, i) THEN w ELSE Tick(Save(v), gate, elapsed)
  BY DEF Retry, v, newTasks, newPermits, status, s, keys, holds, ticks
<1> QED
  BY <1>12, <1>13

(* No row is queued by a file check or by skipping. *)
LEMMA Downgrade ==
  ASSUME NEW r \in [Keys -> Nat], NEW w, Sound(w, r),
         NEW f \in [Keys -> Statuses],
         \A t \in Keys : f[t] = "queued" => w.tasks[t] = "queued"
  PROVE  Sound([w EXCEPT !.tasks = f], r)
<1> DEFINE v == [w EXCEPT !.tasks = f]
<1>1. w \in Worlds
  BY DEF Sound
<1>2. v \in Worlds /\ v.tasks = f /\ v.capture = w.capture /\ v.permits = w.permits
  BY <1>1 DEF Worlds
<1> HIDE DEF v
<1>3. ASSUME SavesFirst, NEW t \in Keys
      PROVE  r[t] + ToCome(v, t) <= v.permits[t]
  <2>1. r[t] + ToCome(w, t) <= w.permits[t] /\ w.permits[t] \in Nat /\ r[t] \in Nat
    BY <1>1, <1>3 DEF Sound, Owed, Worlds
  <2> QED
    BY <1>2, <2>1 DEF ToCome, OnItsWay
<1>4. Sound(v, r)
  BY <1>2, <1>3 DEF Sound, Owed
<1> QED
  BY <1>4 DEF v

LEMMA OnFilesCheckedGood ==
  ASSUME NEW r \in [Keys -> Nat], NEW w, NEW wanted, NEW verdict \in Confirmed, Sound(w, r)
  PROVE  Good(OnFilesChecked(w, wanted, verdict), r)
<1> DEFINE found(t) == \E n \in recorded[t] : <<t, n>> \in wanted
           f == [t \in Keys |-> CASE t \notin UncertainKeys(w) -> w.tasks[t]
                                  [] t \in UncertainKeys(w) /\ found(t) -> verdict
                                  [] OTHER -> "no_file"]
           v == [w EXCEPT !.tasks = f]
           counts == [i \in Rounds |->
                        IF i # v.current /\ v.rounds[i] \in {"done", "partial", "failed"}
                          THEN Verdict(v, i) ELSE v.rounds[i]]
           u == [v EXCEPT !.rounds = counts]
<1>1. w \in Worlds
  BY DEF Sound
<1>2. f \in [Keys -> Statuses] /\ \A t \in Keys : f[t] = "queued" => w.tasks[t] = "queued"
  BY <1>1 DEF Worlds, Statuses, Confirmed
<1> HIDE DEF f
<1>3. Sound(v, r)
  BY <1>2, Downgrade
<1> HIDE DEF v
<1>4. counts \in [Rounds -> RoundStates]
  BY <1>3, VerdictType DEF Sound, Worlds
<1> HIDE DEF counts
<1>5. u \in Worlds /\ u.tasks = v.tasks /\ u.capture = v.capture /\ u.permits = v.permits
  BY <1>3, <1>4 DEF Sound, Worlds
<1>6. Good(Save(u), r)
  BY <1>3, <1>5, Frame, SaveGood
<1> QED
  BY <1>6 DEF OnFilesChecked, Recount, f, v, counts, u

LEMMA SkipUncertainGood ==
  ASSUME NEW r \in [Keys -> Nat], NEW w, Good(w, r)
  PROVE  Good(SkipUncertain(w), r)
<1> DEFINE meant == {IF InPass(w) THEN <<w.current, t[2]>> ELSE t : t \in UncertainKeys(w)}
           skipped == {t \in meant : w.tasks[t] \notin Confirmed \cup {"none"}}
           f == [t \in Keys |-> IF t \in skipped THEN "skipped" ELSE w.tasks[t]]
<1>1. w \in Worlds /\ Sound(w, r)
  BY DEF Good, Sound
<1> HIDE DEF skipped
<1>2. f \in [Keys -> Statuses] /\ \A t \in Keys : f[t] = "queued" => w.tasks[t] = "queued"
  BY <1>1 DEF Worlds, Statuses
<1> HIDE DEF f
<1>3. Good(Save([w EXCEPT !.tasks = f]), r)
  BY <1>1, <1>2, Downgrade, SaveGood
<1> QED
  BY <1>3 DEF SkipUncertain, f, skipped

(* A frame of the handlers that leave rows, capture, permissions and file alone. *)
LEMMA MarkMissedGood ==
  ASSUME NEW r, NEW w, Good(w, r)
  PROVE  Good(MarkMissed(w), r)
<1> DEFINE f == [i \in Rounds |-> IF w.rounds[i] \in Open /\ clock[i] # "ahead" THEN "missed"
                                  ELSE w.rounds[i]]
           v == [w EXCEPT !.rounds = f]
<1>1. w \in Worlds
  BY DEF Good, Sound
<1>2. f \in [Rounds -> RoundStates]
  BY <1>1 DEF Worlds, RoundStates
<1> HIDE DEF f
<1>3. /\ v \in Worlds /\ v.tasks = w.tasks /\ v.capture = w.capture
      /\ v.permits = w.permits /\ v.disk.tasks = w.disk.tasks
  BY <1>1, <1>2 DEF Worlds
<1>4. Good(v, r)
  BY <1>3, Frame
<1> QED
  BY <1>4 DEF MarkMissed, f, v

LEMMA ContinueGood ==
  ASSUME NEW r \in [Keys -> Nat], NEW w, NEW gate, NEW elapsed, Good(w, r)
  PROVE  Good(Continue(w, gate, elapsed), r)
<1> DEFINE held == [w EXCEPT !.owned = TRUE, !.timer = TRUE, !.inFlight = FALSE]
           marked == MarkMissed(held)
           s == IF InPass(w) THEN "running" ELSE "waiting_schedule"
           on == [marked EXCEPT !.state = s, !.preflightDue = InPass(w)]
           rest == [w EXCEPT !.downloadsOnly = FALSE, !.state = "done"]
<1>1. w \in Worlds
  BY DEF Good, Sound
<1>2. /\ held \in Worlds /\ held.tasks = w.tasks /\ held.capture = w.capture
      /\ held.permits = w.permits /\ held.disk.tasks = w.disk.tasks
  BY <1>1 DEF Worlds
<1> HIDE DEF held
<1>3. Good(marked, r)
  BY <1>2, Frame, MarkMissedGood
<1> HIDE DEF marked
<1>4. s \in States /\ InPass(w) \in BOOLEAN
  BY DEF States, InPass
<1> HIDE DEF s
<1>5. /\ on \in Worlds /\ on.tasks = marked.tasks /\ on.capture = marked.capture
      /\ on.permits = marked.permits /\ on.disk.tasks = marked.disk.tasks
  BY <1>3, <1>4 DEF Good, Sound, Worlds
<1> HIDE DEF on
<1>6. /\ rest \in Worlds /\ rest.tasks = w.tasks /\ rest.capture = w.capture
      /\ rest.permits = w.permits /\ rest.disk.tasks = w.disk.tasks
  BY <1>1 DEF Worlds, States
<1> HIDE DEF rest
<1>7. Good(on, r) /\ Good(rest, r) /\ Good(FinishRound(marked, FALSE), r)
  BY <1>3, <1>5, <1>6, Frame, FinishRoundGood
<1>8. Good(Save(on), r) /\ Good(Save(rest), r) /\ Good(Save(FinishRound(marked, FALSE)), r)
  BY <1>7, SaveGood DEF Good
<1>9. /\ Good(Tick(Save(on), gate, elapsed), r)
      /\ Good(Tick(Save(FinishRound(marked, FALSE)), gate, elapsed), r)
  BY <1>8, TickGood
<1>10. CASE w.downloadsOnly
  <2>1. Continue(w, gate, elapsed) = Save(rest)
    BY <1>10 DEF Continue, rest
  <2> QED
    BY <1>8, <2>1
<1>11. CASE ~w.downloadsOnly /\ InPass(w) /\ QueuedRows(w) = {}
  <2>1. Continue(w, gate, elapsed) = Tick(Save(FinishRound(marked, FALSE)), gate, elapsed)
    BY <1>11 DEF Continue, marked, held
  <2> QED
    BY <1>9, <2>1
<1>12. CASE ~w.downloadsOnly /\ ~(InPass(w) /\ QueuedRows(w) = {})
  <2>1. Continue(w, gate, elapsed) = Tick(Save(on), gate, elapsed)
    BY <1>12 DEF Continue, on, marked, held, s
  <2> QED
    BY <1>9, <2>1
<1> QED
  BY <1>1, <1>10, <1>11, <1>12 DEF Worlds

LEMMA RunMissedGood ==
  ASSUME NEW r \in [Keys -> Nat], NEW w, NEW i, NEW gate, NEW elapsed, Good(w, r)
  PROVE  Good(RunMissed(w, i, gate, elapsed), r)
<1> DEFINE c == IF w.state = "interrupted" THEN Continue(w, gate, elapsed) ELSE w
           rested == c.state \in {"done", "idle"}
           s == IF rested THEN "waiting_schedule" ELSE c.state
           holds == c.owned \/ rested
           ticks == c.timer \/ rested
           v == [c EXCEPT !.rounds[i] = "due", !.owned = holds, !.timer = ticks, !.state = s]
<1>1. Good(c, r)
  BY ContinueGood
<1> HIDE DEF c
<1>2. c \in Worlds
  BY <1>1 DEF Good, Sound
<1>3. s \in States /\ holds \in BOOLEAN /\ ticks \in BOOLEAN
  BY <1>2 DEF Worlds, States
<1> HIDE DEF s, holds, ticks
<1>4. [c.rounds EXCEPT ![i] = "due"] \in [Rounds -> RoundStates]
  BY <1>2 DEF Worlds, RoundStates
<1>5. v \in Worlds
  BY <1>2, <1>3, <1>4 DEF Worlds
<1>6. /\ v.tasks = c.tasks /\ v.capture = c.capture
      /\ v.permits = c.permits /\ v.disk = c.disk
  BY <1>2 DEF Worlds
<1> HIDE DEF v
<1>7. Good(v, r)
  BY <1>1, <1>5, <1>6, Frame
<1>8. Good(Tick(Save(v), gate, elapsed), r)
  BY <1>7, SaveGood, TickGood DEF Good
<1>9. RunMissed(w, i, gate, elapsed)
        = IF rested /\ ~CanReserve THEN c ELSE Tick(Save(v), gate, elapsed)
  BY DEF RunMissed, c, s, holds, ticks, v
<1> QED
  BY <1>1, <1>8, <1>9

LEMMA SkipMissedGood ==
  ASSUME NEW r, NEW w, NEW i, Good(w, r)
  PROVE  Good(SkipMissed(w, i), r)
<1> DEFINE v == [w EXCEPT !.rounds[i] = "skipped"]
<1>1. w \in Worlds /\ Sound(w, r)
  BY DEF Good, Sound
<1>2. v \in Worlds /\ v.tasks = w.tasks /\ v.capture = w.capture /\ v.permits = w.permits
  BY <1>1 DEF Worlds, RoundStates
<1> HIDE DEF v
<1>3. Good(Save(v), r)
  BY <1>1, <1>2, Frame, SaveGood
<1> QED
  BY <1>3 DEF SkipMissed, v

LEMMA LoadedGood ==
  ASSUME NEW r, NEW w, NEW unfinished \in BOOLEAN, Good(w, r)
  PROVE  Good(Loaded(w, unfinished), r)
<1> DEFINE done == w.disk.state = "done"
           s == IF done /\ ~unfinished THEN "done" ELSE "interrupted"
           only == done /\ unfinished
           v == [w EXCEPT !.state = s, !.downloadsOnly = only]
<1>1. w \in Worlds
  BY DEF Good, Sound
<1>2. s \in States /\ only \in BOOLEAN
  BY DEF States
<1> HIDE DEF s, only
<1>3. /\ v \in Worlds /\ v.tasks = w.tasks /\ v.capture = w.capture
      /\ v.permits = w.permits /\ v.disk.tasks = w.disk.tasks
  BY <1>1, <1>2 DEF Worlds
<1> HIDE DEF v
<1>4. Good(v, r) /\ Good(MarkMissed(v), r)
  BY <1>3, Frame, MarkMissedGood
<1> QED
  BY <1>4 DEF Loaded, v, s, only

(* The application ends: what was on its way may arrive after all. *)
LEMMA ClosedType ==
  ASSUME NEW w \in Worlds
  PROVE  /\ Closed(w) \in Worlds
         /\ Closed(w).tasks = w.disk.tasks /\ Closed(w).disk.tasks = w.disk.tasks
         /\ Closed(w).capture = NoCapture /\ Closed(w).permits = w.permits
<1> DEFINE u == Restored(w)
           x == Forgotten(u)
           y == Released(x)
<1>1. /\ w.disk \in SessionType /\ NoCapture \in CaptureType
      /\ "closed" \in States /\ None \in Keys \cup {None}
  BY DEF Worlds, States, NoCapture, CaptureType
<1>2. /\ w.disk.current \in 0 .. NRounds /\ w.disk.rounds \in [Rounds -> RoundStates]
      /\ w.disk.tasks \in [Keys -> Statuses] /\ w.disk.attempts \in [Keys -> Nat]
      /\ w.disk.recordOf \in [Keys -> Nat]
  BY <1>1 DEF SessionType
<1>3. /\ u \in Worlds /\ u.tasks = w.disk.tasks /\ u.disk = w.disk
      /\ u.permits = w.permits
  <2> DEFINE rows == RestoredRows(w)
  <2>1. /\ rows \in Worlds /\ rows.tasks = w.disk.tasks /\ rows.disk = w.disk
        /\ rows.permits = w.permits
    BY <1>2 DEF RestoredRows, Worlds
  <2>2. u = [rows EXCEPT !.current = w.disk.current, !.rounds = w.disk.rounds]
    BY Zenon DEF Restored
  <2> HIDE DEF rows, u
  <2> QED
    BY <1>2, <2>1, <2>2 DEF Worlds
<1> HIDE DEF u
<1>4. x \in Worlds /\ x.tasks = u.tasks /\ x.disk = u.disk /\ x.permits = u.permits
  <2> DEFINE a == [u EXCEPT !.inFlight = FALSE, !.preflightDue = FALSE, !.preflightPending = FALSE]
  <2>0. x = [a EXCEPT !.storageSettled = FALSE, !.settlePending = FALSE, !.downloadsOnly = FALSE]
    BY Zenon DEF Forgotten
  <2>1. x \in Worlds
    <3>1. a \in Worlds
      BY <1>3 DEF Worlds
    <3> HIDE DEF a, x
    <3> QED
      BY <2>0, <3>1 DEF Worlds
  <2>2. x.tasks = u.tasks /\ x.disk = u.disk /\ x.permits = u.permits
    BY <1>3 DEF Forgotten, Worlds
  <2> QED
    BY <2>1, <2>2
<1> HIDE DEF x
<1>5. y \in Worlds /\ y.tasks = x.tasks /\ y.disk = x.disk /\ y.permits = x.permits
  BY <1>4 DEF Released, Worlds
<1> HIDE DEF y
<1>6. Closed(w) = [y EXCEPT !.state = "closed", !.idleCheck = None, !.capture = NoCapture]
  BY Zenon DEF Closed, y, x, u
<1>7. /\ Closed(w) \in Worlds /\ Closed(w).tasks = y.tasks /\ Closed(w).disk = y.disk
      /\ Closed(w).capture = NoCapture /\ Closed(w).permits = y.permits
  BY <1>1, <1>5, <1>6 DEF Worlds
<1> QED
  BY <1>3, <1>4, <1>5, <1>7

LEMMA ClosedGood ==
  ASSUME NEW r \in [Keys -> Nat], NEW q \in [Keys -> Nat], NEW w, Good(w, r),
         \A t \in Keys : q[t] <= r[t] + OnItsWay(w.capture, t)
  PROVE  Good(Closed(w), q)
<1> DEFINE v == Closed(w)
<1>1. w \in Worlds /\ w.disk.tasks = w.tasks
  BY DEF Good, Sound
<1>2. /\ v \in Worlds /\ v.tasks = w.tasks /\ v.disk.tasks = w.tasks
      /\ v.capture = NoCapture /\ v.permits = w.permits
  BY <1>1, ClosedType
<1> HIDE DEF v
<1>3. ASSUME SavesFirst, NEW t \in Keys
      PROVE  q[t] + ToCome(v, t) <= v.permits[t]
  <2>1. r[t] + ToCome(w, t) <= w.permits[t] /\ w.permits[t] \in Nat /\ r[t] \in Nat
    BY <1>1, <1>3 DEF Good, Sound, Owed, Worlds
  <2>2. OnItsWay(v.capture, t) = 0 /\ OnItsWay(w.capture, t) \in {0, 1}
    BY <1>2 DEF OnItsWay, NoCapture
  <2>3. q[t] <= r[t] + OnItsWay(w.capture, t) /\ q[t] \in Nat
    OBVIOUS
  <2> QED
    BY <1>2, <2>1, <2>2, <2>3 DEF ToCome
<1> QED
  BY <1>2, <1>3 DEF Good, Sound, Owed, v

-----------------------------------------------------------------------------
(* The inductive invariant: the world is good, and what is not part of it is of its type. *)
CheckType ==
  [phase: {"none", "mission", "files"}, retry: 0 .. NRounds, wanted: SUBSET (Keys \X Nat)]

Surroundings ==
  /\ checks \in [1 .. MaxChecks -> CheckType]
  /\ manual \in BOOLEAN
  /\ clock \in [Rounds -> Times]
  /\ reached \in [Keys -> Nat]
  /\ recorded \in [Keys -> SUBSET Nat]
  /\ crashes \in 0 .. MaxCrashes
  /\ wish \in {"go", "halt", "retry"}
  /\ asked \in SUBSET Keys
  /\ slept \in SUBSET Rounds

IInv == Good(World, reached) /\ Surroundings

LEMMA NoCheckType == NoCheck \in CheckType
BY SizeAssumption DEF NoCheck, CheckType

LEMMA InitIInv == Init => IInv
<1> SUFFICES ASSUME Init PROVE IInv
  OBVIOUS
<1>1. World \in Worlds
  <2>1. /\ state \in States /\ current \in 0 .. NRounds /\ rounds \in [Rounds -> RoundStates]
        /\ tasks \in [Keys -> Statuses] /\ attempts \in [Keys -> Nat]
        /\ recordOf \in [Keys -> Nat]
    BY SizeAssumption DEF Init, NoSession, States, RoundStates, Statuses
  <2>2. disk \in SessionType
    BY SizeAssumption DEF Init, NoSession, SessionType, States, RoundStates, Statuses
  <2>3. capture \in CaptureType
    BY DEF Init, NoCapture, CaptureType
  <2>4. /\ inFlight \in BOOLEAN /\ preflightDue \in BOOLEAN /\ preflightPending \in BOOLEAN
        /\ storageSettled \in BOOLEAN /\ settlePending \in BOOLEAN
        /\ idleCheck \in Keys \cup {None} /\ idleRetries \in Nat /\ downloadsOnly \in BOOLEAN
        /\ timer \in BOOLEAN /\ owned \in BOOLEAN /\ posts \in [Keys -> Nat]
        /\ permits \in [Keys -> Nat] /\ checked \in BOOLEAN
    BY DEF Init
  <2> QED
    BY <2>1, <2>2, <2>3, <2>4 DEF World, Worlds
<1>2. /\ World.tasks = [t \in Keys |-> "none"] /\ World.disk.tasks = [t \in Keys |-> "none"]
      /\ World.capture = NoCapture /\ World.permits = [t \in Keys |-> 0]
  BY DEF Init, World, NoSession
<1>3. Owed(World, reached)
  BY <1>2 DEF Owed, ToCome, OnItsWay, NoCapture, Init
<1>4. Surroundings
  <2>1. checks \in [1 .. MaxChecks -> CheckType]
    BY NoCheckType DEF Init
  <2>2. clock \in [Rounds -> Times]
    BY DEF Init, Times
  <2>3. reached \in [Keys -> Nat] /\ recorded \in [Keys -> SUBSET Nat]
    BY DEF Init
  <2>4. crashes \in 0 .. MaxCrashes
    BY SizeAssumption DEF Init
  <2>5. /\ manual \in BOOLEAN /\ wish \in {"go", "halt", "retry"}
        /\ asked \in SUBSET Keys /\ slept \in SUBSET Rounds
    BY DEF Init
  <2> QED
    BY <2>1, <2>2, <2>3, <2>4, <2>5 DEF Surroundings
<1> QED
  BY <1>1, <1>2, <1>3, <1>4 DEF IInv, Good, Sound

LEMMA IInvTypes == IInv => TypeOK
<1> SUFFICES ASSUME IInv PROVE TypeOK
  OBVIOUS
<1>1. World \in Worlds /\ Surroundings
  BY DEF IInv, Good, Sound
<1>2. /\ state \in States /\ current \in 0 .. NRounds /\ rounds \in [Rounds -> RoundStates]
      /\ tasks \in [Keys -> Statuses] /\ attempts \in [Keys -> Nat]
      /\ recordOf \in [Keys -> Nat] /\ disk \in SessionType /\ capture \in CaptureType
      /\ idleCheck \in Keys \cup {None} /\ idleRetries \in Nat /\ posts \in [Keys -> Nat]
      /\ permits \in [Keys -> Nat]
  BY <1>1 DEF World, Worlds
<1>3. /\ inFlight \in BOOLEAN /\ preflightDue \in BOOLEAN /\ preflightPending \in BOOLEAN
      /\ storageSettled \in BOOLEAN /\ settlePending \in BOOLEAN /\ downloadsOnly \in BOOLEAN
      /\ timer \in BOOLEAN /\ owned \in BOOLEAN /\ checked \in BOOLEAN
  BY <1>1 DEF World, Worlds
<1>4. {inFlight, preflightDue, preflightPending, storageSettled, settlePending,
       downloadsOnly, timer, owned, manual, checked} \subseteq BOOLEAN
  BY <1>1, <1>3 DEF Surroundings
<1> QED
  BY <1>1, <1>2, <1>4 DEF Surroundings, TypeOK, SessionType, CaptureType, CheckType

LEMMA IInvNoResend == IInv /\ SavesFirst => NoBlindResend
<1> SUFFICES ASSUME IInv, SavesFirst, NEW t \in Keys
             PROVE  reached[t] <= permits[t]
  BY DEF NoBlindResend
<1>1. /\ reached[t] + ToCome(World, t) <= World.permits[t]
      /\ World.permits = permits /\ reached[t] \in Nat /\ permits[t] \in Nat
  BY DEF IInv, Good, Sound, Owed, Surroundings, World, Worlds
<1>2. ToCome(World, t) \in {0, 1, 2}
  BY DEF ToCome, OnItsWay
<1> QED
  BY <1>1, <1>2

-----------------------------------------------------------------------------
(* One event. *)
LEMMA Kept ==
  ASSUME NEW w, Good(w, reached), Become(w), reached' = reached, Surroundings'
  PROVE  IInv'
<1>1. w \in Worlds
  BY DEF Good, Sound
<1>2. World' = w
  BY <1>1 DEF Become, World, Worlds
<1> QED
  BY <1>2 DEF IInv

LEMMA Calm ==
  ASSUME Surroundings, UNCHANGED outside, checks' \in [1 .. MaxChecks -> CheckType],
         wish' \in {"go", "halt", "retry"}, asked' \in SUBSET Keys, slept' \in SUBSET Rounds
  PROVE  Surroundings' /\ reached' = reached
BY DEF Surroundings, outside

(* An event that only its handler answers. *)
LEMMA Handled ==
  ASSUME Surroundings, UNCHANGED <<outside, history, checks>>,
         NEW w, Good(w, reached), Become(w)
  PROVE  IInv'
<1>1. Surroundings' /\ reached' = reached
  BY Calm DEF Surroundings, history
<1> QED
  BY <1>1, Kept

LEMMA WorkersAnswer ==
  ASSUME IInv, NEW gate, NEW elapsed \in BOOLEAN, NEW idle \in BOOLEAN,
         NEW blocking \in BOOLEAN, NEW answer \in AllAnswers,
         \/ TimerTick(gate, elapsed)
         \/ PreflightAnswered(blocking, gate)
         \/ StorageSettleAnswered(gate)
         \/ IdleCheckAnswered(idle, answer, gate)
         \/ CaptureFinished(gate)
  PROVE  IInv'
<1>1. Good(World, reached) /\ Surroundings /\ reached \in [Keys -> Nat]
  BY DEF IInv, Surroundings
<1>2. CASE TimerTick(gate, elapsed)
  BY <1>1, <1>2, TickGood, Handled DEF TimerTick
<1>3. CASE PreflightAnswered(blocking, gate)
  BY <1>1, <1>3, OnPreflightGood, Handled DEF PreflightAnswered
<1>4. CASE StorageSettleAnswered(gate)
  BY <1>1, <1>4, OnStorageSettledGood, Handled DEF StorageSettleAnswered
<1>5. CASE IdleCheckAnswered(idle, answer, gate)
  <2>1. World.idleCheck # None
    BY <1>5 DEF IdleCheckAnswered, World
  <2> QED
    BY <1>1, <1>5, <2>1, OnIdleResultGood, Handled DEF IdleCheckAnswered
<1>6. CASE CaptureFinished(gate)
  <2>1. World.capture.phase = "reported"
    BY <1>6 DEF CaptureFinished, World
  <2> QED
    BY <1>1, <1>6, <2>1, OnCaptureFinishedGood, Handled DEF CaptureFinished
<1> QED
  BY <1>2, <1>3, <1>4, <1>5, <1>6

(* The capture as the main window and the sensor see it. *)
LEMMA OutsideGood ==
  ASSUME IInv, UNCHANGED <<session, attributes, history, disk, checks, owned, manual,
                           clock, posts, crashes, permits, checked>>,
         capture' \in CaptureType, reached' \in [Keys -> Nat],
         recorded' \in [Keys -> SUBSET Nat],
         \A t \in Keys : reached'[t] + OnItsWay(capture', t)
                           <= reached[t] + OnItsWay(capture, t)
  PROVE  IInv'
<1>1. World \in Worlds /\ World.disk.tasks = World.tasks /\ Surroundings
  BY DEF IInv, Good, Sound
<1>2. /\ World' = [World EXCEPT !.capture = capture']
  BY DEF World, session, attributes
<1>3. /\ World' \in Worlds /\ World'.tasks = World.tasks
      /\ World'.disk = World.disk /\ World'.permits = World.permits
      /\ World'.capture = capture' /\ World.capture = capture
  BY <1>1, <1>2 DEF Worlds, World
<1>4. ASSUME SavesFirst, NEW t \in Keys
      PROVE  reached'[t] + ToCome(World', t) <= World'.permits[t]
  <2>1. reached[t] + ToCome(World, t) <= World.permits[t]
    BY <1>4 DEF IInv, Good, Sound, Owed
  <2>2. reached[t] \in Nat /\ reached'[t] \in Nat /\ World.permits[t] \in Nat
    BY <1>1 DEF Surroundings, Worlds
  <2>3. OnItsWay(capture, t) \in {0, 1} /\ OnItsWay(capture', t) \in {0, 1}
    BY DEF OnItsWay
  <2> QED
    BY <1>3, <2>1, <2>2, <2>3 DEF ToCome
<1>5. Good(World', reached')
  BY <1>1, <1>3, <1>4 DEF Good, Sound, Owed
<1>6. Surroundings'
  BY <1>1 DEF Surroundings, session, attributes, history
<1> QED
  BY <1>5, <1>6 DEF IInv

LEMMA SensorActs ==
  ASSUME IInv, NEW outcome \in AllOutcomes, NEW file \in BOOLEAN,
         RequestReaches \/ CaptureReports(outcome, file)
  PROVE  IInv'
<1>1. /\ capture \in CaptureType /\ posts \in [Keys -> Nat]
      /\ reached \in [Keys -> Nat] /\ recorded \in [Keys -> SUBSET Nat]
  BY DEF IInv, Good, Sound, World, Worlds, Surroundings
<1>2. CASE RequestReaches
  <2>1. /\ capture.phase = "sent" /\ capture' = [capture EXCEPT !.phase = "reached"]
        /\ reached' = [reached EXCEPT ![capture.key] = @ + 1]
    BY <1>2 DEF RequestReaches
  <2>2. capture' \in CaptureType /\ reached' \in [Keys -> Nat]
    <3>1. \A t \in Keys : [reached EXCEPT ![t] = @ + 1] \in [Keys -> Nat]
      BY <1>1
    <3>2. capture.key \notin Keys => reached' = reached
      BY <1>1, <2>1
    <3>3. capture' \in CaptureType
      BY <1>1, <2>1 DEF CaptureType
    <3> QED
      BY <1>1, <2>1, <3>1, <3>2, <3>3
  <2>3. ASSUME NEW t \in Keys
        PROVE  reached'[t] + OnItsWay(capture', t) <= reached[t] + OnItsWay(capture, t)
    <3>1. OnItsWay(capture', t) = 0 /\ OnItsWay(capture, t) = IF capture.key = t THEN 1 ELSE 0
      BY <1>1, <2>1 DEF OnItsWay, CaptureType
    <3>2. reached'[t] = IF capture.key = t THEN reached[t] + 1 ELSE reached[t]
      BY <1>1, <2>1
    <3>3. reached[t] \in Nat
      BY <1>1
    <3> QED
      BY <3>1, <3>2, <3>3
  <2>4. UNCHANGED <<session, attributes, history, disk, checks, owned, manual,
                    clock, posts, recorded, crashes, permits, checked>>
    BY <1>2 DEF RequestReaches
  <2> QED
    BY <1>1, <2>2, <2>3, <2>4, OutsideGood
<1>3. CASE CaptureReports(outcome, file)
  <2>1. /\ capture.phase \in {"sent", "reached"}
        /\ outcome = "not_sent" => capture.phase = "sent"
        /\ capture' = [capture EXCEPT !.phase = "reported", !.outcome = outcome]
        /\ recorded' = [recorded EXCEPT ![capture.key] =
                          IF file THEN @ \cup {posts[capture.key]} ELSE @]
        /\ reached' = reached
    BY <1>3 DEF CaptureReports
  <2>2. capture' \in CaptureType
    BY <1>1, <2>1 DEF CaptureType
  <2>3. recorded' \in [Keys -> SUBSET Nat]
    <3>1. \A t \in Keys : [recorded EXCEPT ![t] = IF file THEN @ \cup {posts[t]} ELSE @]
                            \in [Keys -> SUBSET Nat]
      BY <1>1
    <3>2. capture.key \notin Keys => recorded' = recorded
      BY <1>1, <2>1
    <3> QED
      BY <1>1, <2>1, <3>1, <3>2
  <2>4. ASSUME NEW t \in Keys
        PROVE  reached'[t] + OnItsWay(capture', t) <= reached[t] + OnItsWay(capture, t)
    <3>1. capture'.key = capture.key /\ capture'.phase = "reported"
          /\ capture'.outcome = outcome
      BY <1>1, <2>1 DEF CaptureType
    <3>2. OnItsWay(capture', t) <= OnItsWay(capture, t)
      BY <2>1, <3>1 DEF OnItsWay
    <3>3. /\ reached'[t] = reached[t] /\ reached[t] \in Nat
          /\ OnItsWay(capture, t) \in {0, 1} /\ OnItsWay(capture', t) \in {0, 1}
      BY <1>1, <2>1 DEF OnItsWay
    <3> QED
      BY <3>2, <3>3
  <2>5. UNCHANGED <<session, attributes, history, disk, checks, owned, manual,
                    clock, posts, crashes, permits, checked>>
    BY <1>3 DEF CaptureReports
  <2> QED
    BY <1>1, <2>1, <2>2, <2>3, <2>4, <2>5, OutsideGood
<1> QED
  BY <1>2, <1>3

-----------------------------------------------------------------------------
(* File checks and the operator's retry. *)
LEMMA RetriedKeeps ==
  ASSUME Surroundings, NEW w, Good(w, reached), NEW i \in Rounds, NEW gate, NEW elapsed,
         Retried(w, i, gate, elapsed), UNCHANGED outside,
         checks' \in [1 .. MaxChecks -> CheckType]
  PROVE  IInv'
<1>1. /\ reached \in [Keys -> Nat] /\ wish \in {"go", "halt", "retry"}
      /\ asked \in SUBSET Keys /\ slept \in SUBSET Rounds
  BY DEF Surroundings
<1>2. Good(Retry(w, i, gate, elapsed), reached)
  BY <1>1, RetryGood
<1>3. /\ Become(Retry(w, i, gate, elapsed))
      /\ wish' \in {"go", "halt", "retry"} /\ asked' \in SUBSET Keys
      /\ slept' \in SUBSET Rounds
  BY <1>1 DEF Retried, RetryableKeys
<1>4. Surroundings' /\ reached' = reached
  BY <1>3, Calm
<1> QED
  BY <1>2, <1>3, <1>4, Kept

LEMMA AfterCheckKeeps ==
  ASSUME Surroundings, NEW w, Good(w, reached), NEW job \in CheckType, NEW gate,
         NEW elapsed, AfterCheck(job, w, gate, elapsed), UNCHANGED outside,
         checks' \in [1 .. MaxChecks -> CheckType]
  PROVE  IInv'
<1>1. CASE job.retry = 0
  <2>1. Become(w) /\ UNCHANGED history
    BY <1>1 DEF AfterCheck
  <2>2. Surroundings' /\ reached' = reached
    BY <2>1, Calm DEF Surroundings, history
  <2> QED
    BY <2>1, <2>2, Kept
<1>2. CASE job.retry # 0
  <2>1. job.retry \in Rounds
    BY <1>2, SizeAssumption DEF CheckType, Rounds
  <2>2. Retried(w, job.retry, gate, elapsed)
    BY <1>2 DEF AfterCheck
  <2> QED
    BY <2>1, <2>2, RetriedKeeps
<1> QED
  BY <1>1, <1>2

LEMMA ChecksAnswer ==
  ASSUME IInv, NEW c \in 1 .. MaxChecks, NEW idle \in BOOLEAN, NEW gate,
         NEW elapsed \in BOOLEAN, NEW answer \in Confirmed \cup {"failed"},
         MissionListRead(c, idle, gate, elapsed) \/ FilesListed(c, answer, gate, elapsed)
  PROVE  IInv'
<1>1. /\ Good(World, reached) /\ Surroundings /\ reached \in [Keys -> Nat]
      /\ checks \in [1 .. MaxChecks -> CheckType] /\ checks[c] \in CheckType
  BY DEF IInv, Surroundings
<1>2. Clear(c) => checks' \in [1 .. MaxChecks -> CheckType]
  BY <1>1, NoCheckType DEF Clear
<1>3. CASE MissionListRead(c, idle, gate, elapsed)
  <2> DEFINE wanted == {<<t, recordOf[t]>> : t \in UncertainKeys(World)}
  <2>1. CASE idle /\ wanted # {}
    <3>1. /\ checks' = [checks EXCEPT ![c].phase = "files", ![c].wanted = wanted]
          /\ Become(World) /\ UNCHANGED <<outside, history>>
      BY <1>3, <2>1 DEF MissionListRead
    <3>2. wanted \in SUBSET (Keys \X Nat)
      <4>1. recordOf \in [Keys -> Nat]
        BY <1>1 DEF Good, Sound, World, Worlds
      <4> QED
        BY <4>1 DEF UncertainKeys
    <3> HIDE DEF wanted
    <3>3. checks' \in [1 .. MaxChecks -> CheckType]
      BY <1>1, <3>1, <3>2 DEF CheckType
    <3>4. Surroundings' /\ reached' = reached
      BY <1>1, <3>1, <3>3, Calm DEF Surroundings, history
    <3> QED
      BY <1>1, <3>1, <3>4, Kept
  <2>2. CASE ~(idle /\ wanted # {})
    <3>1. /\ Clear(c) /\ AfterCheck(checks[c], World, gate, elapsed)
          /\ UNCHANGED outside
      BY <1>3, <2>2 DEF MissionListRead
    <3> QED
      BY <1>1, <1>2, <3>1, AfterCheckKeeps
  <2> QED
    BY <2>1, <2>2
<1>4. CASE FilesListed(c, answer, gate, elapsed)
  <2> DEFINE w == IF answer = "failed" THEN World
                  ELSE OnFilesChecked(World, checks[c].wanted, answer)
  <2>1. Good(w, reached)
    BY <1>1, OnFilesCheckedGood DEF Good
  <2>2. Clear(c) /\ AfterCheck(checks[c], w, gate, elapsed) /\ UNCHANGED outside
    BY <1>4 DEF FilesListed
  <2> HIDE DEF w
  <2> QED
    BY <1>1, <1>2, <2>1, <2>2, AfterCheckKeeps
<1> QED
  BY <1>3, <1>4

LEMMA LastRoundType ==
  ASSUME NEW w \in Worlds, LastRound(w) # 0
  PROVE  LastRound(w) \in Rounds
<1> DEFINE begun == {i \in Rounds : w.tasks[<<i, 1>>] # "none"}
<1>1. CASE InPass(w)
  BY <1>1, SizeAssumption DEF LastRound, InPass, Worlds, Rounds
<1>2. CASE ~InPass(w) /\ begun # {}
  <2>1. \E i \in begun : \A j \in begun : j <= i
    BY <1>2, GreatestExists, SizeAssumption DEF Rounds
  <2>2. (CHOOSE i \in begun : \A j \in begun : j <= i) \in begun
    BY <2>1
  <2> QED
    BY <1>2, <2>2 DEF LastRound
<1>3. CASE ~InPass(w) /\ begun = {}
  BY <1>3 DEF LastRound
<1> QED
  BY <1>1, <1>2, <1>3

-----------------------------------------------------------------------------
(* Commands of the operator. *)
LEMMA Told ==
  ASSUME Surroundings, UNCHANGED <<outside, asked>>,
         checks' \in [1 .. MaxChecks -> CheckType],
         wish' \in {"go", "halt", "retry"}, slept' \in SUBSET Rounds,
         NEW w, Good(w, reached), Become(w)
  PROVE  IInv'
<1>1. asked' \in SUBSET Keys
  BY DEF Surroundings
<1>2. Surroundings' /\ reached' = reached
  BY <1>1, Calm
<1> QED
  BY <1>2, Kept

LEMMA BeginCheckType ==
  ASSUME Surroundings, NEW i \in 0 .. NRounds, BeginCheck(i)
  PROVE  checks' \in [1 .. MaxChecks -> CheckType]
<1>1. PICK c \in 1 .. MaxChecks :
        checks' = [checks EXCEPT ![c] = [NoCheck EXCEPT !.phase = "mission", !.retry = i]]
  BY DEF BeginCheck
<1>2. [NoCheck EXCEPT !.phase = "mission", !.retry = i] \in CheckType
  BY NoCheckType DEF CheckType
<1> QED
  BY <1>1, <1>2 DEF Surroundings

LEMMA OperatorRuns ==
  ASSUME IInv, NEW gate, NEW elapsed \in BOOLEAN,
         Start(gate, elapsed) \/ ResumeCommand(gate, elapsed) \/ PauseCommand \/ StopCommand
  PROVE  IInv'
<1>1. /\ Good(World, reached) /\ Surroundings /\ reached \in [Keys -> Nat]
      /\ checks \in [1 .. MaxChecks -> CheckType] /\ slept \in SUBSET Rounds
  BY DEF IInv, Surroundings
<1>2. CASE Start(gate, elapsed)
  <2>1. Good(StartSession(World, gate, elapsed), reached)
    BY <1>1, StartSessionGood
  <2> QED
    BY <1>1, <1>2, <2>1, Told DEF Start
<1>3. CASE ResumeCommand(gate, elapsed)
  <2>1. Good(Resume(World, gate, elapsed), reached)
    BY <1>1, ResumeGood
  <2> QED
    BY <1>1, <1>3, <2>1, Told DEF ResumeCommand
<1>4. CASE PauseCommand
  <2>1. Good(Pause(World), reached)
    BY <1>1, PauseGood
  <2> QED
    BY <1>1, <1>4, <2>1, Told DEF PauseCommand, Command
<1>5. CASE StopCommand
  <2>1. Good(Stop(World), reached)
    BY <1>1, StopGood
  <2> QED
    BY <1>1, <1>5, <2>1, Told DEF StopCommand, Command
<1> QED
  BY <1>2, <1>3, <1>4, <1>5

LEMMA OperatorRecovers ==
  ASSUME IInv, NEW gate, NEW elapsed \in BOOLEAN, NEW i \in Rounds,
         \/ CheckWithSensor
         \/ RetryFailed(gate, elapsed)
         \/ SkipUncertainCommand
         \/ ContinueCommand(gate, elapsed)
         \/ RunMissedCommand(i, gate, elapsed)
         \/ SkipMissedCommand(i)
  PROVE  IInv'
<1>1. /\ Good(World, reached) /\ Surroundings /\ reached \in [Keys -> Nat]
      /\ checks \in [1 .. MaxChecks -> CheckType] /\ slept \in SUBSET Rounds
      /\ wish \in {"go", "halt", "retry"} /\ World \in Worlds
  BY DEF IInv, Surroundings, Good, Sound
<1>2. CASE CheckWithSensor
  <2>1. checks' \in [1 .. MaxChecks -> CheckType]
    BY <1>1, <1>2, SizeAssumption, BeginCheckType DEF CheckWithSensor
  <2> QED
    BY <1>1, <1>2, <2>1, Told DEF CheckWithSensor, Command
<1>3. CASE RetryFailed(gate, elapsed)
  <2> DEFINE k == LastRound(World)
  <2>1. k \in Rounds /\ k \in 0 .. NRounds
    BY <1>1, <1>3, LastRoundType, SizeAssumption DEF RetryFailed, Rounds
  <2>2. CASE \E t \in UncertainKeys(World) : t[1] = k
    <3>1. BeginCheck(k) /\ Become(World) /\ UNCHANGED <<outside, history>>
      BY <1>3, <2>2 DEF RetryFailed
    <3> HIDE DEF k
    <3>2. checks' \in [1 .. MaxChecks -> CheckType]
      BY <1>1, <2>1, <3>1, BeginCheckType
    <3> QED
      BY <1>1, <3>1, <3>2, Told DEF history
  <2>3. CASE ~ \E t \in UncertainKeys(World) : t[1] = k
    <3>1. Retried(World, k, gate, elapsed) /\ UNCHANGED <<outside, checks>>
      BY <1>3, <2>3 DEF RetryFailed
    <3> HIDE DEF k
    <3> QED
      BY <1>1, <2>1, <3>1, RetriedKeeps
  <2> QED
    BY <2>2, <2>3
<1>4. CASE SkipUncertainCommand
  <2>1. Good(SkipUncertain(World), reached)
    BY <1>1, SkipUncertainGood
  <2> QED
    BY <1>1, <1>4, <2>1, Told DEF SkipUncertainCommand, Command
<1>5. CASE ContinueCommand(gate, elapsed)
  <2> DEFINE v == [World EXCEPT !.checked = FALSE]
  <2>1. /\ v \in Worlds /\ v.tasks = World.tasks /\ v.capture = World.capture
        /\ v.permits = World.permits /\ v.disk.tasks = World.disk.tasks
    BY <1>1 DEF Worlds
  <2>2. Become(Continue(v, gate, elapsed)) /\ UNCHANGED <<outside, asked, slept, checks>>
        /\ wish' \in {"go", wish}
    BY <1>5 DEF ContinueCommand
  <2> HIDE DEF v
  <2>3. Good(v, reached)
    BY <1>1, <2>1, Frame
  <2>4. Good(Continue(v, gate, elapsed), reached)
    BY <1>1, <2>3, ContinueGood
  <2> QED
    BY <1>1, <2>2, <2>4, Told
<1>6. CASE RunMissedCommand(i, gate, elapsed)
  <2>1. Good(RunMissed(World, i, gate, elapsed), reached)
    BY <1>1, RunMissedGood
  <2>2. /\ wish' \in {"go", wish} /\ slept' \in SUBSET Rounds
        /\ UNCHANGED <<outside, asked, checks>>
        /\ Become(RunMissed(World, i, gate, elapsed))
    BY <1>1, <1>6 DEF RunMissedCommand, Command
  <2> QED
    BY <1>1, <2>1, <2>2, Told
<1>7. CASE SkipMissedCommand(i)
  <2>1. Good(SkipMissed(World, i), reached)
    BY <1>1, SkipMissedGood
  <2> QED
    BY <1>1, <1>7, <2>1, Told DEF SkipMissedCommand, Command
<1> QED
  BY <1>2, <1>3, <1>4, <1>5, <1>6, <1>7

-----------------------------------------------------------------------------
(* The application ends and starts again, and time passes. *)
LEMMA LeftBehindType ==
  ASSUME NEW t, NEW phase, NEW arrives \in BOOLEAN, NEW file \in BOOLEAN,
         LeftBehind(t, phase, arrives, file), Surroundings, posts' \in [Keys -> Nat]
  PROVE  reached' \in [Keys -> Nat] /\ recorded' \in [Keys -> SUBSET Nat]
<1>1. reached \in [Keys -> Nat] /\ recorded \in [Keys -> SUBSET Nat]
  BY DEF Surroundings
<1>2. /\ reached' = IF arrives THEN [reached EXCEPT ![t] = @ + 1] ELSE reached
      /\ recorded' = IF file THEN [recorded EXCEPT ![t] = @ \cup {posts'[t]}] ELSE recorded
  BY DEF LeftBehind
<1>3. CASE t \in Keys
  BY <1>1, <1>2, <1>3
<1>4. CASE t \notin Keys
  BY <1>1, <1>2, <1>4
<1> QED
  BY <1>3, <1>4

LEMMA EndKeeps ==
  ASSUME IInv, NEW w \in Worlds, Become(Closed(w)), Ended,
         NEW t, NEW phase, NEW arrives \in BOOLEAN, NEW file \in BOOLEAN,
         LeftBehind(t, phase, arrives, file),
         reached' \in [Keys -> Nat] => Good(Closed(w), reached')
  PROVE  IInv'
<1>1. Surroundings
  BY DEF IInv
<1>2. Closed(w) \in Worlds
  BY ClosedType
<1>3. World' = Closed(w)
  BY <1>2 DEF Become, World, Worlds
<1>4. posts' \in [Keys -> Nat]
  BY <1>2, <1>3 DEF World, Worlds
<1>5. reached' \in [Keys -> Nat] /\ recorded' \in [Keys -> SUBSET Nat]
  BY <1>1, <1>4, LeftBehindType
<1>6. Surroundings'
  <2>1. checks' \in [1 .. MaxChecks -> CheckType]
    BY NoCheckType DEF Ended
  <2>2. crashes' \in 0 .. MaxCrashes
    BY <1>1, SizeAssumption DEF Ended, Surroundings
  <2>3. /\ manual' \in BOOLEAN /\ wish' \in {"go", "halt", "retry"}
        /\ asked' \in SUBSET Keys /\ slept' \in SUBSET Rounds /\ clock' \in [Rounds -> Times]
    BY <1>1 DEF Ended, Surroundings
  <2> QED
    BY <1>5, <2>1, <2>2, <2>3 DEF Surroundings
<1> QED
  BY <1>3, <1>5, <1>6 DEF IInv

LEMMA CloseKeeps ==
  ASSUME IInv, NEW arrives \in BOOLEAN, NEW file \in BOOLEAN, Close(arrives, file)
  PROVE  IInv'
<1>1. /\ Good(World, reached) /\ World \in Worlds /\ reached \in [Keys -> Nat]
      /\ World.capture = capture
  BY DEF IInv, Good, Sound, Surroundings, World
<1>2. /\ Become(Closed(World)) /\ Ended
      /\ LeftBehind(capture.key, capture.phase, arrives, file)
  BY DEF Close
<1>3. \A t \in Keys : reached'[t] <= reached[t] + OnItsWay(capture, t)
  <2> TAKE t \in Keys
  <2>1. /\ arrives => capture.phase = "sent"
        /\ reached' = IF arrives THEN [reached EXCEPT ![capture.key] = @ + 1] ELSE reached
    BY <1>2 DEF LeftBehind
  <2>2. OnItsWay(capture, t) \in {0, 1} /\ reached[t] \in Nat
    BY <1>1 DEF OnItsWay
  <2>3. CASE arrives /\ capture.key = t
    BY <1>1, <2>1, <2>2, <2>3 DEF OnItsWay
  <2>4. CASE ~(arrives /\ capture.key = t)
    BY <1>1, <2>1, <2>2, <2>4
  <2> QED
    BY <2>3, <2>4
<1>4. reached' \in [Keys -> Nat] => Good(Closed(World), reached')
  BY <1>1, <1>3, ClosedGood
<1> QED
  BY <1>1, <1>2, <1>4, EndKeeps

LEMMA CrashInSubmitKeeps ==
  ASSUME IInv, NEW arrives \in BOOLEAN, NEW file \in BOOLEAN, CrashInSubmit(arrives, file)
  PROVE  IInv'
<1> DEFINE k == idleCheck
           w == [World EXCEPT !.posts[k] = @ + 1]
<1>1. World \in Worlds
  BY DEF IInv, Good, Sound
<1>2. ~SavesFirst
  BY DEF CrashInSubmit, SavesFirst
<1>3. Become(Closed(w)) /\ Ended /\ LeftBehind(k, "sent", arrives, file) /\ k \in Keys
  BY <1>1 DEF CrashInSubmit, World, Worlds
<1>4. w \in Worlds
  <2>1. [World.posts EXCEPT ![k] = @ + 1] \in [Keys -> Nat]
    BY <1>1, <1>3 DEF Worlds
  <2>2. w = [World EXCEPT !.posts = [World.posts EXCEPT ![k] = @ + 1]]
    BY <1>1 DEF Worlds
  <2> HIDE DEF w
  <2> QED
    BY <1>1, <2>1, <2>2 DEF Worlds
<1> HIDE DEF w, k
<1>5. Closed(w) \in Worlds /\ Closed(w).disk.tasks = Closed(w).tasks
  BY <1>4, ClosedType
<1>6. Good(Closed(w), reached')
  BY <1>2, <1>5 DEF Good, Sound
<1> QED
  BY <1>3, <1>4, <1>6, EndKeeps

LEMMA OutsidePasses ==
  ASSUME IInv, NEW i \in Rounds, NEW unfinished \in BOOLEAN,
         ManualRecording \/ Restart(unfinished) \/ TimePasses(i)
  PROVE  IInv'
<1>1. Good(World, reached) /\ Surroundings
  BY DEF IInv
<1>2. CASE ManualRecording
  <2>1. Surroundings' /\ reached' = reached /\ Become(World)
    BY <1>1, <1>2 DEF ManualRecording, Surroundings, history
  <2> QED
    BY <1>1, <2>1, Kept
<1>3. CASE Restart(unfinished)
  BY <1>1, <1>3, LoadedGood, Handled DEF Restart
<1>4. CASE TimePasses(i)
  <2>1. clock \in [Rounds -> Times] /\ slept \in SUBSET Rounds
    BY <1>1 DEF Surroundings
  <2>2. clock' \in [Rounds -> Times] /\ slept' \in SUBSET Rounds
    BY <1>4, <2>1 DEF TimePasses, Times
  <2>3. /\ Become(World)
        /\ UNCHANGED <<checks, manual, reached, recorded, crashes, wish, asked>>
    BY <1>4 DEF TimePasses
  <2>4. Surroundings'
    BY <1>1, <2>2, <2>3 DEF Surroundings
  <2> QED
    BY <1>1, <2>3, <2>4, Kept
<1> QED
  BY <1>2, <1>3, <1>4

-----------------------------------------------------------------------------
LEMMA NextKeeps == IInv /\ [Next]_vars => IInv'
<1> SUFFICES ASSUME IInv, [Next]_vars PROVE IInv'
  OBVIOUS
<1>1. Answers \subseteq AllAnswers /\ Outcomes \subseteq AllOutcomes
  BY ChoiceAssumption
<1>2. ASSUME NEW gate \in Gates, NEW elapsed \in BOOLEAN, TimerTick(gate, elapsed)
      PROVE  IInv'
  BY <1>2, WorkersAnswer DEF AllAnswers
<1>3. ASSUME NEW gate \in Gates, NEW blocking \in BOOLEAN, PreflightAnswered(blocking, gate)
      PROVE  IInv'
  BY <1>3, WorkersAnswer DEF AllAnswers
<1>4. ASSUME NEW gate \in Gates, StorageSettleAnswered(gate) \/ CaptureFinished(gate)
      PROVE  IInv'
  BY <1>4, WorkersAnswer DEF AllAnswers
<1>5. ASSUME NEW gate \in Gates, NEW idle \in BOOLEAN, NEW answer \in Answers,
             IdleCheckAnswered(idle, answer, gate)
      PROVE  IInv'
  BY <1>1, <1>5, WorkersAnswer
<1>6. ASSUME NEW gate \in Gates, NEW elapsed \in BOOLEAN, NEW c \in 1 .. MaxChecks,
             NEW idle \in BOOLEAN, MissionListRead(c, idle, gate, elapsed)
      PROVE  IInv'
  BY <1>6, ChecksAnswer
<1>7. ASSUME NEW gate \in Gates, NEW elapsed \in BOOLEAN, NEW c \in 1 .. MaxChecks,
             NEW answer \in (Outcomes \cap Confirmed) \cup {"failed"},
             FilesListed(c, answer, gate, elapsed)
      PROVE  IInv'
  BY <1>7, ChecksAnswer
<1>8. ASSUME NEW gate \in Gates, NEW elapsed \in BOOLEAN,
             Start(gate, elapsed) \/ ResumeCommand(gate, elapsed)
      PROVE  IInv'
  BY <1>8, OperatorRuns
<1>9. PauseCommand \/ StopCommand => IInv'
  BY OperatorRuns
<1>10. ASSUME NEW gate \in Gates, NEW elapsed \in BOOLEAN,
              RetryFailed(gate, elapsed) \/ ContinueCommand(gate, elapsed)
       PROVE  IInv'
  <2>1. 1 \in Rounds
    BY SizeAssumption DEF Rounds
  <2> QED
    BY <1>10, <2>1, OperatorRecovers
<1>11. ASSUME NEW gate \in Gates, NEW elapsed \in BOOLEAN, NEW i \in Rounds,
              RunMissedCommand(i, gate, elapsed)
       PROVE  IInv'
  BY <1>11, OperatorRecovers
<1>12. CheckWithSensor \/ SkipUncertainCommand => IInv'
  <2>1. 1 \in Rounds
    BY SizeAssumption DEF Rounds
  <2> QED
    BY <2>1, OperatorRecovers
<1>13. ASSUME NEW i \in Rounds, SkipMissedCommand(i) PROVE IInv'
  BY <1>13, OperatorRecovers
<1>14. ASSUME RequestReaches PROVE IInv'
  BY <1>14, SensorActs DEF AllOutcomes
<1>15. ASSUME NEW outcome \in Outcomes, NEW file \in BOOLEAN, CaptureReports(outcome, file)
       PROVE  IInv'
  BY <1>1, <1>15, SensorActs
<1>16. ASSUME NEW arrives \in BOOLEAN, NEW file \in BOOLEAN,
              Close(arrives, file) \/ CrashInSubmit(arrives, file)
       PROVE  IInv'
  BY <1>16, CloseKeeps, CrashInSubmitKeeps
<1>17. ASSUME ManualRecording PROVE IInv'
  <2>1. 1 \in Rounds
    BY SizeAssumption DEF Rounds
  <2> QED
    BY <1>17, <2>1, OutsidePasses
<1>18. ASSUME NEW unfinished \in BOOLEAN, Restart(unfinished) PROVE IInv'
  <2>1. 1 \in Rounds
    BY SizeAssumption DEF Rounds
  <2> QED
    BY <1>18, <2>1, OutsidePasses
<1>19. ASSUME NEW i \in Rounds, TimePasses(i) PROVE IInv'
  BY <1>19, OutsidePasses
<1>20. Terminating => UNCHANGED vars
  BY DEF Terminating
<1>21. CASE UNCHANGED vars
  <2>1. World' = World /\ reached' = reached
    BY <1>21 DEF vars, World
  <2>2. Surroundings'
    BY <1>21 DEF IInv, Surroundings, vars
  <2> QED
    BY <2>1, <2>2 DEF IInv
<1> QED
  BY <1>2, <1>3, <1>4, <1>5, <1>6, <1>7, <1>8, <1>9, <1>10, <1>11, <1>12, <1>13, <1>14,
     <1>15, <1>16, <1>17, <1>18, <1>19, <1>20, <1>21 DEF Next

(* Every attribute of the controller keeps to its values, whatever the operator does, the
   workers answer and the sensor makes of the requests, and wherever a crash comes.     *)
THEOREM TypeCorrect == Spec => []TypeOK
<1>1. Init => IInv
  BY InitIInv
<1>2. IInv /\ [Next]_vars => IInv'
  BY NextKeeps
<1>3. IInv => TypeOK
  BY IInvTypes
<1> QED
  BY <1>1, <1>2, <1>3, PTL DEF Spec

(* "Anything that may have reached the sensor is never resent automatically": for any
   number of passes and rows, no row reaches the sensor more often than the schedule and
   the operator asked for it - if the application never ends between start_capture and
   the save in _submit_task (the run CrashWhileSubmitting shows what follows if it does). *)
THEOREM NoResend ==
  ASSUME SavesFirst
  PROVE  Spec => []NoBlindResend
<1>1. Init => IInv
  BY InitIInv
<1>2. IInv /\ [Next]_vars => IInv'
  BY NextKeeps
<1>3. IInv => NoBlindResend
  BY IInvNoResend
<1> QED
  BY <1>1, <1>2, <1>3, PTL DEF Spec
-----------------------------------------------------------------------------
(* The refinement.  A handler is a function on worlds, so each has a lemma that says what it does
   to the requests: nothing (AsksNone), it asks for rows (AsksRows), or it sends a request that
   is owed (Sends).                                                                             *)
OutOf(c) == IF c.phase = "sent" THEN c.key ELSE None

AsksNone(w, v) == v.permits = w.permits /\ v.capture = w.capture

Asked(p, S) == [t \in Keys |-> IF t \in S THEN p[t] + 1 ELSE p[t]]
AsksRows(w, v) == v.capture = w.capture /\ \E S \in SUBSET Keys : v.permits = Asked(w.permits, S)

(* r: the requests the sensor received. *)
Sends(w, v, r) ==
  /\ v.permits = w.permits /\ OutOf(w.capture) = None
  /\ v.capture.phase = "sent" /\ v.capture.key \in Keys
  /\ SavesFirst => r[v.capture.key] < w.permits[v.capture.key]

(* A capture has a row. *)
CaptureNamed == capture.phase # "idle" => capture.key \in Keys

LEMMA QuietAsks ==
  ASSUME NEW w \in Worlds, NEW v, AsksNone(w, v)
  PROVE  AsksRows(w, v)
<1>1. Asked(w.permits, {}) = w.permits
  BY DEF Asked, Worlds
<1> QED
  BY <1>1 DEF AsksRows, AsksNone

-----------------------------------------------------------------------------
(* What neither asks nor sends. *)
LEMMA SaveQuiet ==
  ASSUME NEW w \in Worlds
  PROVE  AsksNone(w, Save(w)) /\ Save(w).current = w.current
BY DEF AsksNone, Save, Worlds

LEMMA StateQuiet ==
  ASSUME NEW w \in Worlds, NEW s \in States
  PROVE  /\ [w EXCEPT !.state = s] \in Worlds
         /\ AsksNone(w, [w EXCEPT !.state = s]) /\ [w EXCEPT !.state = s].current = w.current
         /\ AsksNone(w, Save([w EXCEPT !.state = s])) /\ Save([w EXCEPT !.state = s]).current = w.current
<1> DEFINE v == [w EXCEPT !.state = s]
<1>1. v \in Worlds /\ AsksNone(w, v) /\ v.current = w.current
  BY DEF AsksNone, Worlds
<1> HIDE DEF v
<1>2. AsksNone(v, Save(v)) /\ Save(v).current = v.current
  BY <1>1, SaveQuiet
<1>3. AsksNone(w, Save(v)) /\ Save(v).current = w.current
  BY <1>1, <1>2 DEF AsksNone
<1> QED
  BY <1>1, <1>3 DEF v

LEMMA PausedNowQuiet ==
  ASSUME NEW w \in Worlds
  PROVE  AsksNone(w, PausedNow(w)) /\ AsksNone(w, BeginWait(w))
BY StateQuiet DEF PausedNow, BeginWait, States

LEMMA ClassifyQuiet ==
  ASSUME NEW w \in Worlds, NEW busy
  PROVE  AsksNone(w, Classify(w, busy)) /\ Classify(w, busy).current = w.current
         /\ Classify(w, busy).state = w.state
BY DEF AsksNone, Classify, Worlds

LEMMA FinishRoundQuiet ==
  ASSUME NEW r, NEW w, Good(w, r), NEW stopped
  PROVE  AsksNone(w, FinishRound(w, stopped))
<1> DEFINE end == IF stopped THEN "stopped" ELSE Verdict(w, w.current)
           v == [w EXCEPT !.rounds[w.current] = end, !.current = 0,
                          !.state = "waiting_schedule"]
<1>1. w \in Worlds
  BY DEF Good, Sound
<1>2. v \in Worlds /\ AsksNone(w, v)
  <2>1. end \in RoundStates
    BY VerdictType DEF RoundStates
  <2> HIDE DEF end
  <2>2. [w.rounds EXCEPT ![w.current] = end] \in [Rounds -> RoundStates]
    BY <1>1, <2>1 DEF Worlds
  <2>3. 0 \in 0 .. NRounds
    BY SizeAssumption
  <2> QED
    BY <1>1, <2>2, <2>3 DEF Worlds, States, AsksNone
<1> HIDE DEF v
<1>3. NextPassAfter(v) \in Worlds /\ AsksNone(v, NextPassAfter(v))
  <2>1. ASSUME NEW n
        PROVE  /\ [v EXCEPT !.rounds[n] = "pending"] \in Worlds
               /\ AsksNone(v, [v EXCEPT !.rounds[n] = "pending"])
    <3> DEFINE x == [v EXCEPT !.rounds[n] = "pending"]
    <3>1. x \in Worlds
      BY <1>2 DEF Worlds, RoundStates
    <3>2. AsksNone(v, x)
      BY <1>2 DEF Worlds, AsksNone
    <3> QED
      BY <3>1, <3>2
  <2> QED
    BY <1>2, <2>1 DEF NextPassAfter, AsksNone
<1>4. AsksNone(w, Save(v)) /\ AsksNone(w, Save(NextPassAfter(v)))
  BY <1>2, <1>3, SaveQuiet DEF AsksNone
<1> QED
  BY <1>4 DEF FinishRound, end, v, AsksNone

LEMMA FinishSessionQuiet ==
  ASSUME NEW w \in Worlds
  PROVE  AsksNone(w, FinishSession(w))
<1> DEFINE u == [w EXCEPT !.state = "done", !.timer = FALSE]
<1>1. u \in Worlds /\ AsksNone(w, u)
  BY DEF Worlds, States, AsksNone
<1> HIDE DEF u
<1>2. Save(u) \in Worlds /\ AsksNone(u, Save(u))
  BY <1>1, SaveQuiet DEF Save, Worlds, Session, SessionType
<1>3. AsksNone(Save(u), [Save(u) EXCEPT !.owned = FALSE])
  BY <1>2 DEF Worlds, AsksNone
<1> QED
  BY <1>1, <1>2, <1>3 DEF FinishSession, AsksNone, u

LEMMA StoppedQuiet ==
  ASSUME NEW r, NEW w, Good(w, r)
  PROVE  AsksNone(w, Stopped(w))
<1>1. FinishRound(w, TRUE) \in Worlds /\ AsksNone(w, FinishRound(w, TRUE))
  BY FinishRoundGood, FinishRoundQuiet DEF Good, Sound
<1> QED
  BY <1>1, FinishSessionQuiet DEF Stopped, AsksNone

LEMMA StartNextTaskQuiet ==
  ASSUME NEW r, NEW w, Good(w, r), NEW gate
  PROVE  AsksNone(w, StartNextTask(w, gate))
<1>1. w \in Worlds
  BY DEF Good, Sound
<1>2. /\ AsksNone(w, [w EXCEPT !.preflightPending = TRUE])
      /\ AsksNone(w, [w EXCEPT !.settlePending = TRUE])
      /\ AsksNone(w, [w EXCEPT !.idleCheck = NextQueued(w)])
  BY <1>1 DEF Worlds, AsksNone
<1>3. AsksNone(w, w)
  BY DEF AsksNone
<1>4. AsksNone(w, Stopped(w)) /\ AsksNone(w, PausedNow(w)) /\ AsksNone(w, FinishRound(w, FALSE))
  BY <1>1, StoppedQuiet, PausedNowQuiet, FinishRoundQuiet
<1>5. AsksNone(w, Save([w EXCEPT !.state = "paused_backlog"]))
  BY <1>1, StateQuiet DEF States
<1> QED
  BY <1>2, <1>3, <1>4, <1>5 DEF StartNextTask

LEMMA AfterTaskQuiet ==
  ASSUME NEW r, NEW w, Good(w, r), NEW gate
  PROVE  AsksNone(w, AfterTask(w, gate))
<1> DEFINE v == [w EXCEPT !.state = "running"]
<1>1. w \in Worlds
  BY DEF Good, Sound
<1>2. Good(v, r) /\ AsksNone(w, v)
  BY <1>1, StateGood, StateQuiet DEF States
<1> HIDE DEF v
<1>3. AsksNone(w, StartNextTask(v, gate))
  BY <1>2, StartNextTaskQuiet DEF AsksNone
<1>4. AsksNone(w, Stopped(w)) /\ AsksNone(w, PausedNow(w)) /\ AsksNone(w, BeginWait(w)) /\ AsksNone(w, FinishRound(w, FALSE))
  BY <1>1, StoppedQuiet, PausedNowQuiet, FinishRoundQuiet
<1> QED
  BY <1>3, <1>4 DEF AfterTask, v

(* The answers of the workers but one, and the commands that stop or correct. *)
LEMMA AnswersQuiet ==
  ASSUME NEW r \in [Keys -> Nat], NEW w, Good(w, r), NEW gate, NEW blocking
  PROVE  AsksNone(w, OnPreflight(w, blocking, gate)) /\ AsksNone(w, OnStorageSettled(w, gate))
<1> DEFINE a == [w EXCEPT !.preflightPending = FALSE]
           b == [a EXCEPT !.preflightDue = TRUE]
           c == [a EXCEPT !.preflightDue = FALSE, !.checked = TRUE]
           d == [w EXCEPT !.settlePending = FALSE, !.storageSettled = TRUE]
<1>1. w \in Worlds
  BY DEF Good, Sound
<1>2. a \in Worlds /\ AsksNone(w, a) /\ a.tasks = w.tasks /\ a.disk = w.disk
  BY <1>1 DEF Worlds, AsksNone
<1>3. d \in Worlds /\ AsksNone(w, d) /\ d.tasks = w.tasks /\ d.disk = w.disk
  BY <1>1 DEF Worlds, AsksNone
<1> HIDE DEF a, d
<1>4. b \in Worlds /\ AsksNone(a, b)
  BY <1>2 DEF Worlds, AsksNone
<1>5. c \in Worlds /\ AsksNone(a, c) /\ c.tasks = a.tasks
  BY <1>2 DEF Worlds, AsksNone
<1> HIDE DEF b, c
<1>6. AsksNone(w, PausedNow(b))
  BY <1>2, <1>4, PausedNowQuiet DEF AsksNone
<1>7. Good(Save(c), r) /\ AsksNone(w, Save(c))
  <2>1. Sound(c, r)
    BY <1>2, <1>5, Frame DEF Good, AsksNone
  <2> QED
    BY <1>2, <1>5, <2>1, SaveGood, SaveQuiet DEF AsksNone
<1>8. AsksNone(w, StartNextTask(Save(c), gate))
  BY <1>7, StartNextTaskQuiet DEF AsksNone
<1>9. AsksNone(w, StartNextTask(d, gate))
  <2>1. Good(d, r)
    BY <1>3, Frame DEF AsksNone
  <2> QED
    BY <1>3, <2>1, StartNextTaskQuiet DEF AsksNone
<1>10. AsksNone(w, OnPreflight(w, blocking, gate))
  BY <1>6, <1>7, <1>8 DEF OnPreflight, a, b, c
<1>11. AsksNone(w, OnStorageSettled(w, gate))
  BY <1>3, <1>9 DEF OnStorageSettled, d
<1> QED
  BY <1>10, <1>11

LEMMA HaltsQuiet ==
  ASSUME NEW r, NEW w, Good(w, r)
  PROVE  AsksNone(w, Pause(w)) /\ AsksNone(w, Stop(w))
<1>1. w \in Worlds
  BY DEF Good, Sound
<1>2. /\ AsksNone(w, Save([w EXCEPT !.state = "pause_requested"]))
      /\ AsksNone(w, Save([w EXCEPT !.state = "stop_requested"]))
  BY <1>1, StateQuiet DEF States
<1>3. AsksNone(w, Save(w)) /\ AsksNone(w, PausedNow(w)) /\ AsksNone(w, Stopped(w))
  BY <1>1, SaveQuiet, PausedNowQuiet, StoppedQuiet
<1> QED
  BY <1>2, <1>3 DEF Pause, Stop

LEMMA CorrectionsQuiet ==
  ASSUME NEW r \in [Keys -> Nat], NEW w, Good(w, r), NEW wanted, NEW verdict \in Confirmed, NEW i
  PROVE  /\ AsksNone(w, OnFilesChecked(w, wanted, verdict))
         /\ AsksNone(w, SkipUncertain(w)) /\ AsksNone(w, SkipMissed(w, i))
<1>1. w \in Worlds
  BY DEF Good, Sound
<1>2. ASSUME NEW f \in [Keys -> Statuses]
      PROVE  AsksNone(w, Save([w EXCEPT !.tasks = f])) /\ AsksNone(w, Save(Recount([w EXCEPT !.tasks = f])))
  <2> DEFINE v == [w EXCEPT !.tasks = f]
             x == Recount(v)
  <2>1. v \in Worlds /\ AsksNone(w, v)
    BY <1>1, <1>2 DEF Worlds, AsksNone
  <2> HIDE DEF v
  <2>2. x \in Worlds /\ AsksNone(v, x)
    <3>1. \A n \in Rounds : (IF n # v.current /\ v.rounds[n] \in {"done", "partial", "failed"}
                               THEN Verdict(v, n) ELSE v.rounds[n]) \in RoundStates
      BY <2>1, VerdictType DEF Worlds
    <3> QED
      BY <2>1, <3>1 DEF Worlds, AsksNone, Recount
  <2> HIDE DEF x
  <2> QED
    BY <2>1, <2>2, SaveQuiet DEF AsksNone, v, x
<1>3. AsksNone(w, OnFilesChecked(w, wanted, verdict))
  <2> DEFINE found(t) == \E n \in recorded[t] : <<t, n>> \in wanted
             f == [t \in Keys |-> CASE t \notin UncertainKeys(w) -> w.tasks[t]
                                    [] t \in UncertainKeys(w) /\ found(t) -> verdict
                                    [] OTHER -> "no_file"]
  <2>1. f \in [Keys -> Statuses]
    BY <1>1 DEF Worlds, Statuses, Confirmed
  <2> HIDE DEF f
  <2> QED
    BY <1>2, <2>1 DEF OnFilesChecked, f
<1>4. AsksNone(w, SkipUncertain(w))
  <2> DEFINE meant == {IF InPass(w) THEN <<w.current, t[2]>> ELSE t : t \in UncertainKeys(w)}
             skipped == {t \in meant : w.tasks[t] \notin Confirmed \cup {"none"}}
             f == [t \in Keys |-> IF t \in skipped THEN "skipped" ELSE w.tasks[t]]
  <2>1. f \in [Keys -> Statuses]
    BY <1>1 DEF Worlds, Statuses
  <2>2. SkipUncertain(w) = IF skipped = {} THEN w ELSE Save([w EXCEPT !.tasks = f])
    BY DEF SkipUncertain
  <2> HIDE DEF f, skipped
  <2> QED
    BY <1>2, <2>1, <2>2 DEF AsksNone
<1>5. AsksNone(w, SkipMissed(w, i))
  <2> DEFINE v == [w EXCEPT !.rounds[i] = "skipped"]
  <2>1. v \in Worlds /\ AsksNone(w, v)
    BY <1>1 DEF Worlds, RoundStates, AsksNone
  <2> QED
    BY <2>1, SaveQuiet DEF SkipMissed, AsksNone
<1> QED
  BY <1>3, <1>4, <1>5

-----------------------------------------------------------------------------
(* What asks for rows: a pass that starts, and a retry.  A pass that starts is the running
   one when its handler returns, so no handler starts two.                                *)
AsksOnce(w, v) ==
  /\ AsksRows(w, v)
  /\ InPass(w) => AsksNone(w, v)
  /\ AsksNone(w, v) \/ InPass(v)

LEMMA StartRoundAsks ==
  ASSUME NEW r \in [Keys -> Nat], NEW w, NEW i \in Rounds, NEW gate, Good(w, r)
  PROVE  AsksRows(w, StartRound(w, i, gate)) /\ InPass(StartRound(w, i, gate))
<1> DEFINE newTasks == [t \in Keys |-> IF t[1] = i THEN "queued" ELSE w.tasks[t]]
           newPermits == [t \in Keys |-> IF t[1] = i THEN w.permits[t] + 1 ELSE w.permits[t]]
           newRounds == [w.rounds EXCEPT ![i] = "running"]
           v == [w EXCEPT !.rounds = newRounds, !.current = i, !.tasks = newTasks,
                          !.permits = newPermits, !.state = "running",
                          !.preflightDue = TRUE, !.checked = FALSE]
           x == Save(v)
<1>1. w \in Worlds
  BY DEF Good, Sound
<1>2. newTasks \in [Keys -> Statuses] /\ newPermits \in [Keys -> Nat]
      /\ newRounds \in [Rounds -> RoundStates]
  BY <1>1 DEF Worlds, Statuses, RoundStates
<1>3. newPermits = Asked(w.permits, {t \in Keys : t[1] = i})
  BY DEF Asked
<1>4. <<i, 1>> \in Keys /\ newTasks[<<i, 1>>] = "queued" /\ 1 \in Rows /\ i # 0 /\ i \in 0 .. NRounds
  BY SizeAssumption DEF Keys, Rows, Rounds
<1> HIDE DEF newTasks, newPermits, newRounds
<1>5. /\ v \in Worlds /\ v.capture = w.capture /\ v.permits = newPermits /\ v.current = i
      /\ v.tasks = newTasks /\ v.state = "running" /\ v.preflightDue = TRUE
  BY <1>1, <1>2, <1>4 DEF Worlds, States
<1> HIDE DEF v
<1>6. /\ x \in Worlds /\ AsksNone(v, x) /\ x.current = i /\ x.tasks = newTasks
      /\ x.state = "running" /\ x.preflightDue = TRUE
  BY <1>5, SaveQuiet DEF Save, Worlds, Session, SessionType
<1>7. QueuedRows(x) # {}
  BY <1>4, <1>6 DEF QueuedRows, InPass
<1> HIDE DEF x
<1>8. StartNextTask(x, gate) \in {x, [x EXCEPT !.preflightPending = TRUE]}
  BY <1>6, <1>7 DEF StartNextTask
<1>9. AsksNone(x, StartNextTask(x, gate)) /\ StartNextTask(x, gate).current = i
  BY <1>6, <1>8 DEF AsksNone, Worlds
<1>10. StartRound(w, i, gate) = StartNextTask(x, gate)
  BY DEF StartRound, x, v, newTasks, newPermits, newRounds
<1> QED
  BY <1>3, <1>4, <1>5, <1>6, <1>9, <1>10 DEF AsksRows, AsksNone, InPass

LEMMA NextDueType ==
  ASSUME NEW w, Due(w) # {}
  PROVE  NextDue(w) \in Rounds
<1>1. Due(w) \in SUBSET Nat /\ Due(w) \subseteq Rounds
  BY DEF Due, Rounds
<1>2. \E i \in Due(w) : \A j \in Due(w) : i <= j
  BY <1>1, LeastExists
<1>3. NextDue(w) \in Due(w)
  BY <1>2 DEF NextDue
<1> QED
  BY <1>1, <1>3

LEMMA TickAsks ==
  ASSUME NEW r \in [Keys -> Nat], NEW w, NEW gate, NEW elapsed, Good(w, r)
  PROVE  AsksOnce(w, Tick(w, gate, elapsed))
<1>0. w \in Worlds
  BY DEF Good, Sound
<1>1. ASSUME NEW v, Good(v, r), ~InPass(v)
      PROVE  AsksOnce(v, TickBetweenPasses(v, gate))
  <2> DEFINE c == Classify(v, FALSE)
  <2>1. Good(c, r) /\ AsksNone(v, c) /\ c.current = v.current
    BY <1>1, ClassifyGood, ClassifyQuiet DEF Good, Sound
  <2>2. c \in Worlds /\ v \in Worlds
    BY <1>1, <2>1 DEF Good, Sound
  <2> HIDE DEF c
  <2>3. CASE Due(c) # {}
    <3>1. AsksRows(c, StartRound(c, NextDue(c), gate)) /\ InPass(StartRound(c, NextDue(c), gate))
      BY <2>1, <2>3, NextDueType, StartRoundAsks
    <3>2. TickBetweenPasses(v, gate) = StartRound(c, NextDue(c), gate)
      BY <2>3 DEF TickBetweenPasses, c
    <3> QED
      BY <1>1, <2>1, <3>1, <3>2 DEF AsksOnce, AsksRows, AsksNone
  <2>4. CASE Due(c) = {}
    <3>1. AsksNone(c, FinishSession(c)) /\ AsksNone(c, [c EXCEPT !.state = "waiting_schedule"])
      BY <2>2, FinishSessionQuiet, StateQuiet DEF States
    <3>2. AsksNone(v, TickBetweenPasses(v, gate))
      BY <2>1, <2>4, <3>1 DEF TickBetweenPasses, c, AsksNone
    <3> QED
      BY <2>2, <3>2, QuietAsks DEF AsksOnce
  <2> QED
    BY <2>3, <2>4
<1>2. ASSUME NEW v, Good(v, r)
      PROVE  AsksNone(v, TickInPass(v, gate, elapsed))
  <2> DEFINE c == Classify(v, TRUE)
             x == [c EXCEPT !.state = "running"]
  <2>1. Good(c, r) /\ AsksNone(v, c)
    BY <1>2, ClassifyGood, ClassifyQuiet DEF Good, Sound
  <2> HIDE DEF c
  <2>2. Good(x, r) /\ AsksNone(c, x)
    <3>1. c \in Worlds /\ "running" \in States
      BY <2>1 DEF Good, Sound, States
    <3> QED
      BY <2>1, <3>1, StateGood, StateQuiet
  <2> HIDE DEF x
  <2>3. AsksNone(x, StartNextTask(x, gate)) /\ AsksNone(c, StartNextTask(c, gate))
    BY <2>1, <2>2, StartNextTaskQuiet
  <2> QED
    BY <2>1, <2>2, <2>3 DEF TickInPass, AsksNone, c, x
<1>3. ASSUME NEW v, Good(v, r)
      PROVE  LET next == IF InPass(v) THEN TickInPass(v, gate, elapsed) ELSE TickBetweenPasses(v, gate)
             IN  AsksOnce(v, next)
  BY <1>1, <1>2, <1>3, QuietAsks DEF AsksOnce, Good, Sound
<1>4. AsksOnce(w, w)
  BY <1>0, QuietAsks DEF AsksOnce, AsksNone
<1> DEFINE s == IF InPass(w) THEN "running" ELSE "waiting_schedule"
           caughtUp == [w EXCEPT !.state = s]
<1>5. Good(caughtUp, r) /\ AsksNone(w, caughtUp) /\ (InPass(caughtUp) <=> InPass(w))
  <2>1. s \in States
    BY DEF States
  <2> HIDE DEF s
  <2> QED
    BY <1>0, <2>1, StateGood, StateQuiet DEF InPass
<1> HIDE DEF caughtUp
<1>6. ASSUME NEW x, AsksOnce(caughtUp, x)
      PROVE  AsksOnce(w, x)
  BY <1>5, <1>6 DEF AsksOnce, AsksRows, AsksNone
<1>7. w.state = "paused_backlog" => AsksOnce(w, Tick(w, gate, elapsed))
  BY <1>3, <1>4, <1>5, <1>6 DEF Tick, caughtUp
<1>8. w.state # "paused_backlog" => AsksOnce(w, Tick(w, gate, elapsed))
  BY <1>3, <1>4 DEF Tick
<1> QED
  BY <1>7, <1>8

LEMMA TickNext ==
  ASSUME NEW r \in [Keys -> Nat], NEW w \in Worlds, NEW v, NEW gate, NEW elapsed,
         Good(v, r), AsksRows(w, v), AsksNone(w, v) \/ InPass(v)
  PROVE  AsksRows(w, Tick(v, gate, elapsed))
BY TickAsks DEF AsksOnce, AsksRows, AsksNone

LEMMA ResumesAsk ==
  ASSUME NEW r \in [Keys -> Nat], NEW w, NEW gate, NEW elapsed, Good(w, r)
  PROVE  AsksRows(w, Resume(w, gate, elapsed))
<1>1. w \in Worlds
  BY DEF Good, Sound
<1>2. \A s \in States : AsksRows(w, Tick(Save([w EXCEPT !.state = s]), gate, elapsed))
  <2> TAKE s \in States
  <2>1. Good(Save([w EXCEPT !.state = s]), r)
    BY StateGood, SaveGood DEF Good
  <2>2. AsksNone(w, Save([w EXCEPT !.state = s]))
    BY <1>1, StateQuiet
  <2> QED
    BY <1>1, <2>1, <2>2, TickNext, QuietAsks
<1>3. AsksRows(w, Tick(Save(w), gate, elapsed))
  <2>1. Good(Save(w), r) /\ AsksNone(w, Save(w))
    BY <1>1, SaveGood, SaveQuiet DEF Good
  <2> QED
    BY <1>1, <2>1, TickNext, QuietAsks
<1> DEFINE begun == \E k \in Rows : InPass(w) /\ w.tasks[<<w.current, k>>] # "queued"
           s == CASE ~InPass(w) -> "waiting_schedule"
                  [] InPass(w) /\ HasWait /\ begun -> "waiting"
                  [] OTHER -> "running"
<1>4. s \in States /\ "running" \in States
  BY DEF States
<1>5. Resume(w, gate, elapsed) =
        CASE w.state = "pause_requested" -> Tick(Save([w EXCEPT !.state = "running"]), gate, elapsed)
          [] w.state \in {"paused", "paused_backlog"} -> Tick(Save([w EXCEPT !.state = s]), gate, elapsed)
          [] OTHER -> Tick(Save(w), gate, elapsed)
  BY DEF Resume
<1> HIDE DEF s, begun
<1> QED
  BY <1>2, <1>3, <1>4, <1>5

LEMMA StartSessionAsks ==
  ASSUME NEW r \in [Keys -> Nat], NEW w, NEW gate, NEW elapsed, Good(w, r)
  PROVE  AsksRows(w, StartSession(w, gate, elapsed))
<1> DEFINE first == [i \in Rounds |-> CASE Mode = "times" -> "pending"
                                        [] Mode = "now" /\ i = 1 -> "due"
                                        [] OTHER -> "none"]
           v == [w EXCEPT !.rounds = first, !.owned = TRUE, !.timer = TRUE,
                          !.state = "waiting_schedule"]
           x == IF Mode = "times" THEN Classify(v, FALSE) ELSE v
<1>1. w \in Worlds
  BY DEF Good, Sound
<1>2. first \in [Rounds -> RoundStates]
  BY DEF RoundStates
<1> HIDE DEF first
<1>3. v \in Worlds /\ AsksNone(w, v) /\ v.tasks = w.tasks /\ v.disk = w.disk
  BY <1>1, <1>2 DEF Worlds, States, AsksNone
<1> HIDE DEF v
<1>4. Good(v, r)
  BY <1>3, Frame DEF AsksNone
<1>5. Good(x, r) /\ AsksNone(w, x)
  BY <1>3, <1>4, ClassifyGood, ClassifyQuiet DEF AsksNone
<1> HIDE DEF x
<1>6. Good(Save(x), r) /\ AsksNone(w, Save(x))
  BY <1>5, SaveGood, SaveQuiet DEF Good, Sound, AsksNone
<1>7. StartSession(w, gate, elapsed) = Tick(Save(x), gate, elapsed)
  BY DEF StartSession, x, v, first
<1> QED
  BY <1>1, <1>6, <1>7, TickNext, QuietAsks

LEMMA RetryAsks ==
  ASSUME NEW r \in [Keys -> Nat], NEW w, NEW i \in Rounds, NEW gate, NEW elapsed, Good(w, r)
  PROVE  AsksRows(w, Retry(w, i, gate, elapsed))
<1> DEFINE keys == RetryableKeys(w, i)
           newTasks == [t \in Keys |-> IF t \in keys THEN "queued" ELSE w.tasks[t]]
           newPermits == Asked(w.permits, keys)
           newRounds == [w.rounds EXCEPT ![i] = IF InPass(w) THEN @ ELSE "running"]
           s == IF AtRest(w) THEN "running" ELSE w.state
           holds == w.owned \/ AtRest(w)
           ticks == w.timer \/ AtRest(w)
           v == [w EXCEPT !.tasks = newTasks, !.permits = newPermits, !.rounds = newRounds,
                          !.current = i, !.owned = holds, !.timer = ticks, !.state = s]
<1>0. Retry(w, i, gate, elapsed) =
        IF RetryRefused(w, i) THEN w ELSE Tick(Save(v), gate, elapsed)
  BY DEF Retry, Asked
<1>1. w \in Worlds
  BY DEF Good, Sound
<1>2. CASE RetryRefused(w, i)
  BY <1>0, <1>1, <1>2, QuietAsks DEF AsksNone
<1>3. CASE ~RetryRefused(w, i)
  <2>1. keys \subseteq Keys /\ i # 0 /\ i \in 0 .. NRounds
    BY SizeAssumption DEF RetryableKeys, Rounds
  <2>2. newTasks \in [Keys -> Statuses] /\ newPermits \in [Keys -> Nat]
    BY <1>1 DEF Worlds, Statuses, Asked
  <2>3. newRounds \in [Rounds -> RoundStates]
    BY <1>1 DEF Worlds, RoundStates
  <2>4. s \in States /\ holds \in BOOLEAN /\ ticks \in BOOLEAN
    BY <1>1 DEF Worlds, States
  <2>5. \A t \in Keys : /\ newTasks[t] = IF t \in keys THEN "queued" ELSE w.tasks[t]
                        /\ newPermits[t] = IF t \in keys THEN w.permits[t] + 1 ELSE w.permits[t]
    BY DEF Asked
  <2>6. \A t \in keys : w.tasks[t] # "queued"
    BY DEF RetryableKeys, Retryable
  <2> HIDE DEF keys, newTasks, newPermits, newRounds, s, holds, ticks
  <2>7. /\ v \in Worlds /\ v.capture = w.capture /\ v.permits = newPermits /\ v.current = i
        /\ v.tasks = newTasks
    <3>1. v \in Worlds
      BY <1>1, <2>1, <2>2, <2>3, <2>4 DEF Worlds
    <3> QED
      BY <1>1, <3>1 DEF Worlds
  <2> HIDE DEF v
  <2>8. AsksNone(v, Save(v)) /\ Save(v).current = i
    BY <2>7, SaveQuiet
  <2>9. AsksRows(w, Save(v)) /\ InPass(Save(v))
    BY <2>1, <2>7, <2>8 DEF AsksRows, AsksNone, InPass, newPermits
  <2>10. Good(Save(v), r)
    <3>1. ASSUME SavesFirst, NEW t \in Keys
          PROVE  r[t] + ToCome(v, t) <= v.permits[t]
      <4>1. r[t] + ToCome(w, t) <= w.permits[t] /\ w.permits[t] \in Nat /\ r[t] \in Nat
        BY <3>1 DEF Good, Sound, Owed, Worlds
      <4> QED
        BY <2>7, <2>5, <2>6, <4>1 DEF ToCome, OnItsWay
    <3> QED
      BY <2>7, <3>1, SaveGood DEF Sound, Owed
  <2> QED
    BY <1>0, <1>1, <1>3, <2>9, <2>10, TickNext
<1> QED
  BY <1>2, <1>3

LEMMA MarkMissedQuiet ==
  ASSUME NEW w \in Worlds
  PROVE  AsksNone(w, MarkMissed(w)) /\ MarkMissed(w).current = w.current
BY DEF AsksNone, MarkMissed, Worlds

LEMMA ContinueAsks ==
  ASSUME NEW r \in [Keys -> Nat], NEW w, NEW gate, NEW elapsed, Good(w, r)
  PROVE  LET v == Continue(w, gate, elapsed)
         IN  AsksRows(w, v) /\ (AsksNone(w, v) \/ InPass(v))
<1> DEFINE held == [w EXCEPT !.owned = TRUE, !.timer = TRUE, !.inFlight = FALSE]
           marked == MarkMissed(held)
           s == IF InPass(w) THEN "running" ELSE "waiting_schedule"
           on == [marked EXCEPT !.state = s, !.preflightDue = InPass(w)]
           rest == [w EXCEPT !.downloadsOnly = FALSE, !.state = "done"]
           ended == FinishRound(marked, FALSE)
<1>1. w \in Worlds
  BY DEF Good, Sound
<1>2. /\ held \in Worlds /\ AsksNone(w, held) /\ held.tasks = w.tasks
      /\ held.disk.tasks = w.disk.tasks
  BY <1>1 DEF Worlds, AsksNone
<1> HIDE DEF held
<1>3. Good(marked, r) /\ AsksNone(w, marked) /\ marked \in Worlds
  <2>1. Good(held, r)
    BY <1>2, Frame DEF AsksNone
  <2>2. Good(marked, r)
    BY <2>1, MarkMissedGood
  <2> QED
    BY <1>2, <2>2, MarkMissedQuiet DEF AsksNone, Good, Sound
<1> HIDE DEF marked
<1>4. s \in States /\ InPass(w) \in BOOLEAN
  BY DEF States, InPass
<1> HIDE DEF s
<1>5. /\ on \in Worlds /\ AsksNone(marked, on) /\ on.tasks = marked.tasks
      /\ on.disk.tasks = marked.disk.tasks
  BY <1>3, <1>4 DEF Worlds, AsksNone
<1> HIDE DEF on
<1>6. rest \in Worlds /\ AsksNone(w, rest)
  BY <1>1 DEF Worlds, States, AsksNone
<1> HIDE DEF rest
<1>7. Good(on, r) /\ Good(ended, r) /\ AsksNone(w, on) /\ AsksNone(w, ended)
  <2>1. Good(on, r)
    BY <1>3, <1>5, Frame DEF AsksNone
  <2> QED
    BY <1>3, <1>5, <2>1, FinishRoundGood, FinishRoundQuiet DEF AsksNone
<1> HIDE DEF ended
<1>8. /\ Good(Save(on), r) /\ Good(Save(ended), r)
      /\ AsksNone(w, Save(on)) /\ AsksNone(w, Save(ended)) /\ AsksNone(w, Save(rest))
  BY <1>6, <1>7, SaveGood, SaveQuiet DEF Good, Sound, AsksNone
<1>9. ASSUME NEW x, Good(x, r), AsksNone(w, x)
      PROVE  LET v == Tick(x, gate, elapsed) IN AsksRows(w, v) /\ (AsksNone(w, v) \/ InPass(v))
  BY <1>9, TickAsks DEF AsksOnce, AsksRows, AsksNone
<1>10. CASE w.downloadsOnly
  <2>1. Continue(w, gate, elapsed) = Save(rest)
    BY <1>10 DEF Continue, rest
  <2> QED
    BY <1>1, <1>8, <2>1, QuietAsks
<1>11. CASE ~w.downloadsOnly /\ InPass(w) /\ QueuedRows(w) = {}
  <2>1. Continue(w, gate, elapsed) = Tick(Save(ended), gate, elapsed)
    BY <1>11 DEF Continue, ended, marked, held
  <2> QED
    BY <1>8, <1>9, <2>1
<1>12. CASE ~w.downloadsOnly /\ ~(InPass(w) /\ QueuedRows(w) = {})
  <2>1. Continue(w, gate, elapsed) = Tick(Save(on), gate, elapsed)
    BY <1>12 DEF Continue, on, marked, held, s
  <2> QED
    BY <1>8, <1>9, <2>1
<1> QED
  BY <1>1, <1>10, <1>11, <1>12 DEF Worlds

LEMMA RunMissedAsks ==
  ASSUME NEW r \in [Keys -> Nat], NEW w, NEW i, NEW gate, NEW elapsed, Good(w, r)
  PROVE  AsksRows(w, RunMissed(w, i, gate, elapsed))
<1> DEFINE c == IF w.state = "interrupted" THEN Continue(w, gate, elapsed) ELSE w
           rested == c.state \in {"done", "idle"}
           s == IF rested THEN "waiting_schedule" ELSE c.state
           holds == c.owned \/ rested
           ticks == c.timer \/ rested
           v == [c EXCEPT !.rounds[i] = "due", !.owned = holds, !.timer = ticks, !.state = s]
<1>0. w \in Worlds
  BY DEF Good, Sound
<1>1. Good(c, r) /\ AsksRows(w, c) /\ (AsksNone(w, c) \/ InPass(c))
  <2>1. CASE w.state = "interrupted"
    BY <2>1, ContinueGood, ContinueAsks
  <2>2. CASE w.state # "interrupted"
    BY <1>0, <2>2, QuietAsks DEF AsksNone
  <2> QED
    BY <2>1, <2>2
<1> HIDE DEF c
<1>2. c \in Worlds
  BY <1>1 DEF Good, Sound
<1>3. s \in States /\ holds \in BOOLEAN /\ ticks \in BOOLEAN
  BY <1>2 DEF Worlds, States
<1> HIDE DEF s, holds, ticks
<1>4. [c.rounds EXCEPT ![i] = "due"] \in [Rounds -> RoundStates]
  BY <1>2 DEF Worlds, RoundStates
<1>5. v \in Worlds
  BY <1>2, <1>3, <1>4 DEF Worlds
<1>6. v.tasks = c.tasks /\ AsksNone(c, v) /\ v.disk = c.disk /\ v.current = c.current
  BY <1>2 DEF Worlds, AsksNone
<1> HIDE DEF v
<1>7. Good(Save(v), r)
  BY <1>1, <1>5, <1>6, Frame, SaveGood DEF AsksNone, Good
<1>8. AsksNone(c, Save(v)) /\ Save(v).current = c.current
  BY <1>5, <1>6, SaveQuiet DEF AsksNone
<1>9. AsksRows(w, Save(v)) /\ (AsksNone(w, Save(v)) \/ InPass(Save(v)))
  BY <1>1, <1>8 DEF AsksRows, AsksNone, InPass
<1>10. AsksRows(w, Tick(Save(v), gate, elapsed))
  BY <1>0, <1>7, <1>9, TickNext
<1>11. RunMissed(w, i, gate, elapsed)
         = IF rested /\ ~CanReserve THEN c ELSE Tick(Save(v), gate, elapsed)
  BY DEF RunMissed, c, s, holds, ticks, v
<1> QED
  BY <1>1, <1>10, <1>11

-----------------------------------------------------------------------------
(* What sends: the answer of the idle check, for a row that is still queued. *)
LEMMA SubmitSends ==
  ASSUME NEW r \in [Keys -> Nat], NEW w, NEW t \in Keys, NEW answer \in AllAnswers, NEW gate,
         Good(w, r), w.tasks[t] = "queued"
  PROVE  AsksNone(w, Submit(w, t, answer, gate)) \/ Sends(w, Submit(w, t, answer, gate), r)
<1> DEFINE refused == Save([w EXCEPT !.tasks[t] = "not_sent", !.attempts[t] = @ + 1])
           c == [key |-> t, phase |-> "sent", outcome |-> "open"]
           sent == Save([w EXCEPT !.capture = c, !.posts[t] = @ + 1, !.inFlight = TRUE,
                                  !.storageSettled = FALSE, !.tasks[t] = "submitting",
                                  !.attempts[t] = @ + 1])
<1>1. w \in Worlds
  BY DEF Good, Sound
<1>2. AsksNone(w, AfterTask(refused, gate))
  <2>1. AsksNone(w, refused)
    BY <1>1 DEF AsksNone, Save, Worlds
  <2> HIDE DEF refused
  <2>2. Good(refused, r)
    BY RefusedGood DEF refused
  <2> QED
    BY <2>1, <2>2, AfterTaskQuiet DEF AsksNone
<1>3. ~HostBusy(w) => Sends(w, sent, r)
  <2>1. sent.permits = w.permits /\ sent.capture = c
    BY <1>1 DEF Save, Worlds
  <2>2. SavesFirst => r[t] < w.permits[t]
    <3>1. ASSUME SavesFirst
          PROVE  r[t] < w.permits[t]
      <4>1. r[t] + ToCome(w, t) <= w.permits[t] /\ w.permits[t] \in Nat /\ r[t] \in Nat
        BY <3>1 DEF Good, Sound, Owed, Worlds
      <4> QED
        BY <4>1 DEF ToCome, OnItsWay
    <3> QED
      BY <3>1
  <2>3. c.key = t /\ c.phase = "sent"
    OBVIOUS
  <2> HIDE DEF c, sent
  <2> QED
    BY <2>1, <2>2, <2>3 DEF Sends, OutOf, HostBusy
<1>4. AsksNone(w, w) /\ AsksNone(w, PausedNow(w)) /\ AsksNone(w, Save([w EXCEPT !.state = "paused_backlog"]))
  BY <1>1, PausedNowQuiet, StateQuiet DEF AsksNone, States
<1> QED
  BY <1>2, <1>3, <1>4 DEF Submit, AllAnswers, refused, sent, c

LEMMA IdleResultSends ==
  ASSUME NEW r \in [Keys -> Nat], NEW w, NEW idle, NEW answer \in AllAnswers, NEW gate,
         Good(w, r), w.idleCheck # None
  PROVE  LET v == OnIdleResult(w, idle, answer, gate) IN AsksNone(w, v) \/ Sends(w, v, r)
<1> DEFINE t == w.idleCheck
           v == [w EXCEPT !.idleCheck = None]
           busy == [v EXCEPT !.idleRetries = @ + 1]
           free == [v EXCEPT !.idleRetries = 0]
           stale == v.inFlight \/ v.tasks[t] # "queued" \/ v.current # t[1]
<1>1. w \in Worlds /\ t \in Keys
  BY DEF Good, Sound, Worlds
<1>2. v \in Worlds /\ AsksNone(w, v) /\ v.tasks = w.tasks /\ v.disk = w.disk
  BY <1>1 DEF Worlds, AsksNone
<1> HIDE DEF v
<1>3. v.idleRetries + 1 \in Nat
  BY <1>2 DEF Worlds
<1>4. busy \in Worlds /\ AsksNone(v, busy)
  BY <1>2, <1>3 DEF Worlds, AsksNone
<1>5. free \in Worlds /\ AsksNone(v, free) /\ free.tasks = v.tasks /\ free.disk = v.disk
  BY <1>2 DEF Worlds, AsksNone
<1> HIDE DEF busy, free, t
<1>6. Good(v, r) /\ Good(free, r)
  BY <1>2, <1>5, Frame DEF AsksNone
<1>7. AsksNone(w, StartNextTask(v, gate)) /\ AsksNone(w, PausedNow(busy)) /\ AsksNone(w, BeginWait(busy))
  BY <1>2, <1>4, <1>6, StartNextTaskQuiet, PausedNowQuiet DEF AsksNone
<1>8. ASSUME v.tasks[t] = "queued"
      PROVE  AsksNone(w, Submit(free, t, answer, gate)) \/ Sends(w, Submit(free, t, answer, gate), r)
  <2>1. AsksNone(free, Submit(free, t, answer, gate)) \/ Sends(free, Submit(free, t, answer, gate), r)
    BY <1>1, <1>5, <1>6, <1>8, SubmitSends
  <2>2. AsksNone(w, free)
    BY <1>2, <1>5 DEF AsksNone
  <2> QED
    BY <2>1, <2>2 DEF AsksNone, Sends
<1>9. OnIdleResult(w, idle, answer, gate) =
        CASE stale \/ ~MayGoOn(v) -> v
          [] ~stale /\ v.state \in {"pause_requested", "stop_requested"} -> StartNextTask(v, gate)
          [] ~stale /\ v.state = "running" /\ ~idle ->
               IF busy.idleRetries > IdleRetries THEN PausedNow(busy) ELSE BeginWait(busy)
          [] OTHER -> Submit(free, t, answer, gate)
  BY DEF OnIdleResult, v, busy, free, t
<1> QED
  BY <1>2, <1>7, <1>8, <1>9

LEMMA CaptureFinishedQuiet ==
  ASSUME NEW r \in [Keys -> Nat], NEW w, NEW gate, Good(w, r), w.capture.phase = "reported"
  PROVE  LET v == OnCaptureFinished(w, gate)
         IN  v.permits = w.permits /\ v.capture = NoCapture
<1> DEFINE x == Reported(w)
<1>1. w \in Worlds
  BY DEF Good, Sound
<1>2. Good(x, r)
  BY OnCaptureFinishedGood
<1>3. x.permits = w.permits /\ x.capture = NoCapture
  BY <1>1 DEF Reported, Save, Worlds
<1>4. OnCaptureFinished(w, gate) = AfterTask(x, gate)
  BY DEF OnCaptureFinished, Reported
<1> HIDE DEF x
<1> QED
  BY <1>2, <1>3, <1>4, AfterTaskQuiet DEF AsksNone

LEMMA LoadedQuiet ==
  ASSUME NEW w \in Worlds, NEW unfinished \in BOOLEAN
  PROVE  AsksNone(w, Loaded(w, unfinished))
<1> DEFINE s == IF w.disk.state = "done" /\ ~unfinished THEN "done" ELSE "interrupted"
           only == w.disk.state = "done" /\ unfinished
           v == [w EXCEPT !.state = s, !.downloadsOnly = only]
<1>1. s \in States /\ only \in BOOLEAN
  BY DEF States
<1> HIDE DEF s, only
<1>2. v \in Worlds /\ AsksNone(w, v)
  BY <1>1 DEF Worlds, AsksNone
<1> HIDE DEF v
<1>3. AsksNone(v, MarkMissed(v))
  BY <1>2, MarkMissedQuiet
<1> QED
  BY <1>2, <1>3 DEF Loaded, AsksNone, v, s, only

-----------------------------------------------------------------------------
(* A step of the controller, seen as one of SensorRequests. *)
RequestsStep == [Requests!Next]_(Requests!requests)

LEMMA AskStep ==
  ASSUME CaptureNamed, World \in Worlds, NEW v \in Worlds, Become(v), reached' = reached,
         AsksRows(World, v)
  PROVE  CaptureNamed' /\ RequestsStep
<1>1. permits' = v.permits /\ capture' = capture
  BY DEF Become, AsksRows, World
<1>2. PICK S \in SUBSET Keys : v.permits = Asked(permits, S)
  BY DEF AsksRows, World
<1>3. Requests!Ask(S)
  BY <1>1, <1>2 DEF Requests!Ask, Asked
<1> QED
  BY <1>1, <1>3 DEF CaptureNamed, RequestsStep, Requests!Next

LEMMA SendStep ==
  ASSUME SavesFirst, World \in Worlds, NEW v \in Worlds, Become(v), reached' = reached,
         Sends(World, v, reached)
  PROVE  CaptureNamed' /\ RequestsStep
<1>1. /\ permits' = permits /\ capture' = v.capture /\ OutOf(capture) = None
      /\ v.capture.phase = "sent" /\ v.capture.key \in Keys
      /\ reached[v.capture.key] < permits[v.capture.key]
  BY DEF Become, Sends, World
<1>2. Requests!Send(v.capture.key)
  BY <1>1 DEF Requests!Send, OutOf
<1> QED
  BY <1>1, <1>2 DEF CaptureNamed, RequestsStep, Requests!Next

(* Nothing is out before the step and nothing is after it. *)
LEMMA RestStep ==
  ASSUME World \in Worlds, NEW v \in Worlds, Become(v), reached' = reached,
         v.permits = permits, v.capture = NoCapture, capture.phase # "sent"
  PROVE  CaptureNamed' /\ RequestsStep
<1>1. permits' = permits /\ capture' = NoCapture
  BY DEF Become
<1>2. UNCHANGED Requests!requests
  BY <1>1 DEF Requests!requests, NoCapture
<1> QED
  BY <1>1, <1>2 DEF CaptureNamed, RequestsStep, NoCapture

LEMMA WorkersAsk ==
  ASSUME SavesFirst, IInv, CaptureNamed, NEW gate, NEW elapsed \in BOOLEAN,
         NEW idle \in BOOLEAN, NEW blocking \in BOOLEAN, NEW answer \in AllAnswers,
         \/ TimerTick(gate, elapsed)
         \/ PreflightAnswered(blocking, gate)
         \/ StorageSettleAnswered(gate)
         \/ IdleCheckAnswered(idle, answer, gate)
         \/ CaptureFinished(gate)
  PROVE  CaptureNamed' /\ RequestsStep
<1>1. /\ Good(World, reached) /\ World \in Worlds /\ reached \in [Keys -> Nat]
      /\ reached' = reached
  BY DEF IInv, Surroundings, Good, Sound, TimerTick, PreflightAnswered, StorageSettleAnswered,
         IdleCheckAnswered, CaptureFinished, outside
<1>2. CASE TimerTick(gate, elapsed)
  <2> DEFINE v == Tick(World, gate, elapsed)
  <2>1. v \in Worlds /\ AsksRows(World, v)
    BY <1>1, TickGood, TickAsks DEF Good, Sound, AsksOnce
  <2>2. Become(v)
    BY <1>2 DEF TimerTick
  <2> HIDE DEF v
  <2> QED
    BY <1>1, <2>1, <2>2, AskStep
<1>3. CASE PreflightAnswered(blocking, gate)
  <2> DEFINE v == OnPreflight(World, blocking, gate)
  <2>1. v \in Worlds /\ AsksRows(World, v)
    BY <1>1, OnPreflightGood, AnswersQuiet, QuietAsks DEF Good, Sound
  <2>2. Become(v)
    BY <1>3 DEF PreflightAnswered
  <2> HIDE DEF v
  <2> QED
    BY <1>1, <2>1, <2>2, AskStep
<1>4. CASE StorageSettleAnswered(gate)
  <2> DEFINE v == OnStorageSettled(World, gate)
  <2>1. v \in Worlds /\ AsksRows(World, v)
    BY <1>1, OnStorageSettledGood, AnswersQuiet, QuietAsks DEF Good, Sound
  <2>2. Become(v)
    BY <1>4 DEF StorageSettleAnswered
  <2> HIDE DEF v
  <2> QED
    BY <1>1, <2>1, <2>2, AskStep
<1>5. CASE IdleCheckAnswered(idle, answer, gate)
  <2> DEFINE v == OnIdleResult(World, idle, answer, gate)
  <2>1. World.idleCheck # None /\ Become(v)
    BY <1>5 DEF IdleCheckAnswered, World
  <2>2. v \in Worlds
    BY <1>1, <2>1, OnIdleResultGood DEF Good, Sound
  <2>3. AsksNone(World, v) \/ Sends(World, v, reached)
    BY <1>1, <2>1, IdleResultSends
  <2> HIDE DEF v
  <2> QED
    BY <1>1, <2>1, <2>2, <2>3, AskStep, QuietAsks, SendStep
<1>6. CASE CaptureFinished(gate)
  <2> DEFINE v == OnCaptureFinished(World, gate)
  <2>1. World.capture.phase = "reported" /\ capture.phase # "sent" /\ Become(v)
    BY <1>6 DEF CaptureFinished, World
  <2>2. v \in Worlds
    BY <1>1, <2>1, OnCaptureFinishedGood DEF Good, Sound
  <2>3. v.permits = permits /\ v.capture = NoCapture
    BY <1>1, <2>1, CaptureFinishedQuiet DEF World
  <2> HIDE DEF v
  <2> QED
    BY <1>1, <2>1, <2>2, <2>3, RestStep
<1> QED
  BY <1>2, <1>3, <1>4, <1>5, <1>6

LEMMA SensorReceives ==
  ASSUME IInv, CaptureNamed, NEW outcome \in AllOutcomes, NEW file \in BOOLEAN,
         RequestReaches \/ CaptureReports(outcome, file)
  PROVE  CaptureNamed' /\ RequestsStep
<1>1. capture \in CaptureType /\ reached \in [Keys -> Nat]
  BY DEF IInv, Good, Sound, World, Worlds, Surroundings
<1>2. CASE RequestReaches
  <2>1. /\ capture.phase = "sent" /\ capture' = [capture EXCEPT !.phase = "reached"]
        /\ reached' = [reached EXCEPT ![capture.key] = @ + 1] /\ permits' = permits
    BY <1>2 DEF RequestReaches
  <2>2. capture'.phase = "reached" /\ capture'.key = capture.key /\ capture.key \in Keys
    BY <1>1, <2>1 DEF CaptureType, CaptureNamed
  <2>3. capture.key # None
    BY <2>2 DEF Keys, Rounds, None
  <2>4. Requests!Arrive
    BY <2>1, <2>2, <2>3 DEF Requests!Arrive
  <2> QED
    BY <2>2, <2>4 DEF CaptureNamed, RequestsStep, Requests!Next
<1>3. CASE CaptureReports(outcome, file)
  <2>1. /\ capture.phase \in {"sent", "reached"}
        /\ capture' = [capture EXCEPT !.phase = "reported", !.outcome = outcome]
        /\ reached' = reached /\ permits' = permits
    BY <1>3 DEF CaptureReports
  <2>2. capture'.phase = "reported" /\ capture'.key = capture.key /\ capture.key \in Keys
    BY <1>1, <2>1 DEF CaptureType, CaptureNamed
  <2>3. capture.key # None
    BY <2>2 DEF Keys, Rounds, None
  <2>4. CASE capture.phase = "sent"
    <3>1. Requests!Lose
      BY <2>1, <2>2, <2>3, <2>4 DEF Requests!Lose
    <3> QED
      BY <2>2, <3>1 DEF CaptureNamed, RequestsStep, Requests!Next
  <2>5. CASE capture.phase = "reached"
    <3>1. UNCHANGED Requests!requests
      BY <2>1, <2>2, <2>5 DEF Requests!requests
    <3> QED
      BY <2>2, <3>1 DEF CaptureNamed, RequestsStep
  <2> QED
    BY <2>1, <2>4, <2>5
<1> QED
  BY <1>2, <1>3

LEMMA AfterCheckAsks ==
  ASSUME IInv, CaptureNamed, NEW w, Good(w, reached), AsksNone(World, w), NEW job \in CheckType,
         NEW gate, NEW elapsed, AfterCheck(job, w, gate, elapsed), reached' = reached
  PROVE  CaptureNamed' /\ RequestsStep
<1>1. World \in Worlds /\ reached \in [Keys -> Nat] /\ w \in Worlds
  BY DEF IInv, Surroundings, Good, Sound
<1>2. CASE job.retry = 0
  <2>1. Become(w) /\ AsksRows(World, w)
    BY <1>1, <1>2, QuietAsks DEF AfterCheck
  <2> QED
    BY <1>1, <2>1, AskStep
<1>3. CASE job.retry # 0
  <2> DEFINE v == Retry(w, job.retry, gate, elapsed)
  <2>1. job.retry \in Rounds
    BY <1>3, SizeAssumption DEF CheckType, Rounds
  <2>2. Become(v)
    BY <1>3 DEF AfterCheck, Retried
  <2>3. v \in Worlds /\ AsksRows(w, v)
    BY <1>1, <2>1, RetryGood, RetryAsks DEF Good, Sound
  <2> HIDE DEF v
  <2>4. AsksRows(World, v)
    BY <2>3 DEF AsksRows, AsksNone
  <2> QED
    BY <1>1, <2>2, <2>3, <2>4, AskStep
<1> QED
  BY <1>2, <1>3

LEMMA ChecksAsk ==
  ASSUME IInv, CaptureNamed, NEW c \in 1 .. MaxChecks, NEW idle \in BOOLEAN, NEW gate,
         NEW elapsed \in BOOLEAN, NEW answer \in Confirmed \cup {"failed"},
         MissionListRead(c, idle, gate, elapsed) \/ FilesListed(c, answer, gate, elapsed)
  PROVE  CaptureNamed' /\ RequestsStep
<1>1. /\ Good(World, reached) /\ World \in Worlds /\ reached \in [Keys -> Nat]
      /\ checks[c] \in CheckType /\ AsksNone(World, World) /\ AsksRows(World, World)
  BY QuietAsks DEF IInv, Surroundings, Good, Sound, AsksNone
<1>2. reached' = reached
  BY DEF MissionListRead, FilesListed, outside
<1>3. CASE MissionListRead(c, idle, gate, elapsed)
  <2>1. Become(World) \/ AfterCheck(checks[c], World, gate, elapsed)
    BY <1>3 DEF MissionListRead
  <2> QED
    BY <1>1, <1>2, <2>1, AskStep, AfterCheckAsks
<1>4. CASE FilesListed(c, answer, gate, elapsed)
  <2> DEFINE w == IF answer = "failed" THEN World
                  ELSE OnFilesChecked(World, checks[c].wanted, answer)
  <2>1. Good(w, reached) /\ AsksNone(World, w)
    BY <1>1, OnFilesCheckedGood, CorrectionsQuiet DEF Good
  <2>2. AfterCheck(checks[c], w, gate, elapsed)
    BY <1>4 DEF FilesListed
  <2> HIDE DEF w
  <2> QED
    BY <1>1, <1>2, <2>1, <2>2, AfterCheckAsks
<1> QED
  BY <1>3, <1>4

LEMMA OperatorAsks ==
  ASSUME IInv, CaptureNamed, NEW gate, NEW elapsed \in BOOLEAN,
         Start(gate, elapsed) \/ ResumeCommand(gate, elapsed) \/ PauseCommand \/ StopCommand
  PROVE  CaptureNamed' /\ RequestsStep
<1>1. /\ Good(World, reached) /\ World \in Worlds /\ reached \in [Keys -> Nat]
  BY DEF IInv, Surroundings, Good, Sound
<1>2. reached' = reached
  BY DEF Start, ResumeCommand, PauseCommand, StopCommand, Command, outside
<1>3. PICK v \in {StartSession(World, gate, elapsed), Resume(World, gate, elapsed),
                  Pause(World), Stop(World)} : Become(v)
  BY DEF Start, ResumeCommand, PauseCommand, StopCommand
<1>4. /\ Good(StartSession(World, gate, elapsed), reached)
      /\ Good(Resume(World, gate, elapsed), reached)
      /\ Good(Pause(World), reached) /\ Good(Stop(World), reached)
  BY <1>1, StartSessionGood, ResumeGood, PauseGood, StopGood
<1>5. /\ AsksRows(World, StartSession(World, gate, elapsed))
      /\ AsksRows(World, Resume(World, gate, elapsed))
      /\ AsksRows(World, Pause(World)) /\ AsksRows(World, Stop(World))
  BY <1>1, StartSessionAsks, ResumesAsk, HaltsQuiet, QuietAsks
<1>6. v \in Worlds /\ AsksRows(World, v)
  BY <1>4, <1>5 DEF Good, Sound
<1> QED
  BY <1>1, <1>2, <1>3, <1>6, AskStep

LEMMA RetryFailedAsks ==
  ASSUME IInv, CaptureNamed, NEW gate, NEW elapsed \in BOOLEAN, RetryFailed(gate, elapsed)
  PROVE  CaptureNamed' /\ RequestsStep
<1> DEFINE k == LastRound(World)
           v == Retry(World, k, gate, elapsed)
<1>1. /\ Good(World, reached) /\ World \in Worlds /\ reached \in [Keys -> Nat]
      /\ AsksNone(World, World)
  BY DEF IInv, Surroundings, Good, Sound, AsksNone
<1>2. reached' = reached /\ k # 0
  BY DEF RetryFailed, outside
<1>3. k \in Rounds
  BY <1>1, <1>2, LastRoundType
<1>4. Become(World) \/ Become(v)
  BY DEF RetryFailed, Retried
<1> HIDE DEF k
<1>5. v \in Worlds /\ AsksRows(World, v)
  BY <1>1, <1>3, RetryGood, RetryAsks DEF Good, Sound
<1> HIDE DEF v
<1> QED
  BY <1>1, <1>2, <1>4, <1>5, QuietAsks, AskStep

LEMMA RecoveryAsks ==
  ASSUME IInv, CaptureNamed, NEW gate, NEW elapsed \in BOOLEAN, NEW i \in Rounds,
         \/ CheckWithSensor
         \/ SkipUncertainCommand
         \/ ContinueCommand(gate, elapsed)
         \/ RunMissedCommand(i, gate, elapsed)
         \/ SkipMissedCommand(i)
  PROVE  CaptureNamed' /\ RequestsStep
<1>1. /\ Good(World, reached) /\ World \in Worlds /\ reached \in [Keys -> Nat]
      /\ AsksNone(World, World)
  BY DEF IInv, Surroundings, Good, Sound, AsksNone
<1>2. reached' = reached
  BY DEF CheckWithSensor, SkipUncertainCommand, ContinueCommand, RunMissedCommand,
         SkipMissedCommand, Command, outside
<1>3. CASE CheckWithSensor
  <2>1. Become(World)
    BY <1>3 DEF CheckWithSensor
  <2> QED
    BY <1>1, <1>2, <2>1, QuietAsks, AskStep
<1>4. CASE SkipUncertainCommand \/ SkipMissedCommand(i)
  <2>1. PICK v \in {SkipUncertain(World), SkipMissed(World, i)} : Become(v)
    BY <1>4 DEF SkipUncertainCommand, SkipMissedCommand
  <2>2. "confirmed" \in Confirmed
    BY DEF Confirmed
  <2>3. v \in Worlds /\ AsksRows(World, v)
    BY <1>1, <2>2, SkipUncertainGood, SkipMissedGood, CorrectionsQuiet, QuietAsks DEF Good, Sound
  <2> QED
    BY <1>1, <1>2, <2>1, <2>3, AskStep
<1>5. CASE ContinueCommand(gate, elapsed)
  <2> DEFINE unchecked == [World EXCEPT !.checked = FALSE]
             v == Continue(unchecked, gate, elapsed)
  <2>1. Become(v)
    BY <1>5 DEF ContinueCommand
  <2>2. /\ unchecked \in Worlds /\ AsksNone(World, unchecked) /\ unchecked.tasks = World.tasks
        /\ unchecked.disk = World.disk
    BY <1>1 DEF Worlds, AsksNone
  <2> HIDE DEF unchecked
  <2>3. Good(unchecked, reached)
    BY <1>1, <2>2, Frame DEF AsksNone
  <2>4. v \in Worlds /\ AsksRows(unchecked, v)
    BY <1>1, <2>3, ContinueGood, ContinueAsks DEF Good, Sound
  <2> HIDE DEF v
  <2>5. AsksRows(World, v)
    BY <2>2, <2>4 DEF AsksRows, AsksNone
  <2> QED
    BY <1>1, <1>2, <2>1, <2>4, <2>5, AskStep
<1>6. CASE RunMissedCommand(i, gate, elapsed)
  <2> DEFINE v == RunMissed(World, i, gate, elapsed)
  <2>1. Become(v)
    BY <1>6 DEF RunMissedCommand
  <2>2. v \in Worlds /\ AsksRows(World, v)
    BY <1>1, RunMissedGood, RunMissedAsks DEF Good, Sound
  <2> HIDE DEF v
  <2> QED
    BY <1>1, <1>2, <2>1, <2>2, AskStep
<1> QED
  BY <1>3, <1>4, <1>5, <1>6

(* A request on its way arrives after the application ended, or is lost. *)
LEMMA CloseArrives ==
  ASSUME IInv, CaptureNamed, NEW arrives \in BOOLEAN, NEW file \in BOOLEAN, Close(arrives, file)
  PROVE  CaptureNamed' /\ RequestsStep
<1>1. World \in Worlds /\ reached \in [Keys -> Nat] /\ World.permits = permits
  BY DEF IInv, Good, Sound, Surroundings, World
<1>2. /\ arrives => capture.phase = "sent"
      /\ reached' = IF arrives THEN [reached EXCEPT ![capture.key] = @ + 1] ELSE reached
  BY DEF Close, LeftBehind
<1>3. permits' = permits /\ capture' = NoCapture
  BY <1>1, ClosedType DEF Close, Become
<1>4. capture.phase = "sent" => capture.key \in Keys /\ capture.key # None
  BY DEF CaptureNamed, Keys, Rounds, None
<1>5. CASE arrives
  <2>1. Requests!Arrive
    BY <1>2, <1>3, <1>4, <1>5 DEF Requests!Arrive, NoCapture
  <2> QED
    BY <1>3, <2>1 DEF CaptureNamed, NoCapture, RequestsStep, Requests!Next
<1>6. CASE ~arrives /\ capture.phase = "sent"
  <2>1. Requests!Lose
    BY <1>2, <1>3, <1>4, <1>6 DEF Requests!Lose, NoCapture
  <2> QED
    BY <1>3, <2>1 DEF CaptureNamed, NoCapture, RequestsStep, Requests!Next
<1>7. CASE ~arrives /\ capture.phase # "sent"
  <2>1. UNCHANGED Requests!requests
    BY <1>2, <1>3, <1>7 DEF Requests!requests, NoCapture
  <2> QED
    BY <1>3, <2>1 DEF CaptureNamed, NoCapture, RequestsStep
<1> QED
  BY <1>5, <1>6, <1>7

LEMMA OutsideAsks ==
  ASSUME IInv, CaptureNamed, NEW i \in Rounds, NEW unfinished \in BOOLEAN,
         ManualRecording \/ Restart(unfinished) \/ TimePasses(i) \/ UNCHANGED vars
  PROVE  CaptureNamed' /\ RequestsStep
<1>1. Good(World, reached) /\ World \in Worlds /\ AsksNone(World, World)
  BY DEF IInv, Good, Sound, AsksNone
<1>2. CASE ManualRecording \/ TimePasses(i)
  <2>1. Become(World) /\ reached' = reached
    BY <1>2 DEF ManualRecording, TimePasses
  <2> QED
    BY <1>1, <2>1, QuietAsks, AskStep
<1>3. CASE Restart(unfinished)
  <2>1. Become(Loaded(World, unfinished)) /\ reached' = reached
    BY <1>3 DEF Restart, outside
  <2>2. Loaded(World, unfinished) \in Worlds /\ AsksRows(World, Loaded(World, unfinished))
    BY <1>1, LoadedGood, LoadedQuiet, QuietAsks DEF Good, Sound
  <2> QED
    BY <1>1, <2>1, <2>2, AskStep
<1>4. CASE UNCHANGED vars
  BY <1>4 DEF vars, CaptureNamed, RequestsStep, Requests!requests
<1> QED
  BY <1>2, <1>3, <1>4

-----------------------------------------------------------------------------
LEMMA NextRequests ==
  ASSUME SavesFirst, IInv, CaptureNamed, [Next]_vars
  PROVE  CaptureNamed' /\ RequestsStep
<1> DEFINE Done == CaptureNamed' /\ RequestsStep
<1>1. Answers \subseteq AllAnswers /\ Outcomes \subseteq AllOutcomes /\ 1 \in Rounds
      /\ "started" \in AllAnswers /\ TRUE \in BOOLEAN /\ "unknown" \in AllOutcomes
  BY ChoiceAssumption, SizeAssumption DEF Rounds, AllAnswers, AllOutcomes
<1>2. ASSUME NEW gate \in Gates, NEW elapsed \in BOOLEAN, TimerTick(gate, elapsed)
      PROVE  Done
  BY <1>1, <1>2, WorkersAsk
<1>3. ASSUME NEW gate \in Gates, NEW blocking \in BOOLEAN, PreflightAnswered(blocking, gate)
      PROVE  Done
  BY <1>1, <1>3, WorkersAsk
<1>4. ASSUME NEW gate \in Gates, StorageSettleAnswered(gate) \/ CaptureFinished(gate)
      PROVE  Done
  BY <1>1, <1>4, WorkersAsk
<1>5. ASSUME NEW gate \in Gates, NEW idle \in BOOLEAN, NEW answer \in Answers,
             IdleCheckAnswered(idle, answer, gate)
      PROVE  Done
  BY <1>1, <1>5, WorkersAsk
<1>6. ASSUME NEW gate \in Gates, NEW elapsed \in BOOLEAN, NEW c \in 1 .. MaxChecks,
             NEW idle \in BOOLEAN, MissionListRead(c, idle, gate, elapsed)
      PROVE  Done
  BY <1>6, ChecksAsk
<1>7. ASSUME NEW gate \in Gates, NEW elapsed \in BOOLEAN, NEW c \in 1 .. MaxChecks,
             NEW answer \in (Outcomes \cap Confirmed) \cup {"failed"},
             FilesListed(c, answer, gate, elapsed)
      PROVE  Done
  BY <1>7, ChecksAsk
<1>8. ASSUME NEW gate \in Gates, NEW elapsed \in BOOLEAN,
             Start(gate, elapsed) \/ ResumeCommand(gate, elapsed)
      PROVE  Done
  BY <1>8, OperatorAsks
<1>9. ASSUME PauseCommand \/ StopCommand
      PROVE  Done
  BY <1>1, <1>9, OperatorAsks
<1>10. ASSUME NEW gate \in Gates, NEW elapsed \in BOOLEAN, RetryFailed(gate, elapsed)
       PROVE  Done
  BY <1>10, RetryFailedAsks
<1>11. ASSUME NEW gate \in Gates, NEW elapsed \in BOOLEAN, NEW i \in Rounds,
              ContinueCommand(gate, elapsed) \/ RunMissedCommand(i, gate, elapsed)
       PROVE  Done
  BY <1>11, RecoveryAsks
<1>12. ASSUME NEW i \in Rounds, CheckWithSensor \/ SkipUncertainCommand \/ SkipMissedCommand(i)
       PROVE  Done
  BY <1>1, <1>12, RecoveryAsks
<1>13. ASSUME RequestReaches
       PROVE  Done
  BY <1>1, <1>13, SensorReceives
<1>14. ASSUME NEW outcome \in Outcomes, NEW file \in BOOLEAN, CaptureReports(outcome, file)
       PROVE  Done
  BY <1>1, <1>14, SensorReceives
<1>15. ASSUME NEW arrives \in BOOLEAN, NEW file \in BOOLEAN,
              Close(arrives, file) \/ CrashInSubmit(arrives, file)
       PROVE  Done
  BY <1>15, CloseArrives DEF CrashInSubmit, SavesFirst
<1>16. ASSUME ManualRecording \/ (\E unfinished \in BOOLEAN : Restart(unfinished))
              \/ (\E i \in Rounds : TimePasses(i)) \/ UNCHANGED vars
       PROVE  Done
  BY <1>1, <1>16, OutsideAsks
<1>17. Terminating => UNCHANGED vars
  BY DEF Terminating
<1> HIDE DEF Done
<1>18. Done
  BY <1>1, <1>2, <1>3, <1>4, <1>5, <1>6, <1>7, <1>8, <1>9, <1>10, <1>11, <1>12, <1>13,
     <1>14, <1>15, <1>16, <1>17 DEF Next
<1> QED
  BY <1>18 DEF Done

(* The controller implements SensorRequests: whatever the operator, the workers and the sensor
   do, each of its steps asks for rows, sends one request that is owed to a row while none is
   under way, sees a request arrive or lost, or leaves the requests alone - if the application
   never ends between start_capture and the save in _submit_task.                           *)
THEOREM RequestsImplemented ==
  ASSUME SavesFirst
  PROVE  Spec => ImplementsSensorRequests
<1>1. Init => IInv /\ CaptureNamed /\ Requests!Init
  <2>1. ASSUME Init PROVE Requests!Init
    BY <2>1 DEF Init, Requests!Init, NoCapture
  <2>2. Init => CaptureNamed
    BY DEF Init, CaptureNamed, NoCapture
  <2> QED
    BY <2>1, <2>2, InitIInv
<1>2. IInv /\ CaptureNamed /\ [Next]_vars => IInv' /\ CaptureNamed' /\ RequestsStep
  BY NextKeeps, NextRequests
<1> QED
  BY <1>1, <1>2, PTL DEF Spec, ImplementsSensorRequests, Requests!Spec, RequestsStep
-----------------------------------------------------------------------------
(* The order of a collection.  PassesInOrder and SessionFileCurrent are    *)
(* not inductive: a pass is closed when no row is queued, and that no row  *)
(* is on its way either rests on what inFlight means in every state of     *)
(* the controller.  Ordered says that of a world, Filed what its session   *)
(* file has; each handler has a lemma that keeps both.                     *)

Halted(w) == w.state \in {"interrupted", "closed"}
Going == States \ {"idle", "done", "interrupted", "closed"}
Counted == {"done", "partial", "failed"}
Unsettled == {"none", "queued", "submitting"}

RunningIsCurrent(w) == \A i \in Rounds : w.rounds[i] = "running" <=> w.current = i
CountedIsComplete(w) ==
  \A i \in Rounds : w.rounds[i] \in Counted => \A k \in Rows : w.tasks[<<i, k>>] \notin Unsettled
BegunTogether(w) ==
  \A i \in Rounds : \A k, l \in Rows : w.tasks[<<i, k>>] = "none" => w.tasks[<<i, l>>] = "none"
CurrentIsBegun(w) == InPass(w) => \A k \in Rows : w.tasks[<<w.current, k>>] # "none"
SentIsCurrent(w) == \A t \in Keys : w.tasks[t] = "submitting" => t[1] = w.current

Passes(w) ==
  /\ RunningIsCurrent(w) /\ CountedIsComplete(w) /\ BegunTogether(w)
  /\ CurrentIsBegun(w) /\ SentIsCurrent(w)

(* What inFlight means: it is set exactly while the main window has the capture, in a
   collection that goes on, and apart from a row left behind by the end of the application
   no other row is on its way.                                                         *)
Flight(w) ==
  /\ w.inFlight <=> w.capture.phase # "idle"
  /\ w.inFlight => /\ w.state \in Going /\ InPass(w)
                   /\ w.capture.key \in Keys /\ w.capture.key[1] = w.current
  /\ \A t \in Keys : w.tasks[t] = "submitting" => Halted(w) \/ (w.inFlight /\ w.capture.key = t)

(* m: passes that are missed and stay so; q: a file check of "Retry failed rows" is out. *)
Steady(w, m, q) ==
  /\ w.state \in {"idle", "done"} => ~InPass(w)
  /\ Halted(w) => ~w.preflightPending
  /\ w.state = "interrupted" /\ w.downloadsOnly => ~InPass(w)
  /\ \A i \in m : i \in Rounds /\ w.rounds[i] = "missed"
  /\ q => w.state # "closed" /\ (w.state = "interrupted" => ~InPass(w))

Ordered(w, m, q) == w \in Worlds /\ Passes(w) /\ Flight(w) /\ Steady(w, m, q)

SameRounds(a, b) ==
  \A i \in Rounds : a.rounds[i] = b.rounds[i] \/ {a.rounds[i], b.rounds[i]} \subseteq Open \cup {"missed"}

Filed(w) ==
  /\ w.disk.tasks = w.tasks /\ w.disk.current = w.current
  /\ w.disk.attempts = w.attempts /\ w.disk.recordOf = w.recordOf
  /\ SameRounds(w, w.disk)
  /\ w.disk.state \in {"done", "idle"} => w.disk.current = 0
  /\ Halted(w) \/ ((w.state = "done") <=> (w.disk.state = "done"))

Neat(w, m, q) == Ordered(w, m, q) /\ Filed(w)

(* No request is out and no row was left on its way. *)
Still(w) == ~w.inFlight /\ \A t \in Keys : w.tasks[t] # "submitting"

LEMMA StillGoing ==
  ASSUME NEW m, NEW q, NEW w, Ordered(w, m, q), ~Halted(w), ~w.inFlight
  PROVE  Still(w)
BY DEF Ordered, Flight, Still

LEMMA StillBetween ==
  ASSUME NEW m, NEW q, NEW w, Ordered(w, m, q), ~InPass(w)
  PROVE  Still(w)
<1>1. ~w.inFlight
  BY DEF Ordered, Flight
<1>2. ASSUME NEW t \in Keys, w.tasks[t] = "submitting" PROVE FALSE
  <2>1. t[1] = 0
    BY <1>2 DEF Ordered, Passes, SentIsCurrent, InPass
  <2> QED
    BY <2>1 DEF Keys, Rounds
<1> QED
  BY <1>1, <1>2 DEF Still

LEMMA SaveNeat ==
  ASSUME NEW m, NEW q, NEW w, Ordered(w, m, q)
  PROVE  /\ Neat(Save(w), m, q)
         /\ Save(w) = [w EXCEPT !.disk = Session(w)]
         /\ Save(w).state = w.state /\ Save(w).current = w.current
         /\ Save(w).inFlight = w.inFlight /\ Save(w).tasks = w.tasks
         /\ Save(w).rounds = w.rounds
<1> DEFINE v == Save(w)
<1>1. w \in Worlds
  BY DEF Ordered
<1>2. v \in Worlds /\ v.disk = Session(w)
  BY <1>1 DEF Save, Worlds, Session, SessionType
<1>3. /\ v.tasks = w.tasks /\ v.rounds = w.rounds /\ v.current = w.current
      /\ v.attempts = w.attempts /\ v.recordOf = w.recordOf /\ v.state = w.state
      /\ v.inFlight = w.inFlight /\ v.capture = w.capture
      /\ v.preflightPending = w.preflightPending /\ v.downloadsOnly = w.downloadsOnly
  BY <1>1 DEF Save, Worlds
<1>a. Save(w) = [w EXCEPT !.disk = Session(w)]
  BY Zenon DEF Save
<1> HIDE DEF v
<1>4. Passes(v)
  BY <1>3 DEF Ordered, Passes, RunningIsCurrent, CountedIsComplete, BegunTogether,
     CurrentIsBegun, SentIsCurrent, InPass
<1>5. Flight(v) /\ Steady(v, m, q)
  BY <1>3 DEF Ordered, Flight, Steady, InPass, Halted
<1>6. Filed(v)
  <2>1. SameRounds(v, v.disk)
    BY <1>2, <1>3 DEF SameRounds, Session
  <2>2. v.disk.state \in {"done", "idle"} => v.disk.current = 0
    BY <1>2, <1>3 DEF Session, Ordered, Steady, InPass
  <2> QED
    BY <1>2, <1>3, <2>1, <2>2 DEF Filed, Session
<1> QED
  BY <1>2, <1>3, <1>a, <1>4, <1>5, <1>6 DEF Neat, Ordered, v

(* A handler that leaves passes, rows and the capture alone. *)
LEMMA Aside ==
  ASSUME NEW m, NEW q, NEW w, Ordered(w, m, q), NEW v \in Worlds,
         v.tasks = w.tasks, v.rounds = w.rounds, v.current = w.current,
         v.capture = w.capture, v.inFlight = w.inFlight,
         v.downloadsOnly = w.downloadsOnly,
         v.preflightPending => w.preflightPending \/ ~Halted(v),
         v.state = w.state \/ (v.state \in Going /\ (Still(w) \/ ~Halted(w)))
  PROVE  /\ Ordered(v, m, q)
         /\ Filed(w) /\ v.disk = w.disk /\ v.attempts = w.attempts /\ v.recordOf = w.recordOf
              /\ (v.state = w.state \/ (~Halted(w) /\ w.state # "done")) => Neat(v, m, q)
<1>1. Passes(v)
  BY DEF Ordered, Passes, RunningIsCurrent, CountedIsComplete, BegunTogether,
     CurrentIsBegun, SentIsCurrent, InPass
<1>2. v.state = w.state \/ v.state \notin {"idle", "done", "interrupted", "closed"}
  BY DEF Going
<1>3. Flight(v)
  BY <1>2 DEF Ordered, Flight, InPass, Halted, Still
<1>4. Steady(v, m, q)
  BY <1>2 DEF Ordered, Steady, InPass, Halted
<1>5. ASSUME Filed(w), v.disk = w.disk, v.attempts = w.attempts,
             v.recordOf = w.recordOf, v.state = w.state \/ (~Halted(w) /\ w.state # "done")
      PROVE  Filed(v)
  BY <1>2, <1>5 DEF Filed, SameRounds, Halted
<1> QED
  BY <1>1, <1>3, <1>4, <1>5 DEF Ordered, Neat

LEMMA StateOrdered ==
  ASSUME NEW m, NEW q, NEW w, Ordered(w, m, q), ~Halted(w), NEW s \in Going
  PROVE  /\ Ordered([w EXCEPT !.state = s], m, q)
         /\ Neat(w, m, q) /\ w.state # "done" => Neat([w EXCEPT !.state = s], m, q)
         /\ Neat(Save([w EXCEPT !.state = s]), m, q)
         /\ [w EXCEPT !.state = s].state = s /\ [w EXCEPT !.state = s].current = w.current
         /\ [w EXCEPT !.state = s].inFlight = w.inFlight
<1> DEFINE v == [w EXCEPT !.state = s]
<1>1. /\ v \in Worlds /\ v.tasks = w.tasks /\ v.rounds = w.rounds /\ v.current = w.current
      /\ v.capture = w.capture /\ v.inFlight = w.inFlight /\ v.downloadsOnly = w.downloadsOnly
      /\ v.preflightPending = w.preflightPending /\ v.disk = w.disk
      /\ v.attempts = w.attempts /\ v.recordOf = w.recordOf /\ v.state = s
  BY DEF Ordered, Worlds, Going
<1> HIDE DEF v
<1>2. Ordered(v, m, q) /\ (Neat(w, m, q) /\ w.state # "done" => Neat(v, m, q))
  BY <1>1, Aside DEF Neat
<1>3. Neat(Save(v), m, q)
  BY <1>2, SaveNeat
<1> QED
  BY <1>1, <1>2, <1>3 DEF v

LEMMA PausedNowNeat ==
  ASSUME NEW m, NEW q, NEW w, Ordered(w, m, q), ~Halted(w)
  PROVE  Neat(PausedNow(w), m, q) /\ Neat(BeginWait(w), m, q)
BY StateOrdered DEF PausedNow, BeginWait, Going, States

-----------------------------------------------------------------------------
(* Passes that wait are classified, closed, and followed by another one. *)
LEMMA Reclassified ==
  ASSUME NEW m, NEW q, NEW w, Ordered(w, m, q), NEW f \in [Rounds -> RoundStates],
         \A i \in Rounds : f[i] = w.rounds[i] \/ (w.rounds[i] \in Open /\ f[i] \in Open \cup {"missed"})
  PROVE  LET v == [w EXCEPT !.rounds = f]
         IN  /\ Ordered(v, m, q)
             /\ Neat(w, m, q) => Neat(v, m, q)
             /\ v.state = w.state /\ v.current = w.current /\ v.inFlight = w.inFlight
             /\ v.tasks = w.tasks /\ v.downloadsOnly = w.downloadsOnly
<1> DEFINE v == [w EXCEPT !.rounds = f]
<1>1. w \in Worlds
  BY DEF Ordered
<1>4. /\ v \in Worlds /\ v.rounds = f /\ v.tasks = w.tasks /\ v.current = w.current
      /\ v.capture = w.capture /\ v.inFlight = w.inFlight /\ v.state = w.state
      /\ v.preflightPending = w.preflightPending /\ v.downloadsOnly = w.downloadsOnly
      /\ v.disk = w.disk /\ v.attempts = w.attempts /\ v.recordOf = w.recordOf
  BY <1>1 DEF Worlds
<1> HIDE DEF v
<1>6. Passes(v)
  <2>1. RunningIsCurrent(v) /\ CountedIsComplete(v)
    BY <1>4 DEF Ordered, Passes, RunningIsCurrent, CountedIsComplete, Open, Counted
  <2> QED
    BY <1>4, <2>1 DEF Ordered, Passes, BegunTogether, CurrentIsBegun, SentIsCurrent, InPass
<1>7. Flight(v)
  BY <1>4 DEF Ordered, Flight, InPass, Halted
<1>8. Steady(v, m, q)
  <2>1. \A i \in m : i \in Rounds /\ v.rounds[i] = "missed"
    BY <1>4 DEF Ordered, Steady, Open
  <2> QED
    BY <1>4, <2>1 DEF Ordered, Steady, InPass, Halted
<1>9. Filed(w) => Filed(v)
  BY <1>4 DEF Filed, SameRounds, Halted
<1> QED
  BY <1>4, <1>6, <1>7, <1>8, <1>9 DEF Ordered, Neat, v

LEMMA ClassifyNeat ==
  ASSUME NEW m, NEW q, NEW w, NEW busy, Ordered(w, m, q)
  PROVE  /\ Ordered(Classify(w, busy), m, q)
         /\ Neat(w, m, q) => Neat(Classify(w, busy), m, q)
         /\ Classify(w, busy).state = w.state /\ Classify(w, busy).current = w.current
<1> DEFINE f == [i \in Rounds |-> Classified(w.rounds[i], clock[i], busy)]
<1>1. \A i \in Rounds : /\ f[i] \in RoundStates
                        /\ f[i] = w.rounds[i] \/ (w.rounds[i] \in Open /\ f[i] \in Open \cup {"missed"})
  BY DEF Ordered, Worlds, Classified, RoundStates, Open
<1>2. f \in [Rounds -> RoundStates] /\ Classify(w, busy) = [w EXCEPT !.rounds = f]
  BY <1>1 DEF Classify
<1> HIDE DEF f
<1> QED
  BY <1>1, <1>2, Reclassified

LEMMA MarkMissedNeat ==
  ASSUME NEW m, NEW q, NEW w, Ordered(w, m, q)
  PROVE  /\ Ordered(MarkMissed(w), m, q)
         /\ Neat(w, m, q) => Neat(MarkMissed(w), m, q)
         /\ MarkMissed(w).state = w.state /\ MarkMissed(w).current = w.current
         /\ MarkMissed(w).inFlight = w.inFlight /\ MarkMissed(w).tasks = w.tasks
         /\ MarkMissed(w).downloadsOnly = w.downloadsOnly
<1> DEFINE f == [i \in Rounds |-> IF w.rounds[i] \in Open /\ clock[i] # "ahead" THEN "missed"
                                  ELSE w.rounds[i]]
<1>1. \A i \in Rounds : /\ f[i] \in RoundStates
                        /\ f[i] = w.rounds[i] \/ (w.rounds[i] \in Open /\ f[i] \in Open \cup {"missed"})
  BY DEF Ordered, Worlds, RoundStates
<1>2. f \in [Rounds -> RoundStates] /\ MarkMissed(w) = [w EXCEPT !.rounds = f]
  BY <1>1 DEF MarkMissed
<1> HIDE DEF f
<1> QED
  BY <1>1, <1>2, Reclassified

LEMMA NextPassAfterOrdered ==
  ASSUME NEW m, NEW q, NEW w, Ordered(w, m, q)
  PROVE  /\ Ordered(NextPassAfter(w), m, q)
         /\ NextPassAfter(w).current = w.current /\ NextPassAfter(w).state = w.state
<1> DEFINE left == {i \in Rounds : w.rounds[i] = "none"}
           n == CHOOSE i \in left : \A j \in left : i <= j
           v == [w EXCEPT !.rounds[n] = "pending"]
<1>1. CASE left = {}
  BY <1>1 DEF NextPassAfter
<1>2. CASE left # {}
  <2>1. left \in SUBSET Nat
    BY DEF Rounds
  <2>2. \E i \in left : \A j \in left : i <= j
    BY <1>2, <2>1, LeastExists
  <2>3. n \in Rounds /\ w.rounds[n] = "none"
    BY <2>2
  <2> HIDE DEF n
  <2>4. w \in Worlds
    BY DEF Ordered
  <2>5. /\ [w.rounds EXCEPT ![n] = "pending"] \in [Rounds -> RoundStates]
        /\ \A i \in Rounds : [w.rounds EXCEPT ![n] = "pending"][i]
                               = IF i = n THEN "pending" ELSE w.rounds[i]
    BY <2>3, <2>4 DEF Worlds, RoundStates
  <2>6. /\ v \in Worlds /\ v.tasks = w.tasks /\ v.current = w.current
        /\ v.capture = w.capture /\ v.inFlight = w.inFlight /\ v.state = w.state
        /\ v.preflightPending = w.preflightPending /\ v.downloadsOnly = w.downloadsOnly
        /\ \A i \in Rounds : v.rounds[i] = IF i = n THEN "pending" ELSE w.rounds[i]
    BY <2>4, <2>5 DEF Worlds
  <2> HIDE DEF v
  <2>7. Passes(v)
    <3>1. RunningIsCurrent(v) /\ CountedIsComplete(v)
      BY <2>3, <2>6 DEF Ordered, Passes, RunningIsCurrent, CountedIsComplete, Counted
    <3> QED
      BY <2>6, <3>1 DEF Ordered, Passes, BegunTogether, CurrentIsBegun, SentIsCurrent, InPass
  <2>8. Flight(v)
    BY <2>6 DEF Ordered, Flight, InPass, Halted
  <2>9. Steady(v, m, q)
    <3>1. \A i \in m : i \in Rounds /\ v.rounds[i] = "missed"
      BY <2>3, <2>6 DEF Ordered, Steady
    <3> QED
      BY <2>6, <3>1 DEF Ordered, Steady, InPass, Halted
  <2>10. Ordered(v, m, q)
    BY <2>6, <2>7, <2>8, <2>9 DEF Ordered
  <2>11. NextPassAfter(w) \in {w, v}
    BY DEF NextPassAfter, v, n
  <2> QED
    BY <2>6, <2>10, <2>11
<1> QED
  BY <1>1, <1>2

LEMMA VerdictCounted ==
  ASSUME NEW w, NEW i
  PROVE  Verdict(w, i) \in Counted
BY DEF Verdict, Counted

(* A pass is closed: when no row of it is queued, or when it was stopped. *)
LEMMA FinishRoundNeat ==
  ASSUME NEW m, NEW q, NEW w, NEW stopped \in BOOLEAN, Neat(w, m, q), Still(w),
         stopped \/ QueuedRows(w) = {}
  PROVE  /\ Neat(FinishRound(w, stopped), m, q)
         /\ ~InPass(FinishRound(w, stopped))
         /\ FinishRound(w, stopped).state = IF InPass(w) THEN "waiting_schedule" ELSE w.state
<1>1. CASE ~InPass(w)
  BY <1>1 DEF FinishRound
<1>2. CASE InPass(w)
  <2> DEFINE end == IF stopped THEN "stopped" ELSE Verdict(w, w.current)
             v == [w EXCEPT !.rounds[w.current] = end, !.current = 0,
                            !.state = "waiting_schedule"]
  <2>1. w \in Worlds /\ Ordered(w, m, q)
    BY DEF Neat, Ordered
  <2>2. end \in Counted \cup {"stopped"} /\ (end \in Counted => ~stopped)
    BY VerdictCounted DEF Counted
  <2> HIDE DEF end
  <2>3. w.current \in Rounds /\ 0 \in 0 .. NRounds
    BY <1>2, <2>1, SizeAssumption DEF Worlds, InPass, Rounds
  <2>4. /\ [w.rounds EXCEPT ![w.current] = end] \in [Rounds -> RoundStates]
        /\ \A i \in Rounds : [w.rounds EXCEPT ![w.current] = end][i]
                               = IF i = w.current THEN end ELSE w.rounds[i]
    BY <2>1, <2>2, <2>3 DEF Worlds, RoundStates, Counted
  <2>5. /\ v \in Worlds /\ v.tasks = w.tasks /\ v.current = 0
        /\ v.capture = w.capture /\ v.inFlight = w.inFlight /\ v.state = "waiting_schedule"
        /\ v.preflightPending = w.preflightPending /\ v.downloadsOnly = w.downloadsOnly
        /\ \A i \in Rounds : v.rounds[i] = IF i = w.current THEN end ELSE w.rounds[i]
    BY <2>1, <2>3, <2>4 DEF Worlds, States
  <2>a. w.rounds[w.current] = "running"
    BY <2>1, <2>3 DEF Ordered, Passes, RunningIsCurrent
  <2> HIDE DEF v
  <2>6. Passes(v)
    <3>1. RunningIsCurrent(v)
      BY <2>1, <2>2, <2>3, <2>5 DEF Ordered, Passes, RunningIsCurrent, Counted, Rounds
    <3>2. CountedIsComplete(v)
      <4>1. \A k \in Rows : w.tasks[<<w.current, k>>] \notin {"none", "submitting"}
        BY <1>2, <2>1, <2>3 DEF Still, Ordered, Passes, CurrentIsBegun, Keys
      <4>2. ~stopped => \A k \in Rows : w.tasks[<<w.current, k>>] # "queued"
        BY <1>2 DEF QueuedRows
      <4> QED
        BY <2>1, <2>2, <2>5, <4>1, <4>2 DEF Ordered, Passes, CountedIsComplete, Unsettled
    <3>3. BegunTogether(v) /\ CurrentIsBegun(v) /\ SentIsCurrent(v)
      BY <2>1, <2>5 DEF Still, Ordered, Passes, BegunTogether, CurrentIsBegun, SentIsCurrent, InPass
    <3> QED
      BY <3>1, <3>2, <3>3 DEF Passes
  <2>7. Flight(v)
    BY <2>1, <2>5 DEF Still, Ordered, Flight
  <2>8. Steady(v, m, q)
    <3>1. \A i \in m : i \in Rounds /\ v.rounds[i] = "missed"
      BY <2>1, <2>5, <2>a DEF Ordered, Steady
    <3> QED
      BY <2>5, <3>1 DEF Steady, InPass, Halted
  <2>9. Ordered(v, m, q)
    BY <2>5, <2>6, <2>7, <2>8 DEF Ordered
  <2>10. /\ Ordered(NextPassAfter(v), m, q)
         /\ NextPassAfter(v).current = 0 /\ NextPassAfter(v).state = "waiting_schedule"
    BY <2>5, <2>9, NextPassAfterOrdered
  <2>11. /\ Neat(Save(v), m, q) /\ Save(v).current = 0 /\ Save(v).state = "waiting_schedule"
         /\ Neat(Save(NextPassAfter(v)), m, q) /\ Save(NextPassAfter(v)).current = 0
         /\ Save(NextPassAfter(v)).state = "waiting_schedule"
    BY <2>5, <2>9, <2>10, SaveNeat
  <2>12. FinishRound(w, stopped) = Save(IF stopped THEN v ELSE NextPassAfter(v))
    BY <1>2 DEF FinishRound, v, end
  <2> QED
    BY <1>2, <2>11, <2>12 DEF InPass
<1> QED
  BY <1>1, <1>2

LEMMA FinishSessionNeat ==
  ASSUME NEW m, NEW q, NEW w, Ordered(w, m, q), ~InPass(w), ~Halted(w)
  PROVE  Neat(FinishSession(w), m, q)
<1> DEFINE u == [w EXCEPT !.state = "done", !.timer = FALSE]
           x == Save(u)
           v == [x EXCEPT !.owned = FALSE]
<1>1. w \in Worlds /\ ~w.inFlight
  BY DEF Ordered, Flight
<1>2. /\ u \in Worlds /\ u.tasks = w.tasks /\ u.rounds = w.rounds /\ u.current = w.current
      /\ u.capture = w.capture /\ u.inFlight = w.inFlight /\ u.state = "done"
      /\ u.preflightPending = w.preflightPending /\ u.downloadsOnly = w.downloadsOnly
  BY <1>1 DEF Worlds, States
<1> HIDE DEF u
<1>3. Passes(u)
  BY <1>2 DEF Ordered, Passes, RunningIsCurrent, CountedIsComplete, BegunTogether,
     CurrentIsBegun, SentIsCurrent, InPass
<1>4. Flight(u)
  BY <1>1, <1>2 DEF Ordered, Flight, Halted
<1>5. Steady(u, m, q)
  BY <1>2 DEF Ordered, Steady, InPass, Halted
<1>6. Neat(x, m, q)
  BY <1>2, <1>3, <1>4, <1>5, SaveNeat DEF Ordered
<1> HIDE DEF x
<1>7. /\ v \in Worlds /\ v.tasks = x.tasks /\ v.rounds = x.rounds /\ v.current = x.current
      /\ v.capture = x.capture /\ v.inFlight = x.inFlight /\ v.downloadsOnly = x.downloadsOnly
      /\ v.preflightPending = x.preflightPending /\ v.disk = x.disk
      /\ v.attempts = x.attempts /\ v.recordOf = x.recordOf /\ v.state = x.state
  BY <1>6 DEF Neat, Ordered, Worlds
<1>8. Neat(v, m, q)
  BY <1>6, <1>7, Aside DEF Neat
<1> QED
  BY <1>8 DEF FinishSession, v, x, u

LEMMA StoppedNeat ==
  ASSUME NEW m, NEW q, NEW w, Neat(w, m, q), Still(w), ~Halted(w)
  PROVE  Neat(Stopped(w), m, q)
<1>1. /\ Neat(FinishRound(w, TRUE), m, q) /\ ~InPass(FinishRound(w, TRUE))
      /\ ~Halted(FinishRound(w, TRUE))
  BY FinishRoundNeat DEF Halted
<1> QED
  BY <1>1, FinishSessionNeat DEF Stopped, Neat
-----------------------------------------------------------------------------
(* From one request to the next. *)
LEMMA StartNextTaskNeat ==
  ASSUME NEW m, NEW q, NEW w, NEW gate, Neat(w, m, q), w.state \in Going
  PROVE  Neat(StartNextTask(w, gate), m, q)
<1>1. w \in Worlds /\ Ordered(w, m, q) /\ ~Halted(w) /\ w.state # "done"
  BY DEF Neat, Ordered, Going, Halted
<1>2. ~w.inFlight => Still(w)
  BY <1>1, StillGoing
<1>3. Neat(Save([w EXCEPT !.state = "paused_backlog"]), m, q)
  BY <1>1, StateOrdered DEF Going, States
<1>4. Neat([w EXCEPT !.preflightPending = TRUE], m, q)
  <2> DEFINE v == [w EXCEPT !.preflightPending = TRUE]
  <2>1. /\ v \in Worlds /\ v.tasks = w.tasks /\ v.rounds = w.rounds /\ v.current = w.current
        /\ v.capture = w.capture /\ v.inFlight = w.inFlight /\ v.downloadsOnly = w.downloadsOnly
        /\ v.disk = w.disk /\ v.attempts = w.attempts /\ v.recordOf = w.recordOf
        /\ v.state = w.state
    BY <1>1 DEF Worlds
  <2> HIDE DEF v
  <2>2. ~Halted(v)
    BY <1>1, <2>1 DEF Halted
  <2>3. Neat(v, m, q)
    BY <1>1, <2>1, <2>2, Aside DEF Neat
  <2> QED
    BY <2>3 DEF v
<1>5. ASSUME NEW v \in Worlds, v.tasks = w.tasks, v.rounds = w.rounds, v.current = w.current,
             v.capture = w.capture, v.inFlight = w.inFlight, v.downloadsOnly = w.downloadsOnly,
             v.disk = w.disk, v.attempts = w.attempts, v.recordOf = w.recordOf,
             v.state = w.state, v.preflightPending = w.preflightPending
      PROVE  Neat(v, m, q)
  BY <1>1, <1>5, Aside DEF Neat
<1>6. Neat([w EXCEPT !.settlePending = TRUE], m, q)
  <2> DEFINE v == [w EXCEPT !.settlePending = TRUE]
  <2>1. /\ v \in Worlds /\ v.tasks = w.tasks /\ v.rounds = w.rounds /\ v.current = w.current
        /\ v.capture = w.capture /\ v.inFlight = w.inFlight /\ v.downloadsOnly = w.downloadsOnly
        /\ v.disk = w.disk /\ v.attempts = w.attempts /\ v.recordOf = w.recordOf
        /\ v.state = w.state /\ v.preflightPending = w.preflightPending
    BY <1>1 DEF Worlds
  <2> QED
    BY <1>5, <2>1
<1>7. QueuedRows(w) # {} => Neat([w EXCEPT !.idleCheck = NextQueued(w)], m, q)
  <2> DEFINE v == [w EXCEPT !.idleCheck = NextQueued(w)]
  <2> SUFFICES ASSUME QueuedRows(w) # {} PROVE Neat(v, m, q)
    OBVIOUS
  <2>0. NextQueued(w) \in Keys \cup {None}
    BY <1>1, NextQueuedType
  <2>1. /\ v \in Worlds /\ v.tasks = w.tasks /\ v.rounds = w.rounds /\ v.current = w.current
        /\ v.capture = w.capture /\ v.inFlight = w.inFlight /\ v.downloadsOnly = w.downloadsOnly
        /\ v.disk = w.disk /\ v.attempts = w.attempts /\ v.recordOf = w.recordOf
        /\ v.state = w.state /\ v.preflightPending = w.preflightPending
    BY <1>1, <2>0 DEF Worlds
  <2> QED
    BY <1>5, <2>1
<1>8. /\ Neat(PausedNow(w), m, q)
      /\ ~w.inFlight => Neat(Stopped(w), m, q)
      /\ ~w.inFlight /\ QueuedRows(w) = {} => Neat(FinishRound(w, FALSE), m, q)
  BY <1>1, <1>2, PausedNowNeat, StoppedNeat, FinishRoundNeat
<1> QED
  BY <1>3, <1>4, <1>6, <1>7, <1>8 DEF StartNextTask

LEMMA AfterTaskNeat ==
  ASSUME NEW m, NEW q, NEW w, NEW gate, Neat(w, m, q), w.state \in Going, ~w.inFlight
  PROVE  Neat(AfterTask(w, gate), m, q)
<1>1. Ordered(w, m, q) /\ ~Halted(w) /\ w.state # "done"
  BY DEF Neat, Ordered, Going, Halted
<1>2. Still(w)
  BY <1>1, StillGoing
<1>3. /\ Neat([w EXCEPT !.state = "running"], m, q)
      /\ [w EXCEPT !.state = "running"].state \in Going
  BY <1>1, StateOrdered DEF Going, States
<1>4. Neat(StartNextTask([w EXCEPT !.state = "running"], gate), m, q)
  BY <1>3, StartNextTaskNeat
<1>5. /\ Neat(Stopped(w), m, q) /\ Neat(PausedNow(w), m, q) /\ Neat(BeginWait(w), m, q)
      /\ QueuedRows(w) = {} => Neat(FinishRound(w, FALSE), m, q)
  BY <1>1, <1>2, StoppedNeat, PausedNowNeat, FinishRoundNeat
<1> QED
  BY <1>4, <1>5 DEF AfterTask

(* A row of the running pass gets a status that counts as begun; when it is sent, the main
   window has it.                                                                      *)
LEMMA RowOrdered ==
  ASSUME NEW m, NEW q, NEW w, Ordered(w, m, q), w.state \in Going,
         NEW t \in Keys, t[1] = w.current, NEW s \in Statuses, s # "none",
         NEW v \in Worlds, v.tasks = [w.tasks EXCEPT ![t] = s],
         v.rounds = w.rounds, v.current = w.current, v.state = w.state,
         v.preflightPending = w.preflightPending, v.downloadsOnly = w.downloadsOnly,
         \/ s # "submitting" /\ v.inFlight = w.inFlight /\ v.capture = w.capture
         \/ s # "submitting" /\ ~v.inFlight /\ v.capture = NoCapture /\ w.capture.key = t
         \/ ~w.inFlight /\ v.inFlight /\ v.capture.phase # "idle" /\ v.capture.key = t
  PROVE  Ordered(v, m, q)
<1>1. w \in Worlds /\ ~Halted(w)
  BY DEF Ordered, Going, Halted
<1>2. \A u \in Keys : v.tasks[u] = IF u = t THEN s ELSE w.tasks[u]
  BY <1>1 DEF Worlds
<1>3. InPass(w) /\ w.current \in Rounds /\ w.rounds[w.current] = "running"
  <2>1. t[1] \in Rounds /\ t[1] # 0
    BY DEF Keys, Rounds
  <2> QED
    BY <2>1 DEF InPass, Ordered, Passes, RunningIsCurrent
<1>4. \A i \in Rounds, k \in Rows : <<i, k>> \in Keys /\ (<<i, k>> = t => i = w.current)
  BY DEF Keys
<1>5. RunningIsCurrent(v)
  BY DEF Ordered, Passes, RunningIsCurrent
<1>6. CountedIsComplete(v)
  <2> SUFFICES ASSUME NEW i \in Rounds, v.rounds[i] \in Counted, NEW k \in Rows
               PROVE  v.tasks[<<i, k>>] \notin Unsettled
    BY DEF CountedIsComplete
  <2>1. i # w.current
    BY <1>3 DEF Counted
  <2>2. v.tasks[<<i, k>>] = w.tasks[<<i, k>>]
    BY <1>2, <1>4, <2>1
  <2> QED
    BY <2>2 DEF Ordered, Passes, CountedIsComplete
<1>7. BegunTogether(v) /\ CurrentIsBegun(v)
  <2>1. ASSUME NEW k \in Rows PROVE v.tasks[<<w.current, k>>] # "none"
    BY <1>2, <1>3, <1>4 DEF Ordered, Passes, CurrentIsBegun
  <2>2. ASSUME NEW i \in Rounds, NEW k \in Rows, NEW l \in Rows, v.tasks[<<i, k>>] = "none"
        PROVE  v.tasks[<<i, l>>] = "none"
    <3>1. i # w.current
      BY <2>1, <2>2
    <3>2. v.tasks[<<i, k>>] = w.tasks[<<i, k>>] /\ v.tasks[<<i, l>>] = w.tasks[<<i, l>>]
      BY <1>2, <1>4, <3>1
    <3> QED
      BY <2>2, <3>2 DEF Ordered, Passes, BegunTogether
  <2> QED
    BY <2>1, <2>2 DEF BegunTogether, CurrentIsBegun
<1>8. SentIsCurrent(v)
  BY <1>2 DEF Ordered, Passes, SentIsCurrent
<1>9. Flight(v)
  <2>1. /\ v.inFlight <=> v.capture.phase # "idle"
        /\ v.inFlight => v.capture.key \in Keys /\ v.capture.key[1] = v.current
    BY DEF Ordered, Flight, NoCapture
  <2>2. \A u \in Keys : v.tasks[u] = "submitting" => v.inFlight /\ v.capture.key = u
    BY <1>1, <1>2 DEF Ordered, Flight
  <2> QED
    BY <1>3, <2>1, <2>2 DEF Flight, InPass
<1>10. Steady(v, m, q)
  BY DEF Ordered, Steady, InPass, Halted
<1> QED
  BY <1>5, <1>6, <1>7, <1>8, <1>9, <1>10 DEF Ordered, Passes

LEMMA SubmitNeat ==
  ASSUME NEW m, NEW q, NEW w, NEW t \in Keys, NEW answer \in AllAnswers, NEW gate,
         Neat(w, m, q), w.state \in Going, t[1] = w.current
  PROVE  Neat(Submit(w, t, answer, gate), m, q)
<1>1. w \in Worlds /\ Ordered(w, m, q) /\ ~Halted(w)
  BY DEF Neat, Ordered, Going, Halted
<1>2. Neat(Save([w EXCEPT !.state = "paused_backlog"]), m, q) /\ Neat(PausedNow(w), m, q)
  BY <1>1, StateOrdered, PausedNowNeat DEF Going, States
<1>3. [w.attempts EXCEPT ![t] = @ + 1] \in [Keys -> Nat]
  BY <1>1 DEF Worlds
<1>4. ~w.inFlight =>
        Neat(AfterTask(Save([w EXCEPT !.tasks[t] = "not_sent", !.attempts[t] = @ + 1]), gate), m, q)
  <2> DEFINE v == [w EXCEPT !.tasks[t] = "not_sent", !.attempts[t] = @ + 1]
  <2> SUFFICES ASSUME ~w.inFlight PROVE Neat(AfterTask(Save(v), gate), m, q)
    OBVIOUS
  <2>1. [w.tasks EXCEPT ![t] = "not_sent"] \in [Keys -> Statuses] /\ "not_sent" \in Statuses
    BY <1>1 DEF Worlds, Statuses
  <2>2. /\ v \in Worlds /\ v.tasks = [w.tasks EXCEPT ![t] = "not_sent"]
        /\ v.rounds = w.rounds /\ v.current = w.current /\ v.state = w.state
        /\ v.preflightPending = w.preflightPending /\ v.downloadsOnly = w.downloadsOnly
        /\ v.inFlight = w.inFlight /\ v.capture = w.capture
    BY <1>1, <1>3, <2>1 DEF Worlds
  <2> HIDE DEF v
  <2>3. Ordered(v, m, q)
    BY <1>1, <2>1, <2>2, RowOrdered
  <2>4. Neat(Save(v), m, q) /\ Save(v).state \in Going /\ ~Save(v).inFlight
    BY <2>2, <2>3, SaveNeat
  <2> QED
    BY <2>4, AfterTaskNeat
<1>5. ~w.inFlight =>
        Neat(Save([w EXCEPT !.capture = [key |-> t, phase |-> "sent", outcome |-> "open"],
                            !.posts[t] = @ + 1, !.inFlight = TRUE, !.storageSettled = FALSE,
                            !.tasks[t] = "submitting", !.attempts[t] = @ + 1]), m, q)
  <2> DEFINE c == [key |-> t, phase |-> "sent", outcome |-> "open"]
             v == [w EXCEPT !.capture = c, !.posts[t] = @ + 1, !.inFlight = TRUE,
                            !.storageSettled = FALSE, !.tasks[t] = "submitting",
                            !.attempts[t] = @ + 1]
  <2> SUFFICES ASSUME ~w.inFlight PROVE Neat(Save(v), m, q)
    OBVIOUS
  <2>1. [w.tasks EXCEPT ![t] = "submitting"] \in [Keys -> Statuses] /\ "submitting" \in Statuses
    BY <1>1 DEF Worlds, Statuses
  <2>2. c \in CaptureType /\ c.phase = "sent" /\ c.key = t
    BY DEF CaptureType
  <2>3. [w.posts EXCEPT ![t] = @ + 1] \in [Keys -> Nat]
    BY <1>1 DEF Worlds
  <2> HIDE DEF c
  <2>4. /\ v \in Worlds /\ v.tasks = [w.tasks EXCEPT ![t] = "submitting"]
        /\ v.capture = c /\ v.inFlight /\ v.rounds = w.rounds /\ v.current = w.current
        /\ v.state = w.state /\ v.preflightPending = w.preflightPending
        /\ v.downloadsOnly = w.downloadsOnly
    BY <1>1, <1>3, <2>1, <2>2, <2>3 DEF Worlds
  <2> HIDE DEF v
  <2>5. Ordered(v, m, q)
    BY <1>1, <2>1, <2>2, <2>4, RowOrdered
  <2> QED
    BY <2>5, SaveNeat
<1> QED
  BY <1>2, <1>4, <1>5 DEF Submit, AllAnswers

-----------------------------------------------------------------------------
(* A pass begins, and the timer. *)

(* The rows of pass i are queued, all of them or those of a pass that has begun; the pass
   is the one that runs from now on.                                                   *)
LEMMA BegunOrdered ==
  ASSUME NEW m, NEW q, NEW w, Ordered(w, m, q), NEW i \in Rounds, i \notin m,
         w.current \in {0, i}, Halted(w) => ~InPass(w),
         NEW f \in [Keys -> Statuses],
         \A t \in Keys : f[t] = w.tasks[t] \/ (t[1] = i /\ f[t] = "queued"),
         \A k \in Rows : f[<<i, k>>] # "none",
         NEW v \in Worlds, v.tasks = f, v.rounds = [w.rounds EXCEPT ![i] = "running"],
         v.current = i, v.state \in Going, v.inFlight = w.inFlight, v.capture = w.capture
  PROVE  Ordered(v, m, q)
<1>1. w \in Worlds /\ i # 0
  BY DEF Ordered, Rounds
<1>2. \A j \in Rounds : v.rounds[j] = IF j = i THEN "running" ELSE w.rounds[j]
  BY <1>1 DEF Worlds
<1>3. \A j \in Rounds, k \in Rows : <<j, k>> \in Keys /\ <<j, k>>[1] = j
  BY DEF Keys
<1>4. ASSUME NEW t \in Keys, v.tasks[t] = "submitting"
      PROVE  t[1] = i /\ w.inFlight /\ w.capture.key = t
  <2>1. w.tasks[t] = "submitting" /\ t[1] = w.current /\ t[1] # 0
    BY <1>4 DEF Ordered, Passes, SentIsCurrent, Keys, Rounds
  <2> QED
    BY <2>1 DEF Ordered, Flight, InPass
<1>5. \A j \in Rounds \ {i}, k \in Rows : v.tasks[<<j, k>>] = w.tasks[<<j, k>>]
  BY <1>3
<1>0. \A j \in Rounds : j # 0
  BY DEF Rounds
<1>6. RunningIsCurrent(v)
  BY <1>0, <1>2 DEF Ordered, Passes, RunningIsCurrent
<1>7. CountedIsComplete(v)
  BY <1>2, <1>5 DEF Ordered, Passes, CountedIsComplete, Counted
<1>8. BegunTogether(v) /\ CurrentIsBegun(v)
  BY <1>5 DEF Ordered, Passes, BegunTogether, CurrentIsBegun
<1>9. SentIsCurrent(v) /\ Flight(v)
  <2>1. v.inFlight => /\ v.state \in Going /\ InPass(v)
                      /\ v.capture.key \in Keys /\ v.capture.key[1] = v.current
    BY <1>1 DEF Ordered, Flight, InPass
  <2> QED
    BY <1>4, <2>1 DEF SentIsCurrent, Flight, Ordered
<1>10. Steady(v, m, q)
  <2>1. v.state \notin {"idle", "done", "interrupted", "closed"}
    BY DEF Going
  <2>2. \A j \in m : j \in Rounds /\ v.rounds[j] = "missed"
    BY <1>2 DEF Ordered, Steady
  <2> QED
    BY <2>1, <2>2 DEF Steady, Halted
<1> QED
  BY <1>6, <1>7, <1>8, <1>9, <1>10 DEF Ordered, Passes

LEMMA StartRoundNeat ==
  ASSUME NEW m, NEW q, NEW w, NEW i \in Rounds, NEW gate, Neat(w, m, q), w.state \in Going,
         ~InPass(w), w.rounds[i] # "missed"
  PROVE  Neat(StartRound(w, i, gate), m, q)
<1> DEFINE newTasks == [t \in Keys |-> IF t[1] = i THEN "queued" ELSE w.tasks[t]]
           newPermits == [t \in Keys |-> IF t[1] = i THEN w.permits[t] + 1 ELSE w.permits[t]]
           v == [w EXCEPT !.rounds[i] = "running", !.current = i, !.tasks = newTasks,
                          !.permits = newPermits, !.state = "running",
                          !.preflightDue = TRUE, !.checked = FALSE]
<1>1. w \in Worlds /\ Ordered(w, m, q) /\ Still(w) /\ i \notin m
  BY StillBetween DEF Neat, Ordered, Steady
<1>2. newTasks \in [Keys -> Statuses] /\ newPermits \in [Keys -> Nat]
  BY <1>1 DEF Worlds, Statuses
<1>3. [w.rounds EXCEPT ![i] = "running"] \in [Rounds -> RoundStates]
  BY <1>1 DEF Worlds, RoundStates
<1>4. i \in 0 .. NRounds
  BY SizeAssumption DEF Rounds
<1>5. /\ \A t \in Keys : newTasks[t] = w.tasks[t] \/ (t[1] = i /\ newTasks[t] = "queued")
      /\ \A k \in Rows : newTasks[<<i, k>>] # "none"
  BY DEF Keys
<1> HIDE DEF newTasks, newPermits
<1>6. /\ v \in Worlds /\ v.tasks = newTasks /\ v.rounds = [w.rounds EXCEPT ![i] = "running"]
      /\ v.current = i /\ v.state = "running" /\ v.inFlight = w.inFlight
      /\ v.capture = w.capture
  BY <1>1, <1>2, <1>3, <1>4 DEF Worlds, States
<1> HIDE DEF v
<1>7. v.state \in Going
  BY <1>6 DEF Going, States
<1>8. Ordered(v, m, q)
  BY <1>1, <1>2, <1>5, <1>6, <1>7, BegunOrdered DEF InPass
<1>9. Neat(Save(v), m, q) /\ Save(v).state \in Going
  BY <1>7, <1>8, SaveNeat
<1>10. Neat(StartNextTask(Save(v), gate), m, q)
  BY <1>9, StartNextTaskNeat
<1> QED
  BY <1>10 DEF StartRound, v, newTasks, newPermits

LEMMA TickBetweenPassesNeat ==
  ASSUME NEW m, NEW q, NEW w, NEW gate, Neat(w, m, q), w.state \in Going, ~InPass(w)
  PROVE  Neat(TickBetweenPasses(w, gate), m, q)
<1> DEFINE c == Classify(w, FALSE)
<1>a. Ordered(w, m, q)
  BY DEF Neat
<1>b. \A busy : /\ Neat(Classify(w, busy), m, q) /\ Classify(w, busy).state = w.state
                /\ Classify(w, busy).current = w.current
  BY <1>a, ClassifyNeat
<1>0. Neat(c, m, q) /\ c.state = w.state /\ c.current = w.current
  BY <1>b, Zenon
<1>1. Neat(c, m, q) /\ Ordered(c, m, q) /\ c.state \in Going /\ ~InPass(c)
  BY <1>0, Zenon DEF Neat, InPass
<1> HIDE DEF c
<1>2. ~Halted(c) /\ c.state # "done"
  BY <1>1 DEF Going, Halted
<1>3. Neat([c EXCEPT !.state = "waiting_schedule"], m, q) /\ Neat(FinishSession(c), m, q)
  BY <1>1, <1>2, StateOrdered, FinishSessionNeat DEF Going, States
<1>4. Due(c) # {} => Neat(StartRound(c, NextDue(c), gate), m, q)
  <2> SUFFICES ASSUME Due(c) # {}
               PROVE  Neat(StartRound(c, NextDue(c), gate), m, q)
    OBVIOUS
  <2>1. Due(c) \in SUBSET Nat
    BY DEF Due, Rounds
  <2>2. \E i \in Due(c) : \A j \in Due(c) : i <= j
    BY <2>1, LeastExists
  <2>3. NextDue(c) \in Rounds /\ c.rounds[NextDue(c)] # "missed"
    BY <2>2 DEF NextDue, Due
  <2> QED
    BY <1>1, <2>3, StartRoundNeat
<1> QED
  BY <1>3, <1>4 DEF TickBetweenPasses, c

LEMMA TickInPassNeat ==
  ASSUME NEW m, NEW q, NEW w, NEW gate, NEW elapsed, Neat(w, m, q), w.state \in Going
  PROVE  Neat(TickInPass(w, gate, elapsed), m, q)
<1> DEFINE c == Classify(w, TRUE)
<1>a. Ordered(w, m, q)
  BY DEF Neat
<1>b. \A busy : Neat(Classify(w, busy), m, q) /\ Classify(w, busy).state = w.state
  BY <1>a, ClassifyNeat
<1>0. Neat(c, m, q) /\ c.state = w.state
  BY <1>b, Zenon
<1>1. Neat(c, m, q) /\ Ordered(c, m, q) /\ c.state \in Going
  BY <1>0, Zenon DEF Neat
<1> HIDE DEF c
<1>2. ~Halted(c) /\ c.state # "done"
  BY <1>1 DEF Going, Halted
<1>3. /\ Neat([c EXCEPT !.state = "running"], m, q)
      /\ [c EXCEPT !.state = "running"].state \in Going
  BY <1>1, <1>2, StateOrdered DEF Going, States
<1>4. /\ Neat(StartNextTask([c EXCEPT !.state = "running"], gate), m, q)
      /\ Neat(StartNextTask(c, gate), m, q)
  BY <1>1, <1>3, StartNextTaskNeat
<1> QED
  BY <1>1, <1>4 DEF TickInPass, c

LEMMA TickNeat ==
  ASSUME NEW m, NEW q, NEW w, NEW gate, NEW elapsed, Neat(w, m, q)
  PROVE  Neat(Tick(w, gate, elapsed), m, q)
<1> DEFINE s == IF InPass(w) THEN "running" ELSE "waiting_schedule"
           caughtUp == [w EXCEPT !.state = s]
           v == IF w.state = "paused_backlog" THEN caughtUp ELSE w
<1>1. CASE w.state \in {"idle", "done", "interrupted", "paused", "closed"}
  BY <1>1 DEF Tick
<1>2. CASE w.state \notin {"idle", "done", "interrupted", "paused", "closed"}
  <2>1. Ordered(w, m, q) /\ ~Halted(w) /\ w.state # "done" /\ w.state \in Going
    BY <1>2 DEF Neat, Ordered, Halted, Going, Worlds
  <2>2. s \in Going
    BY DEF Going, States
  <2> HIDE DEF s
  <2>3. Neat(v, m, q) /\ v.state \in Going
    BY <2>1, <2>2, StateOrdered
  <2> HIDE DEF v
  <2>4. /\ Neat(TickInPass(v, gate, elapsed), m, q)
        /\ ~InPass(v) => Neat(TickBetweenPasses(v, gate), m, q)
    BY <2>3, TickInPassNeat, TickBetweenPassesNeat
  <2> QED
    BY <1>2, <2>4 DEF Tick, v, s
<1> QED
  BY <1>1, <1>2

-----------------------------------------------------------------------------
(* The end of a capture, and the answers of the workers. *)
LEMMA OnCaptureFinishedNeat ==
  ASSUME NEW m, NEW q, NEW w, NEW gate, Neat(w, m, q), w.capture.phase = "reported"
  PROVE  Neat(OnCaptureFinished(w, gate), m, q)
<1> DEFINE k == w.capture.key
           o == w.capture.outcome
           record == IF o = "not_sent" THEN w.recordOf[k] ELSE w.posts[k]
           status == StatusAfter(o, w.attempts[k])
           v == [w EXCEPT !.inFlight = FALSE, !.capture = NoCapture,
                          !.recordOf[k] = record, !.tasks[k] = status]
<1>1. w \in Worlds /\ Ordered(w, m, q)
  BY DEF Neat, Ordered
<1>2. w.state \in Going /\ k \in Keys /\ k[1] = w.current
  BY <1>1 DEF Ordered, Flight
<1>3. NoCapture \in CaptureType
  BY DEF NoCapture, CaptureType
<1>4. status \in Statuses /\ status \notin {"none", "submitting"}
  BY DEF StatusAfter, Statuses, Confirmed
<1>5. record \in Nat
  BY <1>1, <1>2 DEF Worlds
<1> HIDE DEF status, record
<1>6. [w.tasks EXCEPT ![k] = status] \in [Keys -> Statuses]
  BY <1>1, <1>4 DEF Worlds
<1>7. [w.recordOf EXCEPT ![k] = record] \in [Keys -> Nat]
  BY <1>1, <1>5 DEF Worlds
<1>8. /\ v \in Worlds /\ v.tasks = [w.tasks EXCEPT ![k] = status]
      /\ v.capture = NoCapture /\ ~v.inFlight /\ v.rounds = w.rounds
      /\ v.current = w.current /\ v.state = w.state
      /\ v.preflightPending = w.preflightPending /\ v.downloadsOnly = w.downloadsOnly
  BY <1>1, <1>3, <1>6, <1>7 DEF Worlds
<1>9. OnCaptureFinished(w, gate) = AfterTask(Save(v), gate)
  BY DEF OnCaptureFinished, v, status, record
<1> HIDE DEF v
<1>10. Ordered(v, m, q)
  BY <1>1, <1>2, <1>4, <1>8, RowOrdered
<1>11. Neat(Save(v), m, q) /\ Save(v).state \in Going /\ ~Save(v).inFlight
  BY <1>2, <1>8, <1>10, SaveNeat
<1>12. Neat(AfterTask(Save(v), gate), m, q)
  BY <1>11, AfterTaskNeat
<1> QED
  BY <1>9, <1>12

LEMMA MayGoOnGoing ==
  ASSUME NEW w, MayGoOn(w)
  PROVE  w.state \in Going /\ ~w.inFlight
BY DEF MayGoOn, Going, States

LEMMA OnPreflightNeat ==
  ASSUME NEW m, NEW q, NEW w, NEW blocking, NEW gate, Neat(w, m, q), w.preflightPending
  PROVE  Neat(OnPreflight(w, blocking, gate), m, q)
<1> DEFINE a == [w EXCEPT !.preflightPending = FALSE]
           b == [a EXCEPT !.preflightDue = TRUE]
           p == [a EXCEPT !.preflightDue = FALSE, !.checked = TRUE]
<1>1. w \in Worlds /\ Ordered(w, m, q) /\ ~Halted(w)
  BY DEF Neat, Ordered, Steady
<1>2. /\ a \in Worlds /\ a.tasks = w.tasks /\ a.rounds = w.rounds /\ a.current = w.current
      /\ a.capture = w.capture /\ a.inFlight = w.inFlight /\ a.downloadsOnly = w.downloadsOnly
      /\ ~a.preflightPending /\ a.state = w.state
  BY <1>1 DEF Worlds
<1> HIDE DEF a
<1>3. /\ b \in Worlds /\ b.tasks = w.tasks /\ b.rounds = w.rounds /\ b.current = w.current
      /\ b.capture = w.capture /\ b.inFlight = w.inFlight /\ b.downloadsOnly = w.downloadsOnly
      /\ ~b.preflightPending /\ b.state = w.state
  BY <1>2 DEF Worlds
<1>4. /\ p \in Worlds /\ p.tasks = w.tasks /\ p.rounds = w.rounds /\ p.current = w.current
      /\ p.capture = w.capture /\ p.inFlight = w.inFlight /\ p.downloadsOnly = w.downloadsOnly
      /\ ~p.preflightPending /\ p.state = w.state
  BY <1>2 DEF Worlds
<1>5. OnPreflight(w, blocking, gate)
        = CASE blocking -> PausedNow(b)
            [] ~blocking /\ MayGoOn(Save(p)) -> StartNextTask(Save(p), gate)
            [] OTHER -> Save(p)
  BY DEF OnPreflight, a, b, p
<1> HIDE DEF b, p
<1>6. Ordered(b, m, q) /\ ~Halted(b) /\ Ordered(p, m, q)
  BY <1>1, <1>3, <1>4, Aside DEF Halted
<1>7. Neat(PausedNow(b), m, q) /\ Neat(Save(p), m, q)
  BY <1>6, PausedNowNeat, SaveNeat
<1>8. MayGoOn(Save(p)) => Neat(StartNextTask(Save(p), gate), m, q)
  BY <1>7, MayGoOnGoing, StartNextTaskNeat
<1> QED
  BY <1>5, <1>7, <1>8

LEMMA OnStorageSettledNeat ==
  ASSUME NEW m, NEW q, NEW w, NEW gate, Neat(w, m, q)
  PROVE  Neat(OnStorageSettled(w, gate), m, q)
<1> DEFINE v == [w EXCEPT !.settlePending = FALSE, !.storageSettled = TRUE]
<1>1. w \in Worlds /\ Ordered(w, m, q)
  BY DEF Neat, Ordered
<1>2. /\ v \in Worlds /\ v.tasks = w.tasks /\ v.rounds = w.rounds /\ v.current = w.current
      /\ v.capture = w.capture /\ v.inFlight = w.inFlight /\ v.downloadsOnly = w.downloadsOnly
      /\ v.preflightPending = w.preflightPending /\ v.state = w.state /\ v.disk = w.disk
      /\ v.attempts = w.attempts /\ v.recordOf = w.recordOf
  BY <1>1 DEF Worlds
<1> HIDE DEF v
<1>3. Neat(v, m, q)
  BY <1>1, <1>2, Aside DEF Neat
<1>4. MayGoOn(v) => Neat(StartNextTask(v, gate), m, q)
  BY <1>3, MayGoOnGoing, StartNextTaskNeat
<1> QED
  BY <1>3, <1>4 DEF OnStorageSettled, v

LEMMA OnIdleResultNeat ==
  ASSUME NEW m, NEW q, NEW w, NEW idle, NEW answer \in AllAnswers, NEW gate,
         Neat(w, m, q), w.idleCheck # None
  PROVE  Neat(OnIdleResult(w, idle, answer, gate), m, q)
<1> DEFINE t == w.idleCheck
           v == [w EXCEPT !.idleCheck = None]
           busy == [v EXCEPT !.idleRetries = @ + 1]
           free == [v EXCEPT !.idleRetries = 0]
           Alike(x) ==
             /\ x \in Worlds /\ x.tasks = w.tasks /\ x.rounds = w.rounds /\ x.current = w.current
             /\ x.capture = w.capture /\ x.inFlight = w.inFlight
             /\ x.downloadsOnly = w.downloadsOnly
             /\ x.preflightPending = w.preflightPending /\ x.state = w.state
             /\ x.disk = w.disk /\ x.attempts = w.attempts /\ x.recordOf = w.recordOf
<1>1. w \in Worlds /\ Ordered(w, m, q) /\ t \in Keys
  BY DEF Neat, Ordered, Worlds
<1>2. Alike(v)
  BY <1>1 DEF Worlds
<1> HIDE DEF v
<1>3. v.idleRetries + 1 \in Nat
  BY <1>2 DEF Worlds
<1>4. Alike(busy)
  BY <1>2, <1>3 DEF Worlds
<1>5. Alike(free)
  BY <1>2 DEF Worlds
<1>6. \A x : Alike(x) => Neat(x, m, q)
  BY <1>1, Aside DEF Neat
<1> HIDE DEF t, busy, free
<1>7. Neat(v, m, q) /\ Neat(busy, m, q) /\ Neat(free, m, q)
  BY <1>2, <1>4, <1>5, <1>6
<1>8. busy.state = v.state /\ free.state = v.state /\ free.current = v.current
  BY <1>2, <1>4, <1>5
<1> HIDE DEF Alike
<1> DEFINE stale == v.inFlight \/ v.tasks[t] # "queued" \/ v.current # t[1]
<1>9. MayGoOn(v) => Neat(StartNextTask(v, gate), m, q)
  BY <1>7, MayGoOnGoing, StartNextTaskNeat
<1>10. MayGoOn(v) => Neat(PausedNow(busy), m, q) /\ Neat(BeginWait(busy), m, q)
  BY <1>7, <1>8, PausedNowNeat DEF Neat, MayGoOn, Halted
<1>11. ~stale /\ MayGoOn(v) => Neat(Submit(free, t, answer, gate), m, q)
  <2> SUFFICES ASSUME ~stale, MayGoOn(v) PROVE Neat(Submit(free, t, answer, gate), m, q)
    OBVIOUS
  <2>1. free.state \in Going /\ t[1] = free.current
    BY <1>8, MayGoOnGoing
  <2> QED
    BY <1>1, <1>7, <2>1, SubmitNeat
<1>12. CASE stale \/ ~MayGoOn(v)
  <2>1. OnIdleResult(w, idle, answer, gate) = v
    BY <1>12 DEF OnIdleResult, MayGoOn, v, t
  <2> QED
    BY <1>7, <2>1
<1>13. CASE ~stale /\ MayGoOn(v) /\ v.state \in {"pause_requested", "stop_requested"}
  <2>1. OnIdleResult(w, idle, answer, gate) = StartNextTask(v, gate)
    BY <1>13 DEF OnIdleResult, v, t
  <2> QED
    BY <1>9, <1>13, <2>1
<1>14. CASE ~stale /\ MayGoOn(v) /\ v.state \notin {"pause_requested", "stop_requested"}
  <2>1. v.state = "running"
    BY <1>14 DEF MayGoOn
  <2>2. CASE idle
    <3>1. OnIdleResult(w, idle, answer, gate) = Submit(free, t, answer, gate)
      BY <1>14, <2>1, <2>2 DEF OnIdleResult, v, t, free
    <3> QED
      BY <1>11, <1>14, <3>1
  <2>3. CASE ~idle
    <3>1. OnIdleResult(w, idle, answer, gate)
            = IF busy.idleRetries > IdleRetries THEN PausedNow(busy) ELSE BeginWait(busy)
      BY <1>14, <2>1, <2>3 DEF OnIdleResult, v, t, busy
    <3> QED
      BY <1>10, <1>14, <3>1
  <2> QED
    BY <2>2, <2>3
<1> QED
  BY <1>12, <1>13, <1>14

-----------------------------------------------------------------------------
(* The operator's commands. *)
LEMMA PauseNeat ==
  ASSUME NEW m, NEW q, NEW w, Neat(w, m, q), w.state \in Going
  PROVE  Neat(Pause(w), m, q) /\ Neat(Stop(w), m, q)
<1>1. Ordered(w, m, q) /\ ~Halted(w)
  BY DEF Neat, Going, Halted
<1>2. /\ Neat(Save([w EXCEPT !.state = "pause_requested"]), m, q)
      /\ Neat(Save([w EXCEPT !.state = "stop_requested"]), m, q)
      /\ Neat(PausedNow(w), m, q) /\ Neat(Save(w), m, q)
  BY <1>1, StateOrdered, PausedNowNeat, SaveNeat DEF Going, States
<1>3. ~w.inFlight => Neat(Stopped(w), m, q)
  BY <1>1, StillGoing, StoppedNeat
<1> QED
  BY <1>2, <1>3 DEF Pause, Stop

LEMMA ResumeNeat ==
  ASSUME NEW m, NEW q, NEW w, NEW gate, NEW elapsed, Neat(w, m, q), w.state \in Going
  PROVE  Neat(Resume(w, gate, elapsed), m, q)
<1>1. Ordered(w, m, q) /\ ~Halted(w)
  BY DEF Neat, Going, Halted
<1>2. \A s \in Going : Neat(Tick(Save([w EXCEPT !.state = s]), gate, elapsed), m, q)
  <2> TAKE s \in Going
  <2>1. Neat(Save([w EXCEPT !.state = s]), m, q)
    BY <1>1, StateOrdered
  <2> QED
    BY <2>1, TickNeat
<1>3. Neat(Tick(Save(w), gate, elapsed), m, q)
  BY <1>1, SaveNeat, TickNeat
<1>4. {"running", "waiting", "waiting_schedule"} \subseteq Going
  BY DEF Going, States
<1> QED
  BY <1>2, <1>3, <1>4 DEF Resume

LEMMA StartSessionNeat ==
  ASSUME NEW q, NEW w, NEW gate, NEW elapsed, Neat(w, {}, q), w.state = "idle"
  PROVE  Neat(StartSession(w, gate, elapsed), {}, q)
<1> DEFINE first == [i \in Rounds |-> CASE Mode = "times" -> "pending"
                                        [] Mode = "now" /\ i = 1 -> "due"
                                        [] OTHER -> "none"]
           v == [w EXCEPT !.rounds = first, !.owned = TRUE, !.timer = TRUE,
                          !.state = "waiting_schedule"]
           c == Classify(v, FALSE)
<1>1. w \in Worlds /\ Ordered(w, {}, q) /\ ~InPass(w)
  BY DEF Neat, Ordered, Steady
<1>2. /\ first \in [Rounds -> RoundStates]
      /\ \A i \in Rounds : first[i] \notin Counted \cup {"running"}
  BY DEF RoundStates, Counted
<1> HIDE DEF first
<1>3. /\ v \in Worlds /\ v.tasks = w.tasks /\ v.rounds = first /\ v.current = w.current
      /\ v.capture = w.capture /\ v.inFlight = w.inFlight /\ v.state = "waiting_schedule"
  BY <1>1, <1>2 DEF Worlds, States
<1> HIDE DEF v
<1>4. Still(w) /\ ~v.inFlight /\ w.current = 0
  BY <1>1, <1>3, StillBetween DEF Still, InPass
<1>5. Passes(v)
  <2>1. RunningIsCurrent(v) /\ CountedIsComplete(v) /\ CurrentIsBegun(v)
    BY <1>2, <1>3, <1>4 DEF RunningIsCurrent, CountedIsComplete, CurrentIsBegun, InPass, Rounds
  <2> QED
    BY <1>1, <1>3, <2>1 DEF Ordered, Passes, BegunTogether, SentIsCurrent
<1>6. Flight(v) /\ Steady(v, {}, q)
  BY <1>1, <1>3, <1>4 DEF Ordered, Flight, Still, Steady, Halted
<1>7. Ordered(v, {}, q)
  BY <1>3, <1>5, <1>6 DEF Ordered
<1>8. Ordered(c, {}, q)
  <2>1. \A busy : Ordered(Classify(v, busy), {}, q)
    BY <1>7, ClassifyNeat
  <2> QED
    BY <2>1, Zenon
<1> HIDE DEF c
<1>9. Neat(Tick(Save(v), gate, elapsed), {}, q) /\ Neat(Tick(Save(c), gate, elapsed), {}, q)
  BY <1>7, <1>8, SaveNeat, TickNeat
<1> QED
  BY <1>9 DEF StartSession, v, first, c

LEMMA RetryNeat ==
  ASSUME NEW q, NEW w, NEW i \in Rounds, NEW gate, NEW elapsed, Neat(w, {}, q),
         w.state # "closed", w.state = "interrupted" => ~InPass(w)
  PROVE  Neat(Retry(w, i, gate, elapsed), {}, q)
<1> DEFINE keys == RetryableKeys(w, i)
           newTasks == [t \in Keys |-> IF t \in keys THEN "queued" ELSE w.tasks[t]]
           newPermits == [t \in Keys |-> IF t \in keys THEN w.permits[t] + 1 ELSE w.permits[t]]
           status == IF InPass(w) THEN w.rounds[i] ELSE "running"
           s == IF AtRest(w) THEN "running" ELSE w.state
           holds == w.owned \/ AtRest(w)
           ticks == w.timer \/ AtRest(w)
           v == [w EXCEPT !.tasks = newTasks, !.permits = newPermits, !.rounds[i] = status,
                          !.current = i, !.owned = holds, !.timer = ticks, !.state = s]
<1>1. CASE RetryRefused(w, i)
  BY <1>1 DEF Retry
<1>2. CASE ~RetryRefused(w, i)
  <2>1. w \in Worlds /\ Ordered(w, {}, q) /\ w.current \in {0, i} /\ keys # {}
    BY <1>2 DEF Neat, Ordered, RetryRefused
  <2>2. newTasks \in [Keys -> Statuses] /\ newPermits \in [Keys -> Nat]
    BY <2>1 DEF Worlds, Statuses
  <2>3. \A t \in Keys : newTasks[t] = w.tasks[t] \/ (t[1] = i /\ newTasks[t] = "queued")
    BY DEF RetryableKeys
  <2>4. \A k \in Rows : newTasks[<<i, k>>] # "none"
    <3>1. PICK t \in Keys : t[1] = i /\ w.tasks[t] \in Retryable
      BY <2>1 DEF RetryableKeys
    <3>2. PICK l \in Rows : t = <<i, l>>
      BY <3>1 DEF Keys
    <3>3. \A k \in Rows : w.tasks[<<i, k>>] # "none"
      BY <2>1, <3>1, <3>2 DEF Ordered, Passes, BegunTogether, Retryable
    <3> QED
      BY <2>3, <3>3 DEF Keys
  <2>5. s \in Going /\ holds \in BOOLEAN /\ ticks \in BOOLEAN
    BY <2>1 DEF Worlds, AtRest, Going, States
  <2>6. status = "running"
    BY <2>1 DEF Ordered, Passes, RunningIsCurrent, InPass
  <2> HIDE DEF newTasks, newPermits, status, s, keys, holds, ticks
  <2>7. [w.rounds EXCEPT ![i] = status] \in [Rounds -> RoundStates]
    BY <2>1, <2>6 DEF Worlds, RoundStates
  <2>8. i \in 0 .. NRounds /\ s \in States
    BY <2>5, SizeAssumption DEF Rounds, Going
  <2>9. /\ v \in Worlds /\ v.tasks = newTasks /\ v.rounds = [w.rounds EXCEPT ![i] = status]
        /\ v.current = i /\ v.state = s /\ v.inFlight = w.inFlight /\ v.capture = w.capture
    BY <2>1, <2>2, <2>5, <2>7, <2>8 DEF Worlds
  <2> HIDE DEF v
  <2>10. Halted(w) => ~InPass(w)
    BY DEF Halted
  <2>11. Ordered(v, {}, q)
    BY <2>1, <2>2, <2>3, <2>4, <2>5, <2>6, <2>9, <2>10, BegunOrdered
  <2>12. Neat(Tick(Save(v), gate, elapsed), {}, q)
    BY <2>11, SaveNeat, TickNeat
  <2>13. Retry(w, i, gate, elapsed) = Tick(Save(v), gate, elapsed)
    BY <1>2 DEF Retry, v, newTasks, newPermits, status, s, keys, holds, ticks
  <2> QED
    BY <2>12, <2>13
<1> QED
  BY <1>1, <1>2

(* Rows that have begun get an outcome, and passes that are counted are counted again. *)
LEMMA SettledOrdered ==
  ASSUME NEW m, NEW q, NEW w, Ordered(w, m, q), NEW f \in [Keys -> Statuses],
         \A t \in Keys : f[t] = w.tasks[t] \/ (w.tasks[t] # "none" /\ f[t] \notin Unsettled),
         NEW v \in Worlds, v.tasks = f,
         \A i \in Rounds : v.rounds[i] = w.rounds[i] \/ {v.rounds[i], w.rounds[i]} \subseteq Counted,
         v.current = w.current, v.state = w.state, v.inFlight = w.inFlight,
         v.capture = w.capture, v.preflightPending = w.preflightPending,
         v.downloadsOnly = w.downloadsOnly
  PROVE  Ordered(v, m, q)
<1>1. \A i \in Rounds, k \in Rows : <<i, k>> \in Keys
  BY DEF Keys
<1>2. RunningIsCurrent(v)
  BY DEF Ordered, Passes, RunningIsCurrent, Counted
<1>3. CountedIsComplete(v)
  BY <1>1 DEF Ordered, Passes, CountedIsComplete, Counted
<1>4. BegunTogether(v)
  BY <1>1 DEF Ordered, Passes, BegunTogether, Unsettled
<1>5. CurrentIsBegun(v)
  <2>1. InPass(v) => w.current \in Rounds
    BY SizeAssumption DEF Ordered, Worlds, InPass, Rounds
  <2> QED
    BY <1>1, <2>1 DEF Ordered, Passes, CurrentIsBegun, Unsettled, InPass
<1>6. SentIsCurrent(v) /\ Flight(v)
  BY DEF Ordered, Passes, SentIsCurrent, Flight, InPass, Halted, Unsettled
<1>7. Steady(v, m, q)
  BY DEF Ordered, Steady, InPass, Halted, Counted
<1> QED
  BY <1>2, <1>3, <1>4, <1>5, <1>6, <1>7 DEF Ordered, Passes

LEMMA OnFilesCheckedNeat ==
  ASSUME NEW m, NEW q, NEW w, NEW wanted, NEW verdict \in Confirmed, Ordered(w, m, q)
  PROVE  /\ Neat(OnFilesChecked(w, wanted, verdict), m, q)
         /\ OnFilesChecked(w, wanted, verdict).state = w.state
         /\ OnFilesChecked(w, wanted, verdict).current = w.current
<1> DEFINE found(t) == \E n \in recorded[t] : <<t, n>> \in wanted
           f == [t \in Keys |-> CASE t \notin UncertainKeys(w) -> w.tasks[t]
                                  [] t \in UncertainKeys(w) /\ found(t) -> verdict
                                  [] OTHER -> "no_file"]
           v == [w EXCEPT !.tasks = f]
           counts == [i \in Rounds |->
                        IF i # v.current /\ v.rounds[i] \in {"done", "partial", "failed"}
                          THEN Verdict(v, i) ELSE v.rounds[i]]
           u == [v EXCEPT !.rounds = counts]
<1>1. w \in Worlds
  BY DEF Ordered
<1>2. /\ f \in [Keys -> Statuses]
      /\ \A t \in Keys : f[t] = w.tasks[t] \/ (w.tasks[t] # "none" /\ f[t] \notin Unsettled)
  BY <1>1 DEF Worlds, Statuses, Confirmed, UncertainKeys, Uncertain, Unsettled
<1> HIDE DEF f
<1>3. /\ v \in Worlds /\ v.tasks = f /\ v.rounds = w.rounds /\ v.current = w.current
      /\ v.state = w.state /\ v.inFlight = w.inFlight /\ v.capture = w.capture
      /\ v.preflightPending = w.preflightPending /\ v.downloadsOnly = w.downloadsOnly
  BY <1>1, <1>2 DEF Worlds
<1> HIDE DEF v
<1>4. \A i \in Rounds : counts[i] = v.rounds[i] \/ {counts[i], v.rounds[i]} \subseteq Counted
  BY VerdictCounted DEF Counted
<1>5. counts \in [Rounds -> RoundStates]
  BY <1>3, VerdictType DEF Worlds
<1> HIDE DEF counts
<1>6. /\ u \in Worlds /\ u.tasks = f /\ u.rounds = counts /\ u.current = w.current
      /\ u.state = w.state /\ u.inFlight = w.inFlight /\ u.capture = w.capture
      /\ u.preflightPending = w.preflightPending /\ u.downloadsOnly = w.downloadsOnly
  BY <1>3, <1>5 DEF Worlds
<1>7. OnFilesChecked(w, wanted, verdict) = Save(u)
  BY DEF OnFilesChecked, Recount, f, v, counts, u
<1> HIDE DEF u
<1>8. Ordered(u, m, q)
  BY <1>2, <1>3, <1>4, <1>6, SettledOrdered
<1> QED
  BY <1>6, <1>7, <1>8, SaveNeat

LEMMA SkipUncertainNeat ==
  ASSUME NEW m, NEW q, NEW w, Neat(w, m, q)
  PROVE  Neat(SkipUncertain(w), m, q)
<1> DEFINE meant == {IF InPass(w) THEN <<w.current, t[2]>> ELSE t : t \in UncertainKeys(w)}
           skipped == {t \in meant : w.tasks[t] \notin Confirmed \cup {"none"}}
           f == [t \in Keys |-> IF t \in skipped THEN "skipped" ELSE w.tasks[t]]
           v == [w EXCEPT !.tasks = f]
<1>1. w \in Worlds /\ Ordered(w, m, q)
  BY DEF Neat, Ordered
<1>2. \A t \in skipped : w.tasks[t] # "none"
  OBVIOUS
<1> HIDE DEF skipped
<1>3. /\ f \in [Keys -> Statuses]
      /\ \A t \in Keys : f[t] = w.tasks[t] \/ (w.tasks[t] # "none" /\ f[t] \notin Unsettled)
  BY <1>1, <1>2 DEF Worlds, Statuses, Unsettled
<1> HIDE DEF f
<1>4. /\ v \in Worlds /\ v.tasks = f /\ v.rounds = w.rounds /\ v.current = w.current
      /\ v.state = w.state /\ v.inFlight = w.inFlight /\ v.capture = w.capture
      /\ v.preflightPending = w.preflightPending /\ v.downloadsOnly = w.downloadsOnly
  BY <1>1, <1>3 DEF Worlds
<1> HIDE DEF v
<1>5. Neat(Save(v), m, q)
  BY <1>1, <1>3, <1>4, SettledOrdered, SaveNeat
<1> QED
  BY <1>5 DEF SkipUncertain, v, f, skipped

(* Continue: of an interrupted collection without a row in doubt, or of one with downloads
   left only.                                                                         *)
LEMMA ContinueNeat ==
  ASSUME NEW m, NEW q, NEW w, NEW gate, NEW elapsed, Neat(w, m, q),
         w.state = "interrupted", w.downloadsOnly \/ UncertainKeys(w) = {}
  PROVE  Neat(Continue(w, gate, elapsed), m, q)
<1> DEFINE held == [w EXCEPT !.owned = TRUE, !.timer = TRUE, !.inFlight = FALSE]
           marked == MarkMissed(held)
           s == IF InPass(w) THEN "running" ELSE "waiting_schedule"
           on == [marked EXCEPT !.state = s, !.preflightDue = InPass(w)]
           rest == [w EXCEPT !.downloadsOnly = FALSE, !.state = "done"]
<1>1. w \in Worlds /\ Ordered(w, m, q) /\ Halted(w)
  BY DEF Neat, Ordered, Halted
<1>2. ~w.inFlight /\ (w.downloadsOnly => ~InPass(w))
  BY <1>1 DEF Ordered, Flight, Steady, Going
<1>3. CASE w.downloadsOnly
  <2>1. /\ rest \in Worlds /\ rest.tasks = w.tasks /\ rest.rounds = w.rounds
        /\ rest.current = w.current /\ rest.state = "done" /\ rest.inFlight = w.inFlight
        /\ rest.capture = w.capture /\ rest.preflightPending = w.preflightPending
    BY <1>1 DEF Worlds, States
  <2>2. Continue(w, gate, elapsed) = Save(rest)
    BY <1>3 DEF Continue, rest
  <2> HIDE DEF rest
  <2>3. Still(w)
    BY <1>1, <1>2, <1>3, StillBetween
  <2>4. Passes(rest)
    BY <1>1, <2>1 DEF Ordered, Passes, RunningIsCurrent, CountedIsComplete, BegunTogether,
       CurrentIsBegun, SentIsCurrent, InPass
  <2>5. Flight(rest)
    BY <1>1, <1>2, <2>1, <2>3 DEF Ordered, Flight, Still
  <2>6. Steady(rest, m, q)
    BY <1>1, <1>2, <1>3, <2>1 DEF Ordered, Steady, InPass, Halted
  <2> QED
    BY <2>1, <2>2, <2>4, <2>5, <2>6, SaveNeat DEF Ordered
<1>4. CASE ~w.downloadsOnly
  <2>1. /\ held \in Worlds /\ held.tasks = w.tasks /\ held.rounds = w.rounds
        /\ held.current = w.current /\ held.state = w.state /\ held.inFlight = w.inFlight
        /\ held.capture = w.capture /\ held.preflightPending = w.preflightPending
        /\ held.downloadsOnly = w.downloadsOnly /\ held.disk = w.disk
        /\ held.attempts = w.attempts /\ held.recordOf = w.recordOf
    BY <1>1, <1>2 DEF Worlds
  <2> HIDE DEF held
  <2>2. Neat(held, m, q)
    BY <1>1, <2>1, Aside DEF Neat
  <2>3. /\ Neat(marked, m, q) /\ marked.state = w.state /\ marked.current = w.current
        /\ marked.inFlight = w.inFlight /\ marked.tasks = w.tasks
        /\ marked.downloadsOnly = w.downloadsOnly
    BY <2>1, <2>2, MarkMissedNeat DEF Neat
  <2> HIDE DEF marked
  <2>4. Still(marked)
    BY <1>2, <1>4, <2>3 DEF Still, UncertainKeys, Uncertain
  <2>5. s \in Going /\ InPass(w) \in BOOLEAN
    BY DEF Going, States, InPass
  <2>6. s \in States
    BY <2>5 DEF Going
  <2> HIDE DEF s
  <2>7. /\ on \in Worlds /\ on.tasks = marked.tasks /\ on.rounds = marked.rounds
        /\ on.current = marked.current /\ on.state = s /\ on.inFlight = marked.inFlight
        /\ on.capture = marked.capture /\ on.preflightPending = marked.preflightPending
        /\ on.downloadsOnly = marked.downloadsOnly
    BY <2>3, <2>5, <2>6 DEF Neat, Ordered, Worlds
  <2>8. CASE InPass(w) /\ QueuedRows(w) = {}
    <3>1. QueuedRows(marked) = {}
      BY <2>3, <2>8 DEF QueuedRows, InPass
    <3>2. Neat(FinishRound(marked, FALSE), m, q)
      BY <2>3, <2>4, <3>1, FinishRoundNeat
    <3>3. Neat(Tick(Save(FinishRound(marked, FALSE)), gate, elapsed), m, q)
      BY <3>2, SaveNeat, TickNeat DEF Neat
    <3>4. Continue(w, gate, elapsed) = Tick(Save(FinishRound(marked, FALSE)), gate, elapsed)
      BY <1>4, <2>8 DEF Continue, marked, held
    <3> QED
      BY <3>3, <3>4
  <2>9. CASE ~(InPass(w) /\ QueuedRows(w) = {})
    <3>1. Continue(w, gate, elapsed) = Tick(Save(on), gate, elapsed)
      BY <1>4, <2>9 DEF Continue, on, marked, held, s
    <3> HIDE DEF on
    <3>2. Ordered(on, m, q)
      BY <2>3, <2>4, <2>5, <2>7, Aside DEF Neat
    <3>3. Neat(Tick(Save(on), gate, elapsed), m, q)
      BY <3>2, SaveNeat, TickNeat
    <3> QED
      BY <3>1, <3>3
  <2> QED
    BY <2>8, <2>9
<1>5. w.downloadsOnly \in BOOLEAN
  BY <1>1 DEF Worlds
<1> QED
  BY <1>3, <1>4

(* A missed pass is due again, or skipped. *)
LEMMA Reopened ==
  ASSUME NEW q, NEW w, NEW i, Ordered(w, {i}, q), NEW s \in {"due", "skipped"},
         NEW v \in Worlds, v.rounds = [w.rounds EXCEPT ![i] = s], v.tasks = w.tasks,
         v.current = w.current, v.inFlight = w.inFlight, v.capture = w.capture,
         v.preflightPending = w.preflightPending, v.downloadsOnly = w.downloadsOnly,
         v.state = w.state \/ (v.state \in Going /\ ~Halted(w))
  PROVE  Ordered(v, {}, q)
<1>1. i \in Rounds /\ w.rounds[i] = "missed" /\ w \in Worlds
  BY DEF Ordered, Steady
<1>2. \A j \in Rounds : v.rounds[j] = IF j = i THEN s ELSE w.rounds[j]
  BY <1>1 DEF Worlds
<1>3. v.state = w.state \/ v.state \notin {"idle", "done", "interrupted", "closed"}
  BY DEF Going
<1>4. RunningIsCurrent(v) /\ CountedIsComplete(v)
  BY <1>1, <1>2 DEF Ordered, Passes, RunningIsCurrent, CountedIsComplete, Counted
<1>5. BegunTogether(v) /\ CurrentIsBegun(v) /\ SentIsCurrent(v)
  BY DEF Ordered, Passes, BegunTogether, CurrentIsBegun, SentIsCurrent, InPass
<1>6. Flight(v)
  BY <1>3 DEF Ordered, Flight, InPass, Halted
<1>7. Steady(v, {}, q)
  BY <1>3 DEF Ordered, Steady, InPass, Halted
<1> QED
  BY <1>4, <1>5, <1>6, <1>7 DEF Ordered, Passes

LEMMA Watched ==
  ASSUME NEW q, NEW w, NEW i \in Rounds, Neat(w, {}, q), w.rounds[i] = "missed"
  PROVE  Neat(w, {i}, q)
BY DEF Neat, Ordered, Steady

LEMMA Unwatched ==
  ASSUME NEW q, NEW w, NEW m, Neat(w, m, q)
  PROVE  Neat(w, {}, q)
BY DEF Neat, Ordered, Steady

LEMMA RunMissedNeat ==
  ASSUME NEW q, NEW w, NEW i \in Rounds, NEW gate, NEW elapsed, Neat(w, {}, q),
         w.rounds[i] = "missed", w.state # "closed",
         w.state = "interrupted" => w.downloadsOnly \/ UncertainKeys(w) = {}
  PROVE  Neat(RunMissed(w, i, gate, elapsed), {}, q)
<1> DEFINE c == IF w.state = "interrupted" THEN Continue(w, gate, elapsed) ELSE w
           rested == c.state \in {"done", "idle"}
           s == IF rested THEN "waiting_schedule" ELSE c.state
           holds == c.owned \/ rested
           ticks == c.timer \/ rested
           v == [c EXCEPT !.rounds[i] = "due", !.owned = holds, !.timer = ticks, !.state = s]
<1>1. Neat(c, {i}, q)
  BY Watched, ContinueNeat
<1> HIDE DEF c
<1>2. c \in Worlds /\ Ordered(c, {i}, q)
  BY <1>1 DEF Neat, Ordered
<1>3. s \in States /\ holds \in BOOLEAN /\ ticks \in BOOLEAN
  BY <1>2 DEF Worlds, States
<1>4. s = c.state \/ (s \in Going /\ ~Halted(c))
  BY DEF Going, States, Halted
<1> HIDE DEF s, holds, ticks
<1>5. [c.rounds EXCEPT ![i] = "due"] \in [Rounds -> RoundStates]
  BY <1>2 DEF Worlds, RoundStates
<1>6. v \in Worlds
  BY <1>2, <1>3, <1>5 DEF Worlds
<1>7. /\ v.rounds = [c.rounds EXCEPT ![i] = "due"] /\ v.tasks = c.tasks
      /\ v.current = c.current /\ v.inFlight = c.inFlight /\ v.capture = c.capture
      /\ v.preflightPending = c.preflightPending /\ v.downloadsOnly = c.downloadsOnly
      /\ v.state = s
  BY <1>2 DEF Worlds
<1>8. RunMissed(w, i, gate, elapsed)
        = IF rested /\ ~CanReserve THEN c ELSE Tick(Save(v), gate, elapsed)
  BY DEF RunMissed, c, s, holds, ticks, v
<1> HIDE DEF v
<1>9. Ordered(v, {}, q)
  BY <1>2, <1>4, <1>6, <1>7, Reopened
<1>10. Neat(Tick(Save(v), gate, elapsed), {}, q)
  BY <1>9, SaveNeat, TickNeat
<1>11. Neat(c, {}, q)
  BY <1>1, Unwatched
<1> QED
  BY <1>8, <1>10, <1>11

LEMMA SkipMissedNeat ==
  ASSUME NEW q, NEW w, NEW i \in Rounds, Neat(w, {}, q), w.rounds[i] = "missed"
  PROVE  Neat(SkipMissed(w, i), {}, q)
<1> DEFINE v == [w EXCEPT !.rounds[i] = "skipped"]
<1>1. w \in Worlds /\ Ordered(w, {i}, q)
  BY Watched DEF Neat, Ordered
<1>2. [w.rounds EXCEPT ![i] = "skipped"] \in [Rounds -> RoundStates]
  BY <1>1 DEF Worlds, RoundStates
<1>3. /\ v \in Worlds /\ v.rounds = [w.rounds EXCEPT ![i] = "skipped"] /\ v.tasks = w.tasks
      /\ v.current = w.current /\ v.inFlight = w.inFlight /\ v.capture = w.capture
      /\ v.preflightPending = w.preflightPending /\ v.downloadsOnly = w.downloadsOnly
      /\ v.state = w.state
  BY <1>1, <1>2 DEF Worlds
<1> HIDE DEF v
<1>4. Ordered(v, {}, q)
  <2>1. "skipped" \in {"due", "skipped"}
    OBVIOUS
  <2> QED
    BY <1>1, <1>3, <2>1, Reopened
<1>5. Neat(Save(v), {}, q)
  BY <1>4, SaveNeat
<1> QED
  BY <1>5 DEF SkipMissed, v

-----------------------------------------------------------------------------
(* The application ends and starts again. *)
LEMMA LoadedNeat ==
  ASSUME NEW w, NEW unfinished \in BOOLEAN, Neat(w, {}, FALSE), w.state = "closed"
  PROVE  Neat(Loaded(w, unfinished), {}, FALSE)
<1> DEFINE done == w.disk.state = "done"
           s == IF done /\ ~unfinished THEN "done" ELSE "interrupted"
           only == done /\ unfinished
           v == [w EXCEPT !.state = s, !.downloadsOnly = only]
<1>1. w \in Worlds /\ ~w.inFlight /\ ~w.preflightPending
  BY DEF Neat, Ordered, Flight, Steady, Halted, Going
<1>2. s \in {"done", "interrupted"} /\ only \in BOOLEAN /\ (s = "done" => done) /\ (only => done)
  OBVIOUS
<1>3. done => ~InPass(w) /\ Still(w)
  <2>1. done => ~InPass(w)
    BY DEF Neat, Filed, InPass
  <2> QED
    BY <2>1, StillBetween DEF Neat
<1>4. ~done => s = "interrupted" /\ ~only
  OBVIOUS
<1>5. done /\ s = "interrupted" => only
  OBVIOUS
<1> HIDE DEF s, only
<1>6. /\ v \in Worlds /\ v.tasks = w.tasks /\ v.rounds = w.rounds /\ v.current = w.current
      /\ v.capture = w.capture /\ v.inFlight = w.inFlight /\ v.state = s
      /\ v.preflightPending = w.preflightPending /\ v.downloadsOnly = only
      /\ v.disk = w.disk /\ v.attempts = w.attempts /\ v.recordOf = w.recordOf
  BY <1>1, <1>2 DEF Worlds, States
<1>7. Loaded(w, unfinished) = IF done THEN v ELSE MarkMissed(v)
  BY DEF Loaded, s, only
<1> HIDE DEF v
<1>8. Passes(v)
  BY <1>6 DEF Neat, Ordered, Passes, RunningIsCurrent, CountedIsComplete, BegunTogether,
     CurrentIsBegun, SentIsCurrent, InPass
<1>9. Flight(v)
  BY <1>1, <1>2, <1>3, <1>6 DEF Neat, Ordered, Flight, Halted, Still
<1>10. Steady(v, {}, FALSE)
  BY <1>1, <1>2, <1>3, <1>6 DEF Steady, InPass, Halted
<1>11. Filed(v)
  BY <1>2, <1>6 DEF Neat, Filed, SameRounds, Halted
<1>12. Neat(v, {}, FALSE)
  BY <1>6, <1>8, <1>9, <1>10, <1>11 DEF Neat, Ordered
<1>13. Neat(MarkMissed(v), {}, FALSE)
  BY <1>12, MarkMissedNeat DEF Neat
<1> QED
  BY <1>7, <1>12, <1>13

LEMMA ClosedFields ==
  ASSUME NEW w \in Worlds
  PROVE  LET v == Closed(w)
         IN  /\ v.tasks = w.disk.tasks /\ v.rounds = w.disk.rounds
             /\ v.current = w.disk.current /\ v.attempts = w.disk.attempts
             /\ v.recordOf = w.disk.recordOf /\ v.disk = w.disk
             /\ v.state = "closed" /\ v.capture = NoCapture
             /\ ~v.inFlight /\ ~v.preflightPending
<1> DEFINE rows == RestoredRows(w)
           u == Restored(w)
           x == Forgotten(u)
           y == Released(x)
<1>1. /\ rows.tasks = w.disk.tasks /\ rows.attempts = w.disk.attempts
      /\ rows.recordOf = w.disk.recordOf /\ rows.disk = w.disk /\ DOMAIN rows = DOMAIN w
  BY DEF RestoredRows, Worlds
<1>2. /\ u.tasks = w.disk.tasks /\ u.attempts = w.disk.attempts
      /\ u.recordOf = w.disk.recordOf /\ u.disk = w.disk
      /\ u.current = w.disk.current /\ u.rounds = w.disk.rounds /\ DOMAIN u = DOMAIN w
  <2>1. u = [rows EXCEPT !.current = w.disk.current, !.rounds = w.disk.rounds]
    BY Zenon DEF Restored
  <2> HIDE DEF rows, u
  <2> QED
    BY <1>1, <2>1 DEF Worlds
<1> HIDE DEF rows, u
<1>3. /\ x.tasks = u.tasks /\ x.attempts = u.attempts /\ x.recordOf = u.recordOf
      /\ x.disk = u.disk /\ x.current = u.current /\ x.rounds = u.rounds
      /\ ~x.inFlight /\ ~x.preflightPending /\ DOMAIN x = DOMAIN w
  BY <1>2 DEF Forgotten, Worlds
<1> HIDE DEF x
<1>4. /\ y.tasks = u.tasks /\ y.attempts = u.attempts /\ y.recordOf = u.recordOf
      /\ y.disk = u.disk /\ y.current = u.current /\ y.rounds = u.rounds
      /\ ~y.inFlight /\ ~y.preflightPending /\ DOMAIN y = DOMAIN w
  BY <1>3 DEF Released, Worlds
<1> HIDE DEF y
<1>5. Closed(w) = [y EXCEPT !.state = "closed", !.idleCheck = None, !.capture = NoCapture]
  BY Zenon DEF Closed, y, x, u
<1> QED
  BY <1>2, <1>4, <1>5 DEF Worlds

LEMMA ClosedNeat ==
  ASSUME NEW q, NEW w, Neat(w, {}, q)
  PROVE  Neat(Closed(w), {}, FALSE)
<1> DEFINE v == Closed(w)
<1>1. w \in Worlds /\ w.disk.tasks = w.tasks /\ w.disk.current = w.current
      /\ w.disk.attempts = w.attempts /\ w.disk.recordOf = w.recordOf
  BY DEF Neat, Ordered, Filed
<1>2. /\ v.tasks = w.tasks /\ v.rounds = w.disk.rounds /\ v.current = w.current
      /\ v.attempts = w.attempts /\ v.recordOf = w.recordOf /\ v.disk = w.disk
      /\ v.state = "closed" /\ v.capture = NoCapture /\ ~v.inFlight /\ ~v.preflightPending
  BY <1>1, ClosedFields
<1>3. v \in Worlds
  BY <1>1, ClosedType
<1> HIDE DEF v
<1>4. Halted(v)
  BY <1>2 DEF Halted
<1>5. Passes(v)
  <2>1. RunningIsCurrent(v) /\ CountedIsComplete(v)
    BY <1>2 DEF Neat, Ordered, Filed, SameRounds, Passes, RunningIsCurrent,
       CountedIsComplete, Open, Counted
  <2> QED
    BY <1>2, <2>1 DEF Neat, Ordered, Passes, BegunTogether, CurrentIsBegun, SentIsCurrent, InPass
<1>6. Flight(v)
  BY <1>2, <1>4 DEF Flight, NoCapture
<1>7. Steady(v, {}, FALSE)
  BY <1>2 DEF Steady
<1>8. Filed(v)
  BY <1>1, <1>2, <1>4 DEF Neat, Filed, SameRounds
<1> QED
  BY <1>3, <1>5, <1>6, <1>7, <1>8 DEF Neat, Ordered, v

-----------------------------------------------------------------------------
(* The inductive invariant: the world is in order, and stays so for a check of "Retry
   failed rows" that is out.                                                        *)
Asking == \E c \in 1 .. MaxChecks : checks[c].retry # 0
OrderInv == IInv /\ Neat(World, {}, FALSE) /\ (Asking => Neat(World, {}, TRUE))

LEMMA AskedNeat ==
  ASSUME NEW w, Neat(w, {}, FALSE), w.state # "closed", w.state = "interrupted" => ~InPass(w)
  PROVE  Neat(w, {}, TRUE)
BY DEF Neat, Ordered, Steady

LEMMA AskedSteady ==
  ASSUME NEW w, Neat(w, {}, TRUE)
  PROVE  w.state # "closed" /\ (w.state = "interrupted" => ~InPass(w))
BY DEF Neat, Ordered, Steady

LEMMA InitOrder == Init => OrderInv
<1> SUFFICES ASSUME Init PROVE OrderInv
  OBVIOUS
<1>1. IInv /\ World \in Worlds
  BY InitIInv DEF IInv, Good, Sound
<1>2. ~Asking
  BY DEF Init, NoCheck, Asking
<1>3. /\ World.state = "idle" /\ World.current = 0 /\ World.inFlight = FALSE
      /\ World.rounds = [i \in Rounds |-> "none"] /\ World.tasks = [t \in Keys |-> "none"]
      /\ World.attempts = World.disk.attempts /\ World.recordOf = World.disk.recordOf
      /\ World.disk = NoSession /\ World.capture = NoCapture
      /\ World.preflightPending = FALSE
  BY DEF Init, World, NoSession
<1>4. \A i \in Rounds : i # 0 /\ \A k \in Rows : <<i, k>> \in Keys
  BY DEF Rounds, Keys
<1>5. Passes(World)
  BY <1>3, <1>4 DEF Passes, RunningIsCurrent, CountedIsComplete, BegunTogether,
     CurrentIsBegun, SentIsCurrent, Counted, InPass
<1>6. Flight(World) /\ Steady(World, {}, FALSE)
  BY <1>3 DEF Flight, Steady, NoCapture, InPass, Halted
<1>7. Filed(World)
  BY <1>3 DEF Filed, NoSession, SameRounds
<1> QED
  BY <1>1, <1>2, <1>5, <1>6, <1>7 DEF OrderInv, Neat, Ordered

-----------------------------------------------------------------------------
(* One event: what its handler keeps of any world, the invariant keeps. *)
LEMMA Carried ==
  ASSUME OrderInv, IInv', NEW w, Become(w), Asking' => Asking,
         \A q \in BOOLEAN : Neat(World, {}, q) => Neat(w, {}, q)
  PROVE  OrderInv'
<1>1. Neat(w, {}, FALSE) /\ (Asking => Neat(w, {}, TRUE))
  BY DEF OrderInv
<1>2. World' = w
  BY <1>1 DEF Become, World, Worlds, Neat, Ordered
<1> QED
  BY <1>1, <1>2 DEF OrderInv

LEMMA Unasked ==
  ASSUME UNCHANGED checks
  PROVE  Asking' => Asking
BY DEF Asking

LEMMA WorkersKeepOrder ==
  ASSUME OrderInv, IInv', NEW gate, NEW elapsed \in BOOLEAN, NEW idle \in BOOLEAN,
         NEW blocking \in BOOLEAN, NEW answer \in AllAnswers,
         \/ TimerTick(gate, elapsed)
         \/ PreflightAnswered(blocking, gate)
         \/ StorageSettleAnswered(gate)
         \/ IdleCheckAnswered(idle, answer, gate)
         \/ CaptureFinished(gate)
  PROVE  OrderInv'
<1>0. Asking' => Asking
  BY Unasked DEF TimerTick, PreflightAnswered, StorageSettleAnswered, IdleCheckAnswered,
     CaptureFinished
<1>1. CASE TimerTick(gate, elapsed)
  <2>1. \A q \in BOOLEAN : Neat(World, {}, q) => Neat(Tick(World, gate, elapsed), {}, q)
    BY TickNeat
  <2> QED
    BY <1>0, <1>1, <2>1, Carried DEF TimerTick
<1>2. CASE PreflightAnswered(blocking, gate)
  <2>1. World.preflightPending
    BY <1>2 DEF PreflightAnswered, World
  <2>2. \A q \in BOOLEAN : Neat(World, {}, q) => Neat(OnPreflight(World, blocking, gate), {}, q)
    BY <2>1, OnPreflightNeat
  <2> QED
    BY <1>0, <1>2, <2>2, Carried DEF PreflightAnswered
<1>3. CASE StorageSettleAnswered(gate)
  <2>1. \A q \in BOOLEAN : Neat(World, {}, q) => Neat(OnStorageSettled(World, gate), {}, q)
    BY OnStorageSettledNeat
  <2> QED
    BY <1>0, <1>3, <2>1, Carried DEF StorageSettleAnswered
<1>4. CASE IdleCheckAnswered(idle, answer, gate)
  <2>1. World.idleCheck # None
    BY <1>4 DEF IdleCheckAnswered, World
  <2>2. \A q \in BOOLEAN :
          Neat(World, {}, q) => Neat(OnIdleResult(World, idle, answer, gate), {}, q)
    BY <2>1, OnIdleResultNeat
  <2> QED
    BY <1>0, <1>4, <2>2, Carried DEF IdleCheckAnswered
<1>5. CASE CaptureFinished(gate)
  <2>1. World.capture.phase = "reported"
    BY <1>5 DEF CaptureFinished, World
  <2>2. \A q \in BOOLEAN : Neat(World, {}, q) => Neat(OnCaptureFinished(World, gate), {}, q)
    BY <2>1, OnCaptureFinishedNeat
  <2> QED
    BY <1>0, <1>5, <2>2, Carried DEF CaptureFinished
<1> QED
  BY <1>1, <1>2, <1>3, <1>4, <1>5

LEMMA SensorKeepsOrder ==
  ASSUME OrderInv, IInv', NEW outcome, NEW file \in BOOLEAN,
         RequestReaches \/ CaptureReports(outcome, file)
  PROVE  OrderInv'
<1>1. /\ capture \in CaptureType /\ World \in Worlds /\ World' \in Worlds
  BY DEF OrderInv, IInv, Good, Sound, World, Worlds
<1>2. /\ UNCHANGED <<session, attributes, history, disk, checks, owned, manual, clock,
                     posts, crashes, permits, checked>>
      /\ capture.phase \in {"sent", "reached"}
      /\ capture' = [capture EXCEPT !.phase = "reached"]
           \/ capture' = [capture EXCEPT !.phase = "reported", !.outcome = outcome]
  BY DEF RequestReaches, CaptureReports
<1>3. capture'.key = capture.key /\ capture'.phase # "idle" /\ capture.phase # "idle"
  BY <1>1, <1>2 DEF CaptureType
<1>4. /\ World'.tasks = World.tasks /\ World'.rounds = World.rounds
      /\ World'.current = World.current /\ World'.inFlight = World.inFlight
      /\ World'.state = World.state /\ World'.preflightPending = World.preflightPending
      /\ World'.downloadsOnly = World.downloadsOnly /\ World'.disk = World.disk
      /\ World'.attempts = World.attempts /\ World'.recordOf = World.recordOf
      /\ World'.capture = capture' /\ World.capture = capture
  BY <1>2 DEF World, session, attributes
<1>5. ASSUME NEW q \in BOOLEAN, Neat(World, {}, q) PROVE Neat(World', {}, q)
  <2> DEFINE v == World'
             w == World
  <2>0. /\ v.tasks = w.tasks /\ v.rounds = w.rounds /\ v.current = w.current
        /\ v.inFlight = w.inFlight /\ v.state = w.state
        /\ v.preflightPending = w.preflightPending /\ v.downloadsOnly = w.downloadsOnly
        /\ v.disk = w.disk /\ v.attempts = w.attempts /\ v.recordOf = w.recordOf
        /\ v.capture.key = w.capture.key /\ v.capture.phase # "idle"
        /\ w.capture.phase # "idle" /\ Neat(w, {}, q) /\ v \in Worlds
    BY <1>1, <1>3, <1>4, <1>5
  <2> HIDE DEF v, w
  <2>1. Passes(v)
    BY <2>0 DEF Neat, Ordered, Passes, RunningIsCurrent, CountedIsComplete, BegunTogether,
       CurrentIsBegun, SentIsCurrent, InPass
  <2>2. Flight(v)
    BY <2>0 DEF Neat, Ordered, Flight, InPass, Halted
  <2>3. Steady(v, {}, q)
    BY <2>0 DEF Neat, Ordered, Steady, InPass, Halted
  <2>4. Filed(v)
    BY <2>0 DEF Neat, Filed, SameRounds, Halted
  <2>5. Neat(v, {}, q)
    BY <2>0, <2>1, <2>2, <2>3, <2>4 DEF Neat, Ordered
  <2> QED
    BY <2>5 DEF v
<1>6. Asking' => Asking
  BY <1>2, Unasked
<1> QED
  BY <1>5, <1>6 DEF OrderInv

LEMMA OperatorKeepsOrder ==
  ASSUME OrderInv, IInv', NEW gate, NEW elapsed \in BOOLEAN,
         Start(gate, elapsed) \/ ResumeCommand(gate, elapsed) \/ PauseCommand \/ StopCommand
  PROVE  OrderInv'
<1>0. Asking' => Asking
  BY Unasked DEF Start, ResumeCommand, PauseCommand, StopCommand
<1>1. World.state = state /\ World \in Worlds
  BY DEF OrderInv, Neat, Ordered, World
<1>2. CASE Start(gate, elapsed)
  <2>1. World.state = "idle"
    BY <1>1, <1>2 DEF Start
  <2>2. \A q \in BOOLEAN :
          Neat(World, {}, q) => Neat(StartSession(World, gate, elapsed), {}, q)
    BY <2>1, StartSessionNeat
  <2> QED
    BY <1>0, <1>2, <2>2, Carried DEF Start
<1>3. CASE ResumeCommand(gate, elapsed)
  <2>1. World.state \in Going
    BY <1>1, <1>3 DEF ResumeCommand, Going, States
  <2>2. \A q \in BOOLEAN : Neat(World, {}, q) => Neat(Resume(World, gate, elapsed), {}, q)
    BY <2>1, ResumeNeat
  <2> QED
    BY <1>0, <1>3, <2>2, Carried DEF ResumeCommand
<1>4. CASE PauseCommand
  <2>1. World.state \in Going
    BY <1>1, <1>4 DEF PauseCommand, Going, States
  <2>2. \A q \in BOOLEAN : Neat(World, {}, q) => Neat(Pause(World), {}, q)
    BY <2>1, PauseNeat
  <2> QED
    BY <1>0, <1>4, <2>2, Carried DEF PauseCommand
<1>5. CASE StopCommand
  <2>1. World.state \in Going
    BY <1>1, <1>5 DEF StopCommand, Active, Worlds, Going
  <2>2. \A q \in BOOLEAN : Neat(World, {}, q) => Neat(Stop(World), {}, q)
    BY <2>1, PauseNeat
  <2> QED
    BY <1>0, <1>5, <2>2, Carried DEF StopCommand
<1> QED
  BY <1>2, <1>3, <1>4, <1>5

(* "Retry failed rows" that is carried out, at once or when its file check ended. *)
LEMMA RetriedKeepsOrder ==
  ASSUME OrderInv, IInv', NEW w, Neat(w, {}, FALSE), Asking => Neat(w, {}, TRUE),
         w.state # "closed", w.state = "interrupted" => ~InPass(w), Asking' => Asking,
         NEW i \in Rounds, NEW gate, NEW elapsed, Retried(w, i, gate, elapsed)
  PROVE  OrderInv'
<1> DEFINE v == Retry(w, i, gate, elapsed)
<1>1. Neat(v, {}, FALSE) /\ (Asking => Neat(v, {}, TRUE))
  BY RetryNeat
<1>2. World' = v
  BY <1>1 DEF Retried, Become, World, Worlds, Neat, Ordered
<1> QED
  BY <1>1, <1>2 DEF OrderInv

LEMMA AfterCheckKeepsOrder ==
  ASSUME OrderInv, IInv', NEW w, Neat(w, {}, FALSE), Asking => Neat(w, {}, TRUE),
         NEW c \in 1 .. MaxChecks, Asking' => Asking, NEW gate, NEW elapsed,
         AfterCheck(checks[c], w, gate, elapsed)
  PROVE  OrderInv'
<1>1. CASE checks[c].retry = 0
  <2>1. World' = w
    BY <1>1 DEF AfterCheck, Become, World, Worlds, Neat, Ordered
  <2> QED
    BY <2>1 DEF OrderInv
<1>2. CASE checks[c].retry # 0
  <2>1. Neat(w, {}, TRUE)
    BY <1>2 DEF Asking
  <2>2. w.state # "closed" /\ (w.state = "interrupted" => ~InPass(w))
    BY <2>1, AskedSteady
  <2>3. checks[c].retry \in Rounds
    BY <1>2, SizeAssumption DEF OrderInv, IInv, Surroundings, CheckType, Rounds
  <2>4. Retried(w, checks[c].retry, gate, elapsed)
    BY <1>2 DEF AfterCheck
  <2> QED
    BY <2>2, <2>3, <2>4, RetriedKeepsOrder
<1> QED
  BY <1>1, <1>2

LEMMA ChecksKeepOrder ==
  ASSUME OrderInv, IInv', NEW c \in 1 .. MaxChecks, NEW idle \in BOOLEAN, NEW gate,
         NEW elapsed \in BOOLEAN, NEW answer \in Confirmed \cup {"failed"},
         MissionListRead(c, idle, gate, elapsed) \/ FilesListed(c, answer, gate, elapsed)
  PROVE  OrderInv'
<1>1. checks \in [1 .. MaxChecks -> CheckType]
  BY DEF OrderInv, IInv, Surroundings
<1>2. Clear(c) => (Asking' => Asking)
  BY <1>1 DEF Clear, Asking, NoCheck
<1>3. CASE MissionListRead(c, idle, gate, elapsed)
  <2> DEFINE wanted == {<<t, recordOf[t]>> : t \in UncertainKeys(World)}
  <2>1. CASE idle /\ wanted # {}
    <3>1. checks' = [checks EXCEPT ![c].phase = "files", ![c].wanted = wanted] /\ Become(World)
      BY <1>3, <2>1 DEF MissionListRead
    <3> HIDE DEF wanted
    <3>2. Asking' => Asking
      BY <1>1, <3>1 DEF Asking, CheckType
    <3> QED
      BY <3>1, <3>2, Carried
  <2>2. CASE ~(idle /\ wanted # {})
    <3>1. Clear(c) /\ AfterCheck(checks[c], World, gate, elapsed)
      BY <1>3, <2>2 DEF MissionListRead
    <3> QED
      BY <1>2, <3>1, AfterCheckKeepsOrder DEF OrderInv
  <2> QED
    BY <2>1, <2>2
<1>4. CASE FilesListed(c, answer, gate, elapsed)
  <2> DEFINE w == IF answer = "failed" THEN World
                  ELSE OnFilesChecked(World, checks[c].wanted, answer)
  <2>1. \A q \in BOOLEAN : Neat(World, {}, q) => Neat(w, {}, q)
    BY OnFilesCheckedNeat DEF Neat
  <2>2. Clear(c) /\ AfterCheck(checks[c], w, gate, elapsed)
    BY <1>4 DEF FilesListed
  <2> HIDE DEF w
  <2>3. Neat(w, {}, FALSE) /\ (Asking => Neat(w, {}, TRUE))
    BY <2>1 DEF OrderInv
  <2> QED
    BY <1>2, <2>2, <2>3, AfterCheckKeepsOrder
<1> QED
  BY <1>3, <1>4

LEMMA RecoveryKeepsOrder ==
  ASSUME OrderInv, IInv', NEW gate, NEW elapsed \in BOOLEAN, NEW i \in Rounds,
         \/ CheckWithSensor
         \/ RetryFailed(gate, elapsed)
         \/ SkipUncertainCommand
         \/ ContinueCommand(gate, elapsed)
         \/ RunMissedCommand(i, gate, elapsed)
         \/ SkipMissedCommand(i)
  PROVE  OrderInv'
<1>1. /\ World \in Worlds /\ World.state = state /\ World.rounds = rounds
      /\ World.downloadsOnly = downloadsOnly /\ checks \in [1 .. MaxChecks -> CheckType]
  BY DEF OrderInv, Neat, Ordered, World, IInv, Surroundings
<1>2. CASE CheckWithSensor
  <2>1. BeginCheck(0) /\ Become(World)
    BY <1>2 DEF CheckWithSensor
  <2>2. Asking' => Asking
    BY <1>1, <2>1 DEF BeginCheck, Asking, NoCheck
  <2> QED
    BY <2>1, <2>2, Carried
<1>3. CASE RetryFailed(gate, elapsed)
  <2> DEFINE k == LastRound(World)
  <2>1. k \in Rounds /\ state # "closed" /\ ~InPass(World)
    BY <1>1, <1>3, LastRoundType DEF RetryFailed, Up
  <2>2. CASE \E t \in UncertainKeys(World) : t[1] = k
    <3>1. Become(World)
      BY <1>3, <2>2 DEF RetryFailed
    <3>2. World' = World
      BY <3>1 DEF Become, World
    <3>3. Neat(World, {}, TRUE)
      BY <1>1, <2>1, AskedNeat DEF OrderInv
    <3> QED
      BY <3>2, <3>3 DEF OrderInv
  <2>3. CASE ~ \E t \in UncertainKeys(World) : t[1] = k
    <3>1. Retried(World, k, gate, elapsed) /\ UNCHANGED checks
      BY <1>3, <2>3 DEF RetryFailed
    <3> HIDE DEF k
    <3> QED
      BY <1>1, <2>1, <3>1, Unasked, RetriedKeepsOrder DEF OrderInv
  <2> QED
    BY <2>2, <2>3
<1>4. CASE SkipUncertainCommand
  <2>1. \A q \in BOOLEAN : Neat(World, {}, q) => Neat(SkipUncertain(World), {}, q)
    BY SkipUncertainNeat
  <2> QED
    BY <1>4, <2>1, Unasked, Carried DEF SkipUncertainCommand
<1>5. CASE ContinueCommand(gate, elapsed)
  <2> DEFINE v == [World EXCEPT !.checked = FALSE]
  <2>1. /\ v \in Worlds /\ v.tasks = World.tasks /\ v.rounds = World.rounds
        /\ v.current = World.current /\ v.capture = World.capture
        /\ v.inFlight = World.inFlight /\ v.downloadsOnly = World.downloadsOnly
        /\ v.preflightPending = World.preflightPending /\ v.state = World.state
        /\ v.disk = World.disk /\ v.attempts = World.attempts /\ v.recordOf = World.recordOf
    BY <1>1 DEF Worlds
  <2>2. Become(Continue(v, gate, elapsed)) /\ UNCHANGED checks
    BY <1>5 DEF ContinueCommand
  <2> HIDE DEF v
  <2>3. v.state = "interrupted" /\ (v.downloadsOnly \/ UncertainKeys(v) = {})
    BY <1>1, <1>5, <2>1 DEF ContinueCommand, CanContinue, UncertainKeys
  <2>4. \A q \in BOOLEAN : Neat(World, {}, q) => Neat(v, {}, q)
    BY <2>1, Aside DEF Neat
  <2>5. \A q \in BOOLEAN : Neat(World, {}, q) => Neat(Continue(v, gate, elapsed), {}, q)
    BY <2>3, <2>4, ContinueNeat
  <2> QED
    BY <2>2, <2>5, Unasked, Carried
<1>6. CASE RunMissedCommand(i, gate, elapsed)
  <2>1. /\ World.rounds[i] = "missed" /\ World.state # "closed"
        /\ World.state = "interrupted" => World.downloadsOnly \/ UncertainKeys(World) = {}
        /\ UNCHANGED checks /\ Become(RunMissed(World, i, gate, elapsed))
    BY <1>1, <1>6 DEF RunMissedCommand, Command, Up
  <2>2. \A q \in BOOLEAN :
          Neat(World, {}, q) => Neat(RunMissed(World, i, gate, elapsed), {}, q)
    BY <2>1, RunMissedNeat
  <2> QED
    BY <2>1, <2>2, Unasked, Carried
<1>7. CASE SkipMissedCommand(i)
  <2>1. World.rounds[i] = "missed" /\ UNCHANGED checks /\ Become(SkipMissed(World, i))
    BY <1>1, <1>7 DEF SkipMissedCommand
  <2>2. \A q \in BOOLEAN : Neat(World, {}, q) => Neat(SkipMissed(World, i), {}, q)
    BY <2>1, SkipMissedNeat
  <2> QED
    BY <2>1, <2>2, Unasked, Carried
<1> QED
  BY <1>2, <1>3, <1>4, <1>5, <1>6, <1>7

LEMMA EndKeepsOrder ==
  ASSUME OrderInv, IInv', NEW arrives \in BOOLEAN, NEW file \in BOOLEAN,
         Close(arrives, file) \/ CrashInSubmit(arrives, file)
  PROVE  OrderInv'
<1>1. World \in Worlds /\ Neat(World, {}, FALSE)
  BY DEF OrderInv, Neat, Ordered
<1>2. ~Asking'
  <2>1. Ended
    BY DEF Close, CrashInSubmit
  <2> QED
    BY <2>1 DEF Ended, NoCheck, Asking
<1>3. CASE Close(arrives, file)
  <2>1. Neat(Closed(World), {}, FALSE) /\ Become(Closed(World))
    BY <1>1, <1>3, ClosedNeat DEF Close
  <2>2. World' = Closed(World)
    BY <2>1 DEF Become, World, Worlds, Neat, Ordered
  <2> QED
    BY <1>2, <2>1, <2>2 DEF OrderInv
<1>4. CASE CrashInSubmit(arrives, file)
  <2> DEFINE k == idleCheck
             more == [World.posts EXCEPT ![k] = @ + 1]
             w == [World EXCEPT !.posts = more]
  <2>1. k \in Keys /\ Become(Closed([World EXCEPT !.posts[k] = @ + 1]))
    BY <1>1, <1>4 DEF CrashInSubmit, World, Worlds
  <2>2. more \in [Keys -> Nat] /\ [World EXCEPT !.posts[k] = @ + 1] = w
    BY <1>1, <2>1 DEF Worlds
  <2> HIDE DEF more, k
  <2>3. /\ w \in Worlds /\ w.tasks = World.tasks /\ w.rounds = World.rounds
        /\ w.current = World.current /\ w.capture = World.capture
        /\ w.inFlight = World.inFlight /\ w.downloadsOnly = World.downloadsOnly
        /\ w.preflightPending = World.preflightPending /\ w.state = World.state
        /\ w.disk = World.disk /\ w.attempts = World.attempts /\ w.recordOf = World.recordOf
    BY <1>1, <2>2 DEF Worlds
  <2> HIDE DEF w
  <2>4. Neat(w, {}, FALSE)
    BY <1>1, <2>3, Aside DEF Neat
  <2>5. Neat(Closed(w), {}, FALSE) /\ Become(Closed(w))
    BY <2>1, <2>2, <2>4, ClosedNeat
  <2>6. World' = Closed(w)
    BY <2>5 DEF Become, World, Worlds, Neat, Ordered
  <2> QED
    BY <1>2, <2>5, <2>6 DEF OrderInv
<1> QED
  BY <1>3, <1>4

LEMMA RestartKeepsOrder ==
  ASSUME OrderInv, IInv', NEW unfinished \in BOOLEAN, Restart(unfinished)
  PROVE  OrderInv'
<1>1. World.state = "closed" /\ Become(Loaded(World, unfinished)) /\ UNCHANGED checks
  BY DEF Restart, World
<1>2. ~Asking
  BY <1>1, AskedSteady DEF OrderInv
<1>3. Neat(Loaded(World, unfinished), {}, FALSE)
  BY <1>1, LoadedNeat DEF OrderInv
<1>4. World' = Loaded(World, unfinished)
  BY <1>1, <1>3 DEF Become, World, Worlds, Neat, Ordered
<1> QED
  BY <1>1, <1>2, <1>3, <1>4, Unasked DEF OrderInv

-----------------------------------------------------------------------------
LEMMA NextKeepsOrder == OrderInv /\ [Next]_vars => OrderInv'
<1> SUFFICES ASSUME OrderInv, [Next]_vars PROVE OrderInv'
  OBVIOUS
<1>0. IInv'
  BY NextKeeps DEF OrderInv
<1>1. Answers \subseteq AllAnswers /\ 1 \in Rounds
  BY ChoiceAssumption, SizeAssumption DEF Rounds
<1>2. ASSUME NEW gate \in Gates, NEW elapsed \in BOOLEAN, TimerTick(gate, elapsed)
      PROVE  OrderInv'
  BY <1>0, <1>2, WorkersKeepOrder DEF AllAnswers
<1>3. ASSUME NEW gate \in Gates, NEW blocking \in BOOLEAN, PreflightAnswered(blocking, gate)
      PROVE  OrderInv'
  BY <1>0, <1>3, WorkersKeepOrder DEF AllAnswers
<1>4. ASSUME NEW gate \in Gates, StorageSettleAnswered(gate) \/ CaptureFinished(gate)
      PROVE  OrderInv'
  BY <1>0, <1>4, WorkersKeepOrder DEF AllAnswers
<1>5. ASSUME NEW gate \in Gates, NEW idle \in BOOLEAN, NEW answer \in Answers,
             IdleCheckAnswered(idle, answer, gate)
      PROVE  OrderInv'
  BY <1>0, <1>1, <1>5, WorkersKeepOrder
<1>6. ASSUME NEW gate \in Gates, NEW elapsed \in BOOLEAN, NEW c \in 1 .. MaxChecks,
             NEW idle \in BOOLEAN, MissionListRead(c, idle, gate, elapsed)
      PROVE  OrderInv'
  BY <1>0, <1>6, ChecksKeepOrder
<1>7. ASSUME NEW gate \in Gates, NEW elapsed \in BOOLEAN, NEW c \in 1 .. MaxChecks,
             NEW answer \in (Outcomes \cap Confirmed) \cup {"failed"},
             FilesListed(c, answer, gate, elapsed)
      PROVE  OrderInv'
  BY <1>0, <1>7, ChecksKeepOrder
<1>8. ASSUME NEW gate \in Gates, NEW elapsed \in BOOLEAN,
             Start(gate, elapsed) \/ ResumeCommand(gate, elapsed)
      PROVE  OrderInv'
  BY <1>0, <1>8, OperatorKeepsOrder
<1>9. PauseCommand \/ StopCommand => OrderInv'
  BY <1>0, OperatorKeepsOrder
<1>10. ASSUME NEW gate \in Gates, NEW elapsed \in BOOLEAN,
              RetryFailed(gate, elapsed) \/ ContinueCommand(gate, elapsed)
       PROVE  OrderInv'
  BY <1>0, <1>1, <1>10, RecoveryKeepsOrder
<1>11. ASSUME NEW gate \in Gates, NEW elapsed \in BOOLEAN, NEW i \in Rounds,
              RunMissedCommand(i, gate, elapsed)
       PROVE  OrderInv'
  BY <1>0, <1>11, RecoveryKeepsOrder
<1>12. CheckWithSensor \/ SkipUncertainCommand => OrderInv'
  BY <1>0, <1>1, RecoveryKeepsOrder
<1>13. ASSUME NEW i \in Rounds, SkipMissedCommand(i) PROVE OrderInv'
  BY <1>0, <1>13, RecoveryKeepsOrder
<1>14. ASSUME RequestReaches PROVE OrderInv'
  BY <1>0, <1>14, SensorKeepsOrder
<1>15. ASSUME NEW outcome \in Outcomes, NEW file \in BOOLEAN, CaptureReports(outcome, file)
       PROVE  OrderInv'
  BY <1>0, <1>15, SensorKeepsOrder
<1>16. ASSUME NEW arrives \in BOOLEAN, NEW file \in BOOLEAN,
              Close(arrives, file) \/ CrashInSubmit(arrives, file)
       PROVE  OrderInv'
  BY <1>0, <1>16, EndKeepsOrder
<1>17. ASSUME NEW unfinished \in BOOLEAN, Restart(unfinished) PROVE OrderInv'
  BY <1>0, <1>17, RestartKeepsOrder
<1>18. ASSUME NEW i \in Rounds, ManualRecording \/ TimePasses(i) PROVE OrderInv'
  <2>1. Become(World) /\ UNCHANGED checks
    BY <1>18 DEF ManualRecording, TimePasses
  <2> QED
    BY <1>0, <2>1, Unasked, Carried
<1>19. CASE UNCHANGED vars
  <2>1. World' = World /\ (Asking' => Asking)
    BY <1>19, Unasked DEF vars, World
  <2> QED
    BY <1>0, <2>1 DEF OrderInv
<1>20. Terminating => UNCHANGED vars
  BY DEF Terminating
<1> QED
  BY <1>1, <1>2, <1>3, <1>4, <1>5, <1>6, <1>7, <1>8, <1>9, <1>10, <1>11, <1>12, <1>13, <1>14,
     <1>15, <1>16, <1>17, <1>18, <1>19, <1>20 DEF Next

(* Passes are marked, closed and taken up again right, however many there are, whatever
   the operator retries, skips or runs late, and wherever the application ends: one pass
   runs at most, it is the one the session names as current, and a pass counted as done,
   partial or failed has an outcome for every row.                                      *)
THEOREM PassesInOrder == Spec => []PassesAreInOrder
<1>1. Init => OrderInv
  BY InitOrder
<1>2. OrderInv /\ [Next]_vars => OrderInv'
  BY NextKeepsOrder
<1>3. OrderInv => PassesAreInOrder
  <2> SUFFICES ASSUME OrderInv PROVE PassesAreInOrder
    OBVIOUS
  <2>1. /\ World.rounds = rounds /\ World.tasks = tasks /\ World.current = current
        /\ Passes(World)
    BY DEF OrderInv, Neat, Ordered, World
  <2>2. OneRunningPass
    BY <2>1 DEF Passes, RunningIsCurrent, OneRunningPass
  <2>3. FinishedPassIsComplete
    BY <2>1 DEF Passes, CountedIsComplete, Counted, Unsettled, FinishedPassIsComplete
  <2> QED
    BY <2>2, <2>3 DEF PassesAreInOrder
<1> QED
  BY <1>1, <1>2, <1>3, PTL DEF Spec

(* Every handler saves what it changed before it gives up the thread: between any two
   events the session file has the rows, their attempts and recordings and the running
   pass as they are, tells a finished collection from an interrupted one, and is behind
   at most on how a waiting pass is classified.  It is what a restart begins with.      *)
THEOREM SessionFileCurrent == Spec => []SessionFileIsCurrent
<1>1. Init => OrderInv
  BY InitOrder
<1>2. OrderInv /\ [Next]_vars => OrderInv'
  BY NextKeepsOrder
<1>3. OrderInv => SessionFileIsCurrent
  <2> SUFFICES ASSUME OrderInv PROVE SessionFileIsCurrent
    OBVIOUS
  <2>1. /\ World.rounds = rounds /\ World.tasks = tasks /\ World.current = current
        /\ World.attempts = attempts /\ World.recordOf = recordOf /\ World.disk = disk
        /\ World.state = state /\ Filed(World)
    BY DEF OrderInv, Neat, World
  <2> QED
    BY <2>1 DEF Filed, SameRounds, Halted, SessionFileIsCurrent, Up
<1> QED
  BY <1>1, <1>2, <1>3, PTL DEF Spec
=============================================================================
