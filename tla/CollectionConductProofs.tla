----------------------- MODULE CollectionConductProofs -----------------------
(***************************************************************************)
(* What the collection does at the sensor and for its operator, for every  *)
(* number of passes, rows, restarts and file checks:                       *)
(*                                                                         *)
(*   SensorHeld         it records only on a sensor it has reserved;       *)
(*   SessionFileTrue    the session file names the row of a request that   *)
(*                      is out;                                            *)
(*   NothingUnbidden    after Pause, Stop or the end of the application    *)
(*                      nothing is sent until the operator says so;        *)
(*   PassesChecked      nothing is sent before the check of its pass, and  *)
(*                      a pass slept over waits for the operator;          *)
(*   RepeatKept         no more passes begin than were asked for;          *)
(*   FilesFound         a row called without a file has no recording;      *)
(*   RetrySafe          a recorded row is not sent again, and a retry      *)
(*                      sends the rows it was asked for and no other.      *)
(*                                                                         *)
(* Who sends, and when, is decided by an answer that was asked for in an   *)
(* earlier state.  Conduct says of every world which answers may be out    *)
(* and what they are still good for.  The last three need besides how the  *)
(* passes are counted (Tally) and what is known of the recordings that     *)
(* the sensor holds (KeptIn).                                              *)
(*                                                                         *)
(* All of them assume that the operator is Orderly.                        *)
(***************************************************************************)
EXTENDS CollectionRunnerProofs, FiniteSetTheorems

(* What the operator is taken not to do: act while a file check is under way, stop while the
   check before a pass is, retry after a restart before continuing, and both stop and retry. *)
Orderly ==
  /\ {"act_in_check", "stop_in_preflight", "retry_after_restart"} \cap Commands = {}
  /\ "stop" \notin Commands \/ "retry" \notin Commands

(* Passes that have no rows yet; states in which the collection goes on by itself; states in
   which a request can be out.                                                           *)
Vacant == Open \cup {"missed", "none", "skipped"}
Willing == {"running", "waiting", "waiting_schedule", "paused_backlog"}
Sending == {"running", "pause_requested", "stop_requested"}

(* The check of the pass is out: there is something to record, and nothing is being recorded. *)
CheckIsDue(w) == w.preflightPending => QueuedRows(w) # {} /\ ~w.inFlight /\ w.state \in Going

(* While the pass has to be checked, an idle check that is out is of another pass ... *)
IdleCheckIsStale(w) ==
  w.preflightDue \/ w.preflightPending => w.idleCheck = None \/ w.idleCheck[1] # w.current

(* ... and it is always of a row that has begun; if nothing is stopped, of one that waits. *)
IdleCheckOfRow(w) ==
  w.idleCheck # None =>
    /\ w.tasks[w.idleCheck] # "none" /\ w.state \notin {"interrupted", "closed", "idle"}
    /\ "stop" \notin Commands => w.idleCheck[1] = w.current /\ w.tasks[w.idleCheck] = "queued"

RowsOfBegun(w) ==
  /\ \A i \in Rounds : w.rounds[i] \in Vacant => \A k \in Rows : w.tasks[<<i, k>>] = "none"
  /\ w.state = "idle" => \A t \in Keys : w.tasks[t] = "none"

StatesFit(w) ==
  /\ w.inFlight => w.state \in Sending
  /\ w.state \in {"running", "waiting", "pause_requested"} => InPass(w)
  /\ w.state = "stop_requested" => "stop" \in Commands

Reserved(w) == w.state \in Going => w.owned
SentIsMarked(w) == w.inFlight => w.tasks[w.capture.key] = "submitting"

(* A pass that need not be checked any more has been checked since the application started. *)
Vouched(w) ==
  /\ Halted(w) => ~w.checked
  /\ InPass(w) /\ ~Halted(w) /\ ~w.preflightDue => w.checked

StopIsPending(w) == w.state = "stop_requested" => w.inFlight

(* Loose is what holds inside a handler too, when the capture of a stopped collection has ended. *)
Loose(w) ==
  /\ CheckIsDue(w) /\ IdleCheckIsStale(w) /\ IdleCheckOfRow(w) /\ RowsOfBegun(w)
  /\ StatesFit(w) /\ Reserved(w) /\ SentIsMarked(w) /\ Vouched(w)
Conduct(w) == Loose(w) /\ StopIsPending(w)
Fit(w) == Neat(w, {}, FALSE) /\ Conduct(w)

(* What a handler may do to a collection that goes on: it ends a collection only in writing, a
   pass that was missed or skipped stays so, it reserves nothing, and it does not take up what
   the operator halted.                                                                     *)
Goes(v) == v.state \in Going \/ (v.state = "done" /\ v.disk.rounds = v.rounds)
LeavesMissed(w, v) ==
  \A i \in Rounds : w.rounds[i] \in {"missed", "skipped"} => v.rounds[i] = w.rounds[i]
Heeds(w, v) ==
  /\ Goes(v) /\ LeavesMissed(w, v)
  /\ v.owned => w.owned
  /\ v.state \in Willing => w.state \in Willing

(* ... and sends nothing. *)
Obeys(w, v) == Heeds(w, v) /\ v.posts = w.posts

LEMMA ObeysOn ==
  ASSUME NEW w, NEW v, NEW x, Obeys(w, v), Obeys(v, x)
  PROVE  Obeys(w, x)
BY DEF Obeys, Heeds, Goes, LeavesMissed

LEMMA ObeysSelf ==
  ASSUME NEW w, w.state \in Going
  PROVE  Obeys(w, w)
BY DEF Obeys, Heeds, Goes, LeavesMissed

(* The fields Conduct speaks of, but for the passes. *)
Alike(w, v) ==
  /\ v.state = w.state /\ v.current = w.current /\ v.tasks = w.tasks
  /\ v.inFlight = w.inFlight /\ v.preflightDue = w.preflightDue
  /\ v.preflightPending = w.preflightPending /\ v.idleCheck = w.idleCheck
  /\ v.owned = w.owned /\ v.capture = w.capture /\ v.checked = w.checked
  /\ v.posts = w.posts

(* Passes without rows change among themselves. *)
Waits(a, b) == a = b \/ {a, b} \subseteq Vacant

LEMMA AlikeConduct ==
  ASSUME NEW w, NEW v, Alike(w, v), \A i \in Rounds : Waits(w.rounds[i], v.rounds[i])
  PROVE  (Loose(w) => Loose(v)) /\ (Conduct(w) => Conduct(v))
<1>1. QueuedRows(v) = QueuedRows(w) /\ InPass(v) = InPass(w) /\ Halted(v) = Halted(w)
  BY DEF Alike, QueuedRows, InPass, Halted
<1>2. CheckIsDue(w) => CheckIsDue(v)
  BY <1>1 DEF CheckIsDue, Alike
<1>3. IdleCheckIsStale(w) => IdleCheckIsStale(v)
  BY DEF IdleCheckIsStale, Alike
<1>4. IdleCheckOfRow(w) => IdleCheckOfRow(v)
  BY DEF IdleCheckOfRow, Alike
<1>5. RowsOfBegun(w) => RowsOfBegun(v)
  BY DEF RowsOfBegun, Alike, Waits
<1>6. StatesFit(w) => StatesFit(v)
  BY <1>1 DEF StatesFit, Alike
<1>7. Reserved(w) => Reserved(v)
  BY DEF Reserved, Alike
<1>8. SentIsMarked(w) => SentIsMarked(v)
  BY DEF SentIsMarked, Alike
<1>9. Vouched(w) => Vouched(v)
  BY <1>1 DEF Vouched, Alike
<1>10. StopIsPending(w) => StopIsPending(v)
  BY DEF StopIsPending, Alike
<1> QED
  BY <1>2, <1>3, <1>4, <1>5, <1>6, <1>7, <1>8, <1>9, <1>10 DEF Loose, Conduct

LEMMA SaveAlike ==
  ASSUME NEW w \in Worlds
  PROVE  /\ Alike(w, Save(w)) /\ Save(w) \in Worlds /\ Save(w).rounds = w.rounds
         /\ Save(w).disk.rounds = w.rounds /\ Save(w).downloadsOnly = w.downloadsOnly
<1>1. Session(w) \in SessionType /\ Session(w).rounds = w.rounds
  BY DEF Worlds, Session, SessionType
<1> DEFINE d == Session(w)
<1>2. Save(w) = [w EXCEPT !.disk = d]
  BY Zenon DEF Save
<1> HIDE DEF d
<1> QED
  BY <1>1, <1>2 DEF Worlds, Alike, d

LEMMA SaveConduct ==
  ASSUME NEW w \in Worlds
  PROVE  (Loose(w) => Loose(Save(w))) /\ (Conduct(w) => Conduct(Save(w)))
BY SaveAlike, AlikeConduct DEF Waits

LEMMA SaveObeys ==
  ASSUME NEW w \in Worlds, w.state \in Going
  PROVE  Obeys(w, Save(w))
BY SaveAlike DEF Obeys, Heeds, Goes, LeavesMissed, Alike

LEMMA SaveFit ==
  ASSUME NEW w, Ordered(w, {}, FALSE), Conduct(w)
  PROVE  Fit(Save(w))
BY SaveNeat, SaveConduct DEF Fit, Ordered

-----------------------------------------------------------------------------
(* Another state of a collection that goes on. *)
Suits(w, s) ==
  /\ w.inFlight => s \in Sending
  /\ s \in {"running", "waiting", "pause_requested"} => InPass(w)
  /\ s = "stop_requested" => w.inFlight /\ "stop" \in Commands

LEMMA StateConduct ==
  ASSUME NEW w, Ordered(w, {}, FALSE), Loose(w), w.state \in Going,
         NEW s \in Going, Suits(w, s)
  PROVE  LET v == [w EXCEPT !.state = s]
         IN  /\ Ordered(v, {}, FALSE) /\ Conduct(v) /\ v.state = s
             /\ v.current = w.current /\ v.inFlight = w.inFlight
             /\ v.preflightPending = w.preflightPending /\ v.tasks = w.tasks
             /\ (s \in Willing => w.state \in Willing) => Obeys(w, v)
             /\ Neat(w, {}, FALSE) => Fit(v)
<1> DEFINE v == [w EXCEPT !.state = s]
<1>1. w \in Worlds /\ ~Halted(w) /\ w.state # "done"
  BY DEF Ordered, Going, Halted
<1>2. Ordered(v, {}, FALSE) /\ (Neat(w, {}, FALSE) => Neat(v, {}, FALSE))
  BY <1>1, StateOrdered
<1>3. /\ v.state = s /\ v.current = w.current /\ v.tasks = w.tasks /\ v.rounds = w.rounds
      /\ v.inFlight = w.inFlight /\ v.preflightDue = w.preflightDue
      /\ v.preflightPending = w.preflightPending /\ v.idleCheck = w.idleCheck
      /\ v.owned = w.owned /\ v.capture = w.capture /\ v.checked = w.checked
      /\ v.posts = w.posts
  BY <1>1 DEF Worlds
<1>4. s \notin {"interrupted", "closed", "idle", "done"}
  BY DEF Going
<1> HIDE DEF v
<1>5. QueuedRows(v) = QueuedRows(w) /\ InPass(v) = InPass(w) /\ ~Halted(v)
  BY <1>3, <1>4 DEF QueuedRows, InPass, Halted
<1>6. CheckIsDue(v)
  BY <1>3, <1>5 DEF Loose, CheckIsDue
<1>7. IdleCheckIsStale(v)
  BY <1>3 DEF Loose, IdleCheckIsStale
<1>8. IdleCheckOfRow(v)
  BY <1>3, <1>4 DEF Loose, IdleCheckOfRow
<1>9. RowsOfBegun(v)
  BY <1>3, <1>4 DEF Loose, RowsOfBegun
<1>10. StatesFit(v) /\ StopIsPending(v)
  BY <1>3, <1>5 DEF StatesFit, StopIsPending, Suits
<1>11. Reserved(v)
  BY <1>3 DEF Loose, Reserved
<1>12. SentIsMarked(v)
  BY <1>3 DEF Loose, SentIsMarked
<1>13. Vouched(v)
  BY <1>1, <1>3, <1>5 DEF Loose, Vouched
<1>14. Conduct(v)
  BY <1>6, <1>7, <1>8, <1>9, <1>10, <1>11, <1>12, <1>13 DEF Conduct, Loose
<1>15. (s \in Willing => w.state \in Willing) => Obeys(w, v)
  BY <1>3 DEF Obeys, Heeds, Goes, LeavesMissed
<1> QED
  BY <1>2, <1>3, <1>14, <1>15 DEF v, Fit

LEMMA StateSaved ==
  ASSUME NEW w, Ordered(w, {}, FALSE), Loose(w), w.state \in Going,
         NEW s \in Going, Suits(w, s), s \in Willing => w.state \in Willing
  PROVE  LET v == Save([w EXCEPT !.state = s])
         IN  Fit(v) /\ Obeys(w, v) /\ v.state = s
<1> DEFINE u == [w EXCEPT !.state = s]
<1>1. Ordered(u, {}, FALSE) /\ Conduct(u) /\ Obeys(w, u) /\ u.state = s
  BY StateConduct
<1> HIDE DEF u
<1>2. u \in Worlds
  BY <1>1 DEF Ordered
<1>3. Fit(Save(u)) /\ Obeys(u, Save(u)) /\ Save(u).state = s
  BY <1>1, <1>2, SaveFit, SaveObeys, SaveAlike DEF Alike
<1>4. Obeys(w, Save(u))
  BY <1>1, <1>3, ObeysOn
<1> QED
  BY <1>3, <1>4 DEF u

LEMMA PausedNowFit ==
  ASSUME NEW w, Ordered(w, {}, FALSE), Loose(w), w.state \in Going, ~w.inFlight
  PROVE  /\ Fit(PausedNow(w)) /\ Obeys(w, PausedNow(w))
         /\ InPass(w) /\ w.state \in Willing => Fit(BeginWait(w)) /\ Obeys(w, BeginWait(w))
<1>1. /\ {"paused", "waiting"} \subseteq Going /\ Suits(w, "paused")
      /\ InPass(w) => Suits(w, "waiting")
  BY DEF Going, States, Suits
<1>2. Fit(PausedNow(w)) /\ Obeys(w, PausedNow(w))
  BY <1>1, StateSaved DEF PausedNow, Willing
<1>3. InPass(w) /\ w.state \in Willing => Fit(BeginWait(w)) /\ Obeys(w, BeginWait(w))
  BY <1>1, StateSaved DEF BeginWait
<1> QED
  BY <1>2, <1>3
-----------------------------------------------------------------------------
(* Passes that wait are classified, closed, and followed by another one. *)

LEMMA RoundsConduct ==
  ASSUME NEW w \in Worlds, NEW f, \A i \in Rounds : Waits(w.rounds[i], f[i])
  PROVE  LET v == [w EXCEPT !.rounds = f]
         IN  /\ Loose(w) => Loose(v)
             /\ Conduct(w) => Conduct(v)
             /\ Alike(w, v) /\ v.rounds = f /\ v.disk = w.disk
<1> DEFINE v == [w EXCEPT !.rounds = f]
<1>1. Alike(w, v) /\ v.rounds = f /\ v.disk = w.disk
  BY DEF Alike, Worlds
<1> HIDE DEF v
<1>2. \A i \in Rounds : Waits(w.rounds[i], v.rounds[i])
  BY <1>1
<1>3. (Loose(w) => Loose(v)) /\ (Conduct(w) => Conduct(v))
  BY <1>1, <1>2, AlikeConduct
<1> QED
  BY <1>1, <1>3 DEF v

LEMMA ClassifyConduct ==
  ASSUME NEW w \in Worlds, NEW busy, Conduct(w)
  PROVE  LET c == Classify(w, busy)
         IN  /\ Conduct(c) /\ Alike(w, c)
             /\ \A i \in Rounds : w.rounds[i] \notin Open => c.rounds[i] = w.rounds[i]
<1> DEFINE f == [i \in Rounds |-> Classified(w.rounds[i], clock[i], busy)]
<1>1. \A i \in Rounds : Waits(w.rounds[i], f[i])
  BY DEF Classified, Waits, Vacant, Open
<1>2. \A i \in Rounds : w.rounds[i] \notin Open => f[i] = w.rounds[i]
  BY DEF Classified, Open
<1>3. Classify(w, busy) = [w EXCEPT !.rounds = f]
  BY DEF Classify
<1> HIDE DEF f
<1> QED
  BY <1>1, <1>2, <1>3, RoundsConduct

LEMMA ClassifyFit ==
  ASSUME NEW w, NEW busy, Fit(w)
  PROVE  LET c == Classify(w, busy)
         IN  /\ Fit(c) /\ Alike(w, c)
             /\ w.state \in Going => Obeys(w, c)
<1> DEFINE c == Classify(w, busy)
<1>1. w \in Worlds /\ Ordered(w, {}, FALSE) /\ Neat(w, {}, FALSE) /\ Conduct(w)
  BY DEF Fit, Neat, Ordered
<1>2. /\ Conduct(c) /\ Alike(w, c)
      /\ \A i \in Rounds : w.rounds[i] \notin Open => c.rounds[i] = w.rounds[i]
  BY <1>1, ClassifyConduct
<1>3. Neat(c, {}, FALSE)
  BY <1>1, ClassifyNeat
<1> HIDE DEF c
<1>4. w.state \in Going => Obeys(w, c)
  BY <1>2 DEF Obeys, Heeds, Goes, LeavesMissed, Alike, Open
<1> QED
  BY <1>2, <1>3, <1>4 DEF Fit, c

LEMMA NextPassAlike ==
  ASSUME NEW w \in Worlds
  PROVE  /\ Alike(w, NextPassAfter(w)) /\ NextPassAfter(w) \in Worlds
         /\ \A i \in Rounds : \/ NextPassAfter(w).rounds[i] = w.rounds[i]
                              \/ w.rounds[i] = "none" /\ NextPassAfter(w).rounds[i] = "pending"
<1> DEFINE left == {i \in Rounds : w.rounds[i] = "none"}
           n == CHOOSE i \in left : \A j \in left : i <= j
           v == [w EXCEPT !.rounds[n] = "pending"]
<1>1. CASE left = {}
  <2>1. NextPassAfter(w) = w
    BY <1>1 DEF NextPassAfter
  <2> QED
    BY <2>1 DEF Alike
<1>2. CASE left # {}
  <2>1. left \in SUBSET Nat
    BY DEF Rounds
  <2>2. \E i \in left : \A j \in left : i <= j
    BY <1>2, <2>1, LeastExists
  <2>3. n \in Rounds /\ w.rounds[n] = "none"
    BY <2>2
  <2>4. NextPassAfter(w) \in {w, v}
    BY DEF NextPassAfter
  <2> HIDE DEF n
  <2>5. [w.rounds EXCEPT ![n] = "pending"] \in [Rounds -> RoundStates]
    BY <2>3 DEF Worlds, RoundStates
  <2>6. /\ v \in Worlds /\ Alike(w, v)
        /\ \A i \in Rounds : v.rounds[i] = IF i = n THEN "pending" ELSE w.rounds[i]
    BY <2>5 DEF Worlds, Alike
  <2>7. Alike(w, w)
    BY DEF Alike
  <2> HIDE DEF v
  <2> QED
    BY <2>3, <2>4, <2>6, <2>7
<1> QED
  BY <1>1, <1>2

(* A pass is closed; a stopped one may have rows that wait. *)

LEMMA FinishRoundFit ==
  ASSUME NEW w, NEW stopped \in BOOLEAN, Neat(w, {}, FALSE), Loose(w), Still(w), InPass(w),
         ~w.preflightPending, w.owned,
         IF stopped THEN "stop" \in Commands ELSE QueuedRows(w) = {}
  PROVE  LET v == FinishRound(w, stopped)
         IN  /\ Fit(v) /\ v.state = "waiting_schedule" /\ ~InPass(v)
             /\ v.posts = w.posts /\ v.owned /\ ~v.preflightPending
             /\ \A i \in Rounds : w.rounds[i] \in {"missed", "skipped"} => v.rounds[i] = w.rounds[i]
<1> DEFINE end == IF stopped THEN "stopped" ELSE Verdict(w, w.current)
           v == [w EXCEPT !.rounds[w.current] = end, !.current = 0,
                          !.state = "waiting_schedule"]
           x == IF stopped THEN v ELSE NextPassAfter(v)
<1>1. w \in Worlds /\ Ordered(w, {}, FALSE) /\ Loose(w)
  BY DEF Neat, Ordered
<1>2. w.current \in Rounds /\ w.rounds[w.current] = "running"
  BY <1>1 DEF Ordered, Passes, RunningIsCurrent, Worlds, InPass, Rounds
<1>3. end \in Counted \cup {"stopped"}
  BY VerdictCounted
<1> HIDE DEF end
<1>4. [w.rounds EXCEPT ![w.current] = end] \in [Rounds -> RoundStates]
  BY <1>1, <1>2, <1>3 DEF Worlds, RoundStates, Counted
<1>a. 0 \in 0 .. NRounds /\ "waiting_schedule" \in States
  BY SizeAssumption DEF States
<1>5. /\ v \in Worlds /\ v.state = "waiting_schedule" /\ v.current = 0 /\ v.tasks = w.tasks
      /\ v.rounds = [w.rounds EXCEPT ![w.current] = end]
      /\ v.preflightDue = w.preflightDue /\ v.idleCheck = w.idleCheck /\ v.posts = w.posts
  BY <1>1, <1>4, <1>a DEF Worlds
<1>6. ~v.inFlight /\ ~v.preflightPending /\ v.owned
  BY <1>1 DEF Worlds, Still
<1>7. \A i \in Rounds : v.rounds[i] = IF i = w.current THEN end ELSE w.rounds[i]
  BY <1>1, <1>2, <1>5 DEF Worlds
<1>8. FinishRound(w, stopped) = Save(x)
  BY DEF FinishRound, v, end
<1>9. Neat(FinishRound(w, stopped), {}, FALSE)
  <2>1. stopped \/ QueuedRows(w) = {}
    OBVIOUS
  <2>2. ASSUME NEW m, NEW q, Neat(w, m, q) PROVE Neat(FinishRound(w, stopped), m, q)
    BY <2>1, <2>2, FinishRoundNeat
  <2> QED
    BY <2>2, Zenon
<1> HIDE DEF v
<1>10. Conduct(v)
  <2>1. CheckIsDue(v)
    BY <1>6 DEF CheckIsDue
  <2>2. IdleCheckIsStale(v)
    <3>1. v.idleCheck = None \/ v.idleCheck[1] # 0
      BY <1>1, <1>5 DEF Worlds, Keys, Rounds
    <3> QED
      BY <1>5, <3>1 DEF IdleCheckIsStale
  <2>3. IdleCheckOfRow(v)
    <3>1. "stop" \notin Commands => QueuedRows(w) = {}
      OBVIOUS
    <3>2. ASSUME w.idleCheck # None, "stop" \notin Commands PROVE FALSE
      <4>1. /\ w.idleCheck \in Keys /\ w.idleCheck[1] = w.current
            /\ w.tasks[w.idleCheck] = "queued"
        BY <1>1, <3>2 DEF Loose, IdleCheckOfRow, Worlds
      <4>2. w.idleCheck = <<w.current, w.idleCheck[2]>> /\ w.idleCheck[2] \in Rows
        BY <4>1 DEF Keys
      <4>3. w.idleCheck[2] \in QueuedRows(w)
        BY <4>1, <4>2 DEF QueuedRows
      <4> QED
        BY <3>1, <3>2, <4>3
    <3> QED
      BY <1>1, <1>5, <3>2 DEF Loose, IdleCheckOfRow
  <2>4. RowsOfBegun(v)
    BY <1>1, <1>2, <1>3, <1>5, <1>7 DEF Loose, RowsOfBegun, Vacant, Open, Counted
  <2>5. StatesFit(v) /\ StopIsPending(v) /\ Reserved(v) /\ SentIsMarked(v)
    BY <1>5, <1>6 DEF StatesFit, StopIsPending, Reserved, SentIsMarked
  <2>6. Vouched(v)
    BY <1>5 DEF Vouched, InPass, Halted
  <2> QED
    BY <2>1, <2>2, <2>3, <2>4, <2>5, <2>6 DEF Conduct, Loose
<1>11. /\ Alike(v, x) /\ x \in Worlds
       /\ \A i \in Rounds : \/ x.rounds[i] = v.rounds[i]
                            \/ v.rounds[i] = "none" /\ x.rounds[i] = "pending"
  <2>1. Alike(v, v)
    BY DEF Alike
  <2> QED
    BY <1>5, <2>1, NextPassAlike
<1> HIDE DEF x
<1>12. \A i \in Rounds : Waits(v.rounds[i], x.rounds[i])
  BY <1>11 DEF Waits, Vacant, Open
<1>13. Conduct(x)
  BY <1>10, <1>11, <1>12, AlikeConduct
<1>14. Conduct(Save(x)) /\ Alike(x, Save(x)) /\ Save(x).rounds = x.rounds
  BY <1>11, <1>13, SaveConduct, SaveAlike
<1>15. /\ Save(x).state = "waiting_schedule" /\ ~InPass(Save(x)) /\ Save(x).posts = w.posts
  BY <1>5, <1>11, <1>14 DEF Alike, InPass
<1>16. Save(x).owned /\ ~Save(x).preflightPending
  BY <1>6, <1>11, <1>14, Zenon DEF Alike
<1>17. \A i \in Rounds : w.rounds[i] \in {"missed", "skipped"} => Save(x).rounds[i] = w.rounds[i]
  BY <1>2, <1>7, <1>11, <1>14
<1> QED
  BY <1>8, <1>9, <1>14, <1>15, <1>16, <1>17 DEF Fit

LEMMA FinishSessionFit ==
  ASSUME NEW w, Ordered(w, {}, FALSE), Conduct(w), ~InPass(w), w.state \in Going
  PROVE  Fit(FinishSession(w)) /\ Obeys(w, FinishSession(w)) /\ FinishSession(w).state = "done"
<1> DEFINE n == FinishSession(w)
           u == [w EXCEPT !.state = "done", !.timer = FALSE]
           v == [Save(u) EXCEPT !.owned = FALSE]
<1> SUFFICES Fit(n) /\ Obeys(w, n) /\ n.state = "done"
  OBVIOUS
<1>1. w \in Worlds /\ ~Halted(w) /\ ~w.inFlight /\ Loose(w)
  BY DEF Ordered, Flight, Going, Halted, Conduct
<1>2. /\ u \in Worlds /\ u.state = "done" /\ u.current = w.current /\ u.tasks = w.tasks
      /\ u.rounds = w.rounds /\ u.preflightDue = w.preflightDue /\ u.idleCheck = w.idleCheck
      /\ u.preflightPending = w.preflightPending /\ u.inFlight = w.inFlight
      /\ u.posts = w.posts
  BY <1>1 DEF Worlds, States
<1> HIDE DEF u
<1>3. /\ Alike(u, Save(u)) /\ Save(u) \in Worlds /\ Save(u).rounds = u.rounds
      /\ Save(u).disk.rounds = u.rounds
  BY <1>2, SaveAlike
<1>4. /\ v.state = "done" /\ v.current = w.current /\ v.tasks = w.tasks
      /\ v.rounds = w.rounds /\ v.disk.rounds = v.rounds
      /\ v.preflightDue = w.preflightDue /\ v.idleCheck = w.idleCheck
      /\ v.preflightPending = w.preflightPending /\ v.inFlight = w.inFlight
      /\ v.posts = w.posts
  BY <1>2, <1>3 DEF Worlds, Alike
<1>5. ~v.owned
  BY <1>3 DEF Worlds
<1>6. n = v
  BY DEF FinishSession, n, v, u
<1>7. Neat(n, {}, FALSE)
  <2>1. ASSUME NEW m, NEW q, Ordered(w, m, q) PROVE Neat(FinishSession(w), m, q)
    BY <1>1, <2>1, FinishSessionNeat
  <2> QED
    BY <2>1, Zenon
<1> HIDE DEF v, n
<1>8. ~w.preflightPending
  BY <1>1 DEF Loose, CheckIsDue, QueuedRows
<1>9. ~v.inFlight /\ ~v.preflightPending
  BY <1>1, <1>4, <1>8, Zenon
<1>10. ~InPass(v) /\ ~Halted(v)
  BY <1>4 DEF InPass, Halted
<1>11. Conduct(v)
  <2>1. CheckIsDue(v)
    BY <1>9 DEF CheckIsDue
  <2>2. IdleCheckIsStale(v)
    BY <1>1, <1>4, <1>8, <1>9 DEF Loose, IdleCheckIsStale
  <2>3. IdleCheckOfRow(v)
    BY <1>1, <1>4 DEF Loose, IdleCheckOfRow
  <2>4. RowsOfBegun(v)
    BY <1>1, <1>4 DEF Loose, RowsOfBegun
  <2>5. StatesFit(v) /\ StopIsPending(v) /\ Reserved(v) /\ SentIsMarked(v)
    BY <1>4, <1>9 DEF StatesFit, StopIsPending, Reserved, SentIsMarked, Going
  <2>6. Vouched(v)
    BY <1>10 DEF Vouched
  <2> QED
    BY <2>1, <2>2, <2>3, <2>4, <2>5, <2>6 DEF Conduct, Loose
<1>12. Obeys(w, v)
  BY <1>4, <1>5 DEF Obeys, Heeds, Goes, LeavesMissed, Willing
<1> QED
  BY <1>4, <1>6, <1>7, <1>11, <1>12 DEF Fit

LEMMA StoppedFit ==
  ASSUME NEW w, Neat(w, {}, FALSE), Loose(w), Still(w), w.state \in Going,
         ~w.preflightPending, "stop" \in Commands, InPass(w) \/ Conduct(w)
  PROVE  Fit(Stopped(w)) /\ Obeys(w, Stopped(w)) /\ Stopped(w).state = "done"
<1> DEFINE r == FinishRound(w, TRUE)
<1>1. w \in Worlds /\ Ordered(w, {}, FALSE) /\ w.owned
  BY DEF Neat, Ordered, Loose, Reserved
<1>2. Stopped(w) = FinishSession(r)
  BY DEF Stopped
<1>3. CASE InPass(w)
  <2>1. /\ Fit(r) /\ r.state = "waiting_schedule" /\ ~InPass(r) /\ r.posts = w.posts /\ r.owned
        /\ \A i \in Rounds : w.rounds[i] \in {"missed", "skipped"} => r.rounds[i] = w.rounds[i]
    BY <1>1, <1>3, FinishRoundFit
  <2> HIDE DEF r
  <2>2. Fit(FinishSession(r)) /\ Obeys(r, FinishSession(r)) /\ FinishSession(r).state = "done"
    BY <2>1, FinishSessionFit DEF Fit, Neat, Going, States
  <2>3. Obeys(w, FinishSession(r))
    BY <1>1, <2>1, <2>2 DEF Obeys, Heeds, Goes, LeavesMissed, Willing
  <2> QED
    BY <1>2, <2>2, <2>3
<1>4. CASE ~InPass(w)
  <2>1. r = w
    BY <1>4 DEF FinishRound
  <2> QED
    BY <1>1, <1>2, <1>4, <2>1, FinishSessionFit
<1> QED
  BY <1>3, <1>4

-----------------------------------------------------------------------------
(* From one request to the next. *)

LEMMA StartNextTaskFit ==
  ASSUME NEW w, NEW gate, Fit(w), w.state \in Sending
  PROVE  Fit(StartNextTask(w, gate)) /\ Obeys(w, StartNextTask(w, gate))
<1> DEFINE n == StartNextTask(w, gate)
<1> SUFFICES Fit(n) /\ Obeys(w, n)
  OBVIOUS
<1>1. /\ w \in Worlds /\ Ordered(w, {}, FALSE) /\ Neat(w, {}, FALSE) /\ w.state \in Going
      /\ Loose(w) /\ Conduct(w) /\ Obeys(w, w) /\ w.owned
  <2>1. w.state \in Going
    BY DEF Sending, Going, States
  <2> QED
    BY <2>1, ObeysSelf DEF Fit, Conduct, Neat, Ordered, Loose, Reserved
<1>2. Neat(n, {}, FALSE)
  <2>1. ASSUME NEW m, NEW q, Neat(w, m, q) PROVE Neat(StartNextTask(w, gate), m, q)
    BY <1>1, <2>1, StartNextTaskNeat
  <2> QED
    BY <1>1, <2>1, Zenon
<1>3. CASE w.inFlight
  <2>1. n = w
    BY <1>3 DEF StartNextTask
  <2> QED
    BY <1>1, <2>1
<1>4. CASE ~w.inFlight
  <2>1. w.state # "stop_requested"
    BY <1>1, <1>4 DEF Conduct, StopIsPending
  <2>2. CASE w.state = "pause_requested"
    <3>1. n = PausedNow(w)
      BY <1>4, <2>2 DEF StartNextTask
    <3> QED
      BY <1>1, <1>4, <3>1, PausedNowFit
  <2>3. CASE w.state = "running"
    <3>0. InPass(w)
      BY <1>1, <2>3 DEF Loose, StatesFit
    <3> DEFINE rest ==
          IF w.preflightPending THEN w
          ELSE IF w.preflightDue THEN [w EXCEPT !.preflightPending = TRUE]
          ELSE IF Backlog(gate, TRUE) THEN Save([w EXCEPT !.state = "paused_backlog"])
          ELSE IF w.idleCheck # None \/ gate = "reading" THEN w
          ELSE IF ~w.storageSettled THEN [w EXCEPT !.settlePending = TRUE]
          ELSE [w EXCEPT !.idleCheck = NextQueued(w)]
    <3>1. n = IF QueuedRows(w) = {} THEN FinishRound(w, FALSE) ELSE rest
      BY <1>4, <2>3 DEF StartNextTask
    <3>2. CASE QueuedRows(w) = {}
      <4>1. ~w.preflightPending /\ Still(w) /\ n = FinishRound(w, FALSE)
        BY <1>1, <1>4, <3>1, <3>2, StillGoing DEF Loose, CheckIsDue, Going, Halted
      <4>2. /\ Fit(n) /\ n.state = "waiting_schedule" /\ n.posts = w.posts
            /\ \A i \in Rounds : w.rounds[i] \in {"missed", "skipped"} => n.rounds[i] = w.rounds[i]
        BY <1>1, <3>0, <3>2, <4>1, FinishRoundFit
      <4>3. n.state \in Going /\ w.state \in Willing
        BY <2>3, <4>2 DEF Going, States, Willing
      <4> HIDE DEF n
      <4> QED
        BY <1>1, <4>2, <4>3 DEF Obeys, Heeds, Goes, LeavesMissed
    <3>3. CASE QueuedRows(w) # {}
      <4> DEFINE p == [w EXCEPT !.preflightPending = TRUE]
                 h == Save([w EXCEPT !.state = "paused_backlog"])
                 s == [w EXCEPT !.settlePending = TRUE]
                 c == [w EXCEPT !.idleCheck = NextQueued(w)]
      <4>1. w.preflightDue => Conduct(p) /\ Obeys(w, p)
        <5>1. /\ p.state = w.state /\ p.current = w.current /\ p.tasks = w.tasks
              /\ p.rounds = w.rounds /\ p.inFlight = w.inFlight /\ p.idleCheck = w.idleCheck
              /\ p.preflightDue = w.preflightDue /\ p.owned = w.owned /\ p.capture = w.capture
              /\ p.checked = w.checked /\ p.posts = w.posts /\ p.disk = w.disk
          BY <1>1 DEF Worlds
        <5> HIDE DEF p
        <5>2. QueuedRows(p) = QueuedRows(w) /\ InPass(p) = InPass(w) /\ Halted(p) = Halted(w)
          BY <5>1 DEF QueuedRows, InPass, Halted
        <5>3. CheckIsDue(p)
          <6>1. ~p.inFlight
            BY <1>4, <5>1, Zenon
          <6> QED
            BY <1>1, <3>3, <5>1, <5>2, <6>1 DEF CheckIsDue
        <5>4. w.preflightDue => IdleCheckIsStale(p)
          BY <1>1, <5>1 DEF Loose, IdleCheckIsStale
        <5>5. IdleCheckOfRow(p) /\ RowsOfBegun(p)
          BY <1>1, <5>1 DEF Loose, IdleCheckOfRow, RowsOfBegun
        <5>6. StatesFit(p) /\ StopIsPending(p)
          BY <1>1, <5>1, <5>2 DEF Loose, Conduct, StatesFit, StopIsPending
        <5>7. Reserved(p) /\ SentIsMarked(p)
          BY <1>1, <5>1 DEF Loose, Reserved, SentIsMarked
        <5>8. Vouched(p)
          BY <1>1, <5>1, <5>2 DEF Loose, Vouched
        <5>9. Obeys(w, p)
          BY <1>1, <5>1 DEF Obeys, Heeds, Goes, LeavesMissed
        <5> QED
          BY <5>3, <5>4, <5>5, <5>6, <5>7, <5>8, <5>9 DEF Conduct, Loose
      <4>2. Conduct(h) /\ Obeys(w, h)
        <5>1. "paused_backlog" \in Going /\ Suits(w, "paused_backlog")
          BY <1>4 DEF Going, States, Suits
        <5> QED
          BY <1>1, <2>3, <5>1, StateSaved DEF Fit, Willing
      <4>3. Conduct(s) /\ Obeys(w, s)
        <5>1. Alike(w, s) /\ s.rounds = w.rounds /\ s.disk = w.disk
          BY <1>1 DEF Worlds, Alike
        <5> HIDE DEF s
        <5>2. Conduct(s)
          BY <1>1, <5>1, AlikeConduct DEF Waits
        <5>3. Obeys(w, s)
          BY <1>1, <5>1 DEF Alike, Obeys, Heeds, Goes, LeavesMissed
        <5> QED
          BY <5>2, <5>3
      <4>4. ~w.preflightPending /\ ~w.preflightDue => Conduct(c) /\ Obeys(w, c)
        <5>0. /\ NextQueued(w) \in Keys /\ w.tasks[NextQueued(w)] = "queued"
              /\ NextQueued(w)[1] = w.current
          BY <1>1, <3>3, NextQueuedType DEF NextQueued
        <5>1. /\ c.state = w.state /\ c.current = w.current /\ c.tasks = w.tasks
              /\ c.rounds = w.rounds /\ c.inFlight = w.inFlight
              /\ c.preflightDue = w.preflightDue /\ c.preflightPending = w.preflightPending
              /\ c.owned = w.owned /\ c.capture = w.capture
              /\ c.checked = w.checked /\ c.posts = w.posts /\ c.disk = w.disk
              /\ c.idleCheck = NextQueued(w)
          BY <1>1, <5>0 DEF Worlds
        <5> HIDE DEF c
        <5>2. QueuedRows(c) = QueuedRows(w) /\ InPass(c) = InPass(w) /\ Halted(c) = Halted(w)
          BY <5>1 DEF QueuedRows, InPass, Halted
        <5>3. CheckIsDue(c)
          BY <1>1, <5>1, <5>2 DEF Loose, CheckIsDue
        <5>4. ~w.preflightPending /\ ~w.preflightDue => IdleCheckIsStale(c)
          BY <5>1 DEF IdleCheckIsStale
        <5>5. IdleCheckOfRow(c) /\ RowsOfBegun(c)
          BY <1>1, <2>3, <5>0, <5>1 DEF Loose, IdleCheckOfRow, RowsOfBegun
        <5>6. StatesFit(c) /\ StopIsPending(c)
          BY <1>1, <5>1, <5>2 DEF Loose, Conduct, StatesFit, StopIsPending
        <5>7. Reserved(c) /\ SentIsMarked(c)
          BY <1>1, <5>1 DEF Loose, Reserved, SentIsMarked
        <5>8. Vouched(c)
          BY <1>1, <5>1, <5>2 DEF Loose, Vouched
        <5>9. Obeys(w, c)
          BY <1>1, <5>1 DEF Obeys, Heeds, Goes, LeavesMissed
        <5> QED
          BY <5>3, <5>4, <5>5, <5>6, <5>7, <5>8, <5>9 DEF Conduct, Loose
      <4>5. \/ n = w
            \/ w.preflightDue /\ n = p
            \/ n = h
            \/ n = s
            \/ ~w.preflightPending /\ ~w.preflightDue /\ n = c
        BY <3>1, <3>3, Zenon
      <4> QED
        BY <1>1, <1>2, <4>1, <4>2, <4>3, <4>4, <4>5 DEF Fit
    <3> QED
      BY <3>2, <3>3
  <2> QED
    BY <2>1, <2>2, <2>3 DEF Sending
<1> QED
  BY <1>3, <1>4

LEMMA AfterTaskFit ==
  ASSUME NEW w, NEW gate, Neat(w, {}, FALSE), Loose(w), w.state \in Sending, ~w.inFlight,
         InPass(w), ~w.preflightPending
  PROVE  Fit(AfterTask(w, gate)) /\ Obeys(w, AfterTask(w, gate))
<1> DEFINE n == AfterTask(w, gate)
           v == [w EXCEPT !.state = "running"]
<1> SUFFICES Fit(n) /\ Obeys(w, n)
  OBVIOUS
<1>1. Ordered(w, {}, FALSE) /\ w.state \in Going /\ Still(w) /\ w.owned
  <2>1. w.state \in Going /\ ~Halted(w) /\ Ordered(w, {}, FALSE)
    BY DEF Sending, Going, States, Halted, Neat
  <2> QED
    BY <2>1, StillGoing DEF Loose, Reserved
<1>2. CASE w.state = "stop_requested"
  <2>1. n = Stopped(w)
    BY <1>2 DEF AfterTask
  <2>2. "stop" \in Commands
    BY <1>2 DEF Loose, StatesFit
  <2> QED
    BY <1>1, <2>1, <2>2, StoppedFit
<1>3. CASE w.state = "pause_requested"
  <2>1. n = PausedNow(w)
    BY <1>3 DEF AfterTask
  <2> QED
    BY <1>1, <2>1, PausedNowFit
<1>4. CASE w.state = "running"
  <2>1. n = IF QueuedRows(w) = {} THEN FinishRound(w, FALSE)
            ELSE IF HasWait THEN BeginWait(w) ELSE StartNextTask(v, gate)
    BY <1>4 DEF AfterTask
  <2>2. CASE QueuedRows(w) = {}
    <3>1. n = FinishRound(w, FALSE)
      BY <2>1, <2>2
    <3>2. /\ Fit(n) /\ n.state = "waiting_schedule" /\ n.posts = w.posts
          /\ \A i \in Rounds : w.rounds[i] \in {"missed", "skipped"} => n.rounds[i] = w.rounds[i]
      BY <1>1, <2>2, <3>1, FinishRoundFit
    <3>3. n.state \in Going /\ w.state \in Willing
      BY <1>4, <3>2 DEF Going, States, Willing
    <3> HIDE DEF n
    <3> QED
      BY <1>1, <3>2, <3>3 DEF Obeys, Heeds, Goes, LeavesMissed
  <2>3. Fit(BeginWait(w)) /\ Obeys(w, BeginWait(w))
    BY <1>1, <1>4, PausedNowFit DEF Willing
  <2>4. Fit(StartNextTask(v, gate)) /\ Obeys(w, StartNextTask(v, gate))
    <3>1. "running" \in Going /\ Suits(w, "running") /\ w.state \in Willing
      BY <1>4 DEF Going, States, Suits, Sending, Willing
    <3>2. Fit(v) /\ Obeys(w, v) /\ v.state = "running"
      BY <1>1, <3>1, StateConduct
    <3> HIDE DEF v
    <3>3. Fit(StartNextTask(v, gate)) /\ Obeys(v, StartNextTask(v, gate))
      BY <3>2, StartNextTaskFit DEF Sending
    <3> QED
      BY <3>2, <3>3, ObeysOn
  <2> QED
    BY <2>1, <2>2, <2>3, <2>4
<1> QED
  BY <1>2, <1>3, <1>4 DEF Sending

(* A row of the running pass gets a status; an idle check that is out was of another row. *)

LEMMA RowLoose ==
  ASSUME NEW w, Ordered(w, {}, FALSE), Loose(w), w.state \in Going, ~w.preflightPending,
         NEW t \in Keys, t[1] = w.current, NEW s \in Statuses, s # "none",
         w.idleCheck = None \/ w.tasks[t] # "queued",
         NEW v \in Worlds, v.tasks = [w.tasks EXCEPT ![t] = s],
         v.rounds = w.rounds, v.current = w.current, v.state = w.state,
         v.preflightDue = w.preflightDue, v.preflightPending = w.preflightPending,
         v.idleCheck = w.idleCheck, v.owned = w.owned, v.checked = w.checked,
         v.inFlight => w.state \in Sending /\ v.tasks[v.capture.key] = "submitting"
  PROVE  Loose(v)
<1>1. w \in Worlds /\ w.current \in Rounds /\ w.rounds[w.current] = "running"
  <2>1. t[1] \in Rounds
    BY DEF Keys
  <2> QED
    BY <2>1 DEF Ordered, Passes, RunningIsCurrent
<1>2. \A u \in Keys : v.tasks[u] = IF u = t THEN s ELSE w.tasks[u]
  BY <1>1 DEF Worlds
<1>3. InPass(v) = InPass(w) /\ Halted(v) = Halted(w)
  BY DEF InPass, Halted
<1>4. CheckIsDue(v)
  <2>1. ~v.preflightPending
    BY Zenon
  <2> QED
    BY <2>1 DEF CheckIsDue
<1>5. IdleCheckIsStale(v)
  BY DEF Loose, IdleCheckIsStale
<1>6. IdleCheckOfRow(v)
  <2> SUFFICES ASSUME w.idleCheck # None PROVE IdleCheckOfRow(v)
    BY DEF IdleCheckOfRow
  <2>1. w.idleCheck \in Keys /\ w.tasks[t] # "queued"
    BY <1>1 DEF Worlds
  <2>2. v.tasks[w.idleCheck] # "none"
    BY <1>2, <2>1 DEF Loose, IdleCheckOfRow
  <2>3. w.tasks[w.idleCheck] = "queued" => v.tasks[w.idleCheck] = "queued"
    BY <1>2, <2>1
  <2> QED
    BY <2>2, <2>3 DEF Loose, IdleCheckOfRow
<1>7. RowsOfBegun(v)
  <2>1. ASSUME NEW i \in Rounds, v.rounds[i] \in Vacant, NEW k \in Rows
        PROVE  v.tasks[<<i, k>>] = "none"
    <3>1. i # w.current
      BY <1>1, <2>1 DEF Vacant, Open
    <3>2. <<i, k>> \in Keys /\ <<i, k>> # t
      BY <3>1 DEF Keys
    <3> QED
      BY <1>2, <2>1, <3>2 DEF Loose, RowsOfBegun
  <2>2. v.state # "idle"
    BY DEF Going
  <2> QED
    BY <2>1, <2>2 DEF RowsOfBegun
<1>8. StatesFit(v)
  BY <1>3 DEF Loose, StatesFit
<1>9. Reserved(v) /\ SentIsMarked(v)
  BY DEF Loose, Reserved, SentIsMarked
<1>10. Vouched(v)
  BY <1>3 DEF Loose, Vouched
<1> QED
  BY <1>4, <1>5, <1>6, <1>7, <1>8, <1>9, <1>10 DEF Loose

LEMMA RefusedOrdered ==
  ASSUME NEW w, Ordered(w, {}, FALSE), w.state \in Going, NEW t \in Keys, t[1] = w.current,
         NEW v \in Worlds, v.tasks = [w.tasks EXCEPT ![t] = "not_sent"],
         v.rounds = w.rounds, v.current = w.current, v.state = w.state,
         v.preflightPending = w.preflightPending, v.downloadsOnly = w.downloadsOnly,
         v.inFlight = w.inFlight, v.capture = w.capture
  PROVE  Ordered(v, {}, FALSE)
<1>1. "not_sent" \in Statuses
  BY DEF Statuses
<1> QED
  BY <1>1, RowOrdered

LEMMA RefusedLoose ==
  ASSUME NEW w, Ordered(w, {}, FALSE), Loose(w), w.state \in Going, ~w.preflightPending,
         NEW t \in Keys, t[1] = w.current, w.idleCheck = None,
         NEW v \in Worlds, v.tasks = [w.tasks EXCEPT ![t] = "not_sent"],
         v.rounds = w.rounds, v.current = w.current, v.state = w.state,
         v.preflightDue = w.preflightDue, v.preflightPending = w.preflightPending,
         v.idleCheck = w.idleCheck, v.owned = w.owned, v.checked = w.checked, ~v.inFlight
  PROVE  Loose(v)
<1>1. "not_sent" \in Statuses /\ "not_sent" # "none"
  BY DEF Statuses
<1> QED
  BY <1>1, RowLoose

(* The row an idle check was asked for is sent, or the request is refused. *)

LEMMA SubmitFit ==
  ASSUME NEW w, NEW t \in Keys, NEW answer \in AllAnswers, NEW gate, Fit(w),
         w.state = "running", ~w.inFlight, ~w.preflightPending, w.idleCheck = None,
         t[1] = w.current
  PROVE  Fit(Submit(w, t, answer, gate)) /\ Heeds(w, Submit(w, t, answer, gate))
<1> DEFINE n == Submit(w, t, answer, gate)
           held == Save([w EXCEPT !.state = "paused_backlog"])
           v == [w EXCEPT !.tasks[t] = "not_sent", !.attempts[t] = @ + 1]
           c == [key |-> t, phase |-> "sent", outcome |-> "open"]
           u == [w EXCEPT !.capture = c, !.posts[t] = @ + 1, !.inFlight = TRUE,
                          !.storageSettled = FALSE, !.tasks[t] = "submitting",
                          !.attempts[t] = @ + 1]
<1> SUFFICES Fit(n) /\ Heeds(w, n)
  OBVIOUS
<1>1. /\ w \in Worlds /\ Ordered(w, {}, FALSE) /\ w.state \in Going /\ w.state \in Willing
      /\ w.state \in Sending /\ Neat(w, {}, FALSE) /\ Loose(w) /\ Obeys(w, w)
  <2>1. w.state \in Going
    BY DEF Going, States
  <2> QED
    BY <2>1, ObeysSelf DEF Fit, Conduct, Neat, Ordered, Willing, Sending
<1>2. InPass(w)
  BY <1>1 DEF Loose, StatesFit
<1>3. Fit(held) /\ Obeys(w, held)
  <2>1. "paused_backlog" \in Going /\ Suits(w, "paused_backlog")
    BY DEF Going, States, Suits
  <2> QED
    BY <1>1, <2>1, StateSaved
<1>4. Fit(PausedNow(w)) /\ Obeys(w, PausedNow(w))
  BY <1>1, PausedNowFit
<1>5. [w.attempts EXCEPT ![t] = @ + 1] \in [Keys -> Nat]
  BY <1>1 DEF Worlds
<1>6. Fit(AfterTask(Save(v), gate)) /\ Obeys(w, AfterTask(Save(v), gate))
  <2>1. [w.tasks EXCEPT ![t] = "not_sent"] \in [Keys -> Statuses]
    BY <1>1 DEF Worlds, Statuses
  <2>2. /\ v \in Worlds /\ v.tasks = [w.tasks EXCEPT ![t] = "not_sent"]
        /\ v.rounds = w.rounds /\ v.current = w.current /\ v.state = w.state
        /\ v.preflightDue = w.preflightDue /\ v.preflightPending = w.preflightPending
        /\ v.idleCheck = w.idleCheck /\ v.owned = w.owned /\ v.checked = w.checked
        /\ v.inFlight = w.inFlight /\ v.capture = w.capture
        /\ v.downloadsOnly = w.downloadsOnly /\ v.posts = w.posts
    BY <1>1, <1>5, <2>1 DEF Worlds
  <2> HIDE DEF v
  <2>3. Ordered(v, {}, FALSE)
    BY <1>1, <2>2, RefusedOrdered
  <2>4. ~v.inFlight
    BY <2>2, Zenon
  <2>5. Loose(v)
    BY <1>1, <2>2, <2>4, RefusedLoose
  <2>6. Neat(Save(v), {}, FALSE) /\ Loose(Save(v)) /\ Alike(v, Save(v)) /\ Save(v).rounds = v.rounds
    BY <2>2, <2>3, <2>5, SaveNeat, SaveConduct, SaveAlike
  <2>7. /\ Save(v).state = w.state /\ InPass(Save(v)) /\ Save(v).posts = w.posts
        /\ Save(v).rounds = w.rounds /\ Save(v).owned = w.owned
    BY <1>2, <2>2, <2>6 DEF Alike, InPass
  <2>8. ~Save(v).inFlight /\ ~Save(v).preflightPending
    BY <2>2, <2>4, <2>6, Zenon DEF Alike
  <2>9. Obeys(w, Save(v))
    BY <1>1, <2>7 DEF Obeys, Heeds, Goes, LeavesMissed
  <2>10. Fit(AfterTask(Save(v), gate)) /\ Obeys(Save(v), AfterTask(Save(v), gate))
    BY <1>1, <2>6, <2>7, <2>8, AfterTaskFit
  <2> QED
    BY <2>9, <2>10, ObeysOn
<1>7. Fit(Save(u)) /\ Heeds(w, Save(u))
  <2>1. [w.tasks EXCEPT ![t] = "submitting"] \in [Keys -> Statuses] /\ "submitting" \in Statuses
    BY <1>1 DEF Worlds, Statuses
  <2>2. c \in CaptureType /\ c.phase = "sent" /\ c.key = t
    BY DEF CaptureType
  <2>3. [w.posts EXCEPT ![t] = @ + 1] \in [Keys -> Nat]
    BY <1>1 DEF Worlds
  <2> HIDE DEF c
  <2>4. /\ u \in Worlds /\ u.tasks = [w.tasks EXCEPT ![t] = "submitting"]
        /\ u.rounds = w.rounds /\ u.current = w.current /\ u.state = w.state
        /\ u.preflightDue = w.preflightDue /\ u.preflightPending = w.preflightPending
        /\ u.idleCheck = w.idleCheck /\ u.owned = w.owned /\ u.checked = w.checked
        /\ u.capture = c /\ u.downloadsOnly = w.downloadsOnly
    BY <1>1, <1>5, <2>1, <2>2, <2>3 DEF Worlds
  <2>5. u.inFlight
    BY <1>1 DEF Worlds
  <2>6. u.tasks[u.capture.key] = "submitting"
    BY <1>1, <2>2, <2>4 DEF Worlds
  <2>7. Loose(u)
    <3> HIDE DEF u
    <3>1. "submitting" # "none"
      OBVIOUS
    <3> QED
      BY <1>1, <2>1, <2>4, <2>5, <2>6, <3>1, RowLoose
  <2>8. StopIsPending(u)
    BY <2>4 DEF StopIsPending
  <2> HIDE DEF u
  <2>9. Ordered(u, {}, FALSE)
    <3>1. ASSUME NEW m, NEW q, Ordered(w, m, q) PROVE Ordered(u, m, q)
      BY <1>1, <2>1, <2>2, <2>4, <2>5, <3>1, RowOrdered
    <3> QED
      BY <1>1, <3>1, Zenon
  <2>10. Fit(Save(u)) /\ Alike(u, Save(u)) /\ Save(u).rounds = u.rounds
    BY <2>4, <2>7, <2>8, <2>9, SaveFit, SaveAlike DEF Conduct
  <2>11. Heeds(w, Save(u))
    BY <1>1, <2>4, <2>10 DEF Alike, Heeds, Goes, LeavesMissed
  <2> QED
    BY <2>10, <2>11
<1>8. n \in {w, held, PausedNow(w), AfterTask(Save(v), gate), Save(u)}
  BY DEF Submit, AllAnswers
<1> HIDE DEF n, held, v, u
<1> QED
  BY <1>1, <1>3, <1>4, <1>6, <1>7, <1>8 DEF Obeys

-----------------------------------------------------------------------------
(* A pass begins, and the timer. *)
(* f queues rows of pass i only, and leaves none of them unbegun. *)
Queues(w, i, f) ==
  /\ \A t \in Keys : f[t] = w.tasks[t] \/ (t[1] = i /\ f[t] = "queued")
  /\ \A k \in Rows : f[<<i, k>>] # "none"

LEMMA NewPassOrdered ==
  ASSUME NEW w, Ordered(w, {}, FALSE), NEW i \in Rounds, ~InPass(w),
         NEW f \in [Keys -> Statuses], Queues(w, i, f),
         NEW v \in Worlds, v.tasks = f, v.rounds = [w.rounds EXCEPT ![i] = "running"],
         v.current = i, v.state \in Going, v.inFlight = w.inFlight, v.capture = w.capture
  PROVE  Ordered(v, {}, FALSE)
<1>1. ASSUME NEW m, NEW q, Ordered(w, m, q), i \notin m PROVE Ordered(v, m, q)
  BY <1>1, BegunOrdered DEF InPass, Queues
<1>2. i \notin {}
  OBVIOUS
<1> QED
  BY <1>1, <1>2, Zenon

LEMMA StartRoundFit ==
  ASSUME NEW w, NEW i \in Rounds, NEW gate, Fit(w), w.state = "waiting_schedule",
         ~InPass(w), w.rounds[i] \in {"due", "delayed"}
  PROVE  Fit(StartRound(w, i, gate)) /\ Obeys(w, StartRound(w, i, gate))
<1> DEFINE n == StartRound(w, i, gate)
           newTasks == [t \in Keys |-> IF t[1] = i THEN "queued" ELSE w.tasks[t]]
           newPermits == [t \in Keys |-> IF t[1] = i THEN w.permits[t] + 1 ELSE w.permits[t]]
           v == [w EXCEPT !.rounds[i] = "running", !.current = i, !.tasks = newTasks,
                          !.permits = newPermits, !.state = "running",
                          !.preflightDue = TRUE, !.checked = FALSE]
<1> SUFFICES Fit(n) /\ Obeys(w, n)
  OBVIOUS
<1>1. /\ w \in Worlds /\ Ordered(w, {}, FALSE) /\ Loose(w) /\ ~w.inFlight
      /\ w.owned /\ w.current = 0 /\ i # 0
  <2>1. w.state \in Going
    BY DEF Going, States
  <2>2. ~w.inFlight
    BY DEF Fit, Neat, Ordered, Flight
  <2>3. w.owned
    BY <2>1 DEF Fit, Conduct, Loose, Reserved
  <2>4. w.current = 0 /\ i # 0
    BY DEF InPass, Rounds
  <2> QED
    BY <2>2, <2>3, <2>4 DEF Fit, Conduct, Neat, Ordered
<1>2. newTasks \in [Keys -> Statuses] /\ newPermits \in [Keys -> Nat]
  BY <1>1 DEF Worlds, Statuses
<1>3. [w.rounds EXCEPT ![i] = "running"] \in [Rounds -> RoundStates]
  BY <1>1 DEF Worlds, RoundStates
<1>4. i \in 0 .. NRounds /\ "running" \in States
  BY SizeAssumption DEF Rounds, States
<1>5. Queues(w, i, newTasks) /\ \A t \in Keys : t[1] # i => newTasks[t] = w.tasks[t]
  BY DEF Keys, Queues
<1>6. n = StartNextTask(Save(v), gate)
  BY DEF StartRound
<1> HIDE DEF newTasks, newPermits, n
<1>7. /\ v \in Worlds /\ v.tasks = newTasks /\ v.rounds = [w.rounds EXCEPT ![i] = "running"]
      /\ v.current = i /\ v.state = "running" /\ v.inFlight = w.inFlight
      /\ v.preflightPending = w.preflightPending /\ v.idleCheck = w.idleCheck
      /\ v.owned = w.owned /\ v.capture = w.capture /\ v.posts = w.posts
  BY <1>1, <1>2, <1>3, <1>4 DEF Worlds
<1>8. v.preflightDue
  BY <1>1 DEF Worlds
<1> HIDE DEF v
<1>9. \A j \in Rounds : v.rounds[j] = IF j = i THEN "running" ELSE w.rounds[j]
  BY <1>1, <1>7 DEF Worlds
<1>10. v.state \in Going
  BY <1>7 DEF Going, States
<1>11. Ordered(v, {}, FALSE)
  <2>1. /\ v \in Worlds /\ v.tasks = newTasks /\ v.rounds = [w.rounds EXCEPT ![i] = "running"]
        /\ v.current = i /\ v.inFlight = w.inFlight /\ v.capture = w.capture
    BY <1>7
  <2>2. Ordered(w, {}, FALSE) /\ newTasks \in [Keys -> Statuses] /\ Queues(w, i, newTasks)
    BY <1>1, <1>2, <1>5
  <2> QED
    BY <1>10, <2>1, <2>2, NewPassOrdered
<1>12. ~v.inFlight /\ ~w.preflightPending
  BY <1>1, <1>7, Zenon DEF Loose, CheckIsDue, QueuedRows
<1>13. ~v.preflightPending
  BY <1>7, <1>12, Zenon
<1>14. w.idleCheck # None =>
         w.idleCheck \in Keys /\ w.idleCheck[1] # i /\ "stop" \in Commands
  <2> SUFFICES ASSUME w.idleCheck # None
               PROVE  w.idleCheck \in Keys /\ w.idleCheck[1] # i /\ "stop" \in Commands
    OBVIOUS
  <2>1. w.idleCheck \in Keys /\ w.tasks[w.idleCheck] # "none"
    BY <1>1 DEF Worlds, Loose, IdleCheckOfRow
  <2>2. w.idleCheck = <<w.idleCheck[1], w.idleCheck[2]>> /\ w.idleCheck[1] # 0
        /\ w.idleCheck[2] \in Rows
    BY <2>1 DEF Keys, Rounds
  <2>3. w.idleCheck[1] # i
    BY <1>1, <2>1, <2>2 DEF Loose, RowsOfBegun, Vacant, Open
  <2> QED
    BY <1>1, <2>1, <2>2, <2>3 DEF Loose, IdleCheckOfRow
<1>15. Conduct(v)
  <2>1. CheckIsDue(v)
    BY <1>13 DEF CheckIsDue
  <2>2. IdleCheckIsStale(v)
    BY <1>7, <1>14 DEF IdleCheckIsStale
  <2>3. IdleCheckOfRow(v)
    BY <1>1, <1>5, <1>7, <1>14 DEF Loose, IdleCheckOfRow
  <2>4. RowsOfBegun(v)
    <3>1. ASSUME NEW j \in Rounds, v.rounds[j] \in Vacant, NEW k \in Rows
          PROVE  v.tasks[<<j, k>>] = "none"
      <4>1. j # i /\ w.rounds[j] \in Vacant /\ <<j, k>> \in Keys
        BY <1>9, <3>1 DEF Vacant, Open, Keys
      <4> QED
        BY <1>1, <1>5, <1>7, <4>1 DEF Loose, RowsOfBegun
    <3> QED
      BY <1>7, <3>1 DEF RowsOfBegun
  <2>5. StatesFit(v) /\ StopIsPending(v) /\ SentIsMarked(v)
    BY <1>1, <1>7, <1>12 DEF StatesFit, StopIsPending, SentIsMarked, InPass
  <2>6. Reserved(v)
    BY <1>1, <1>7, Zenon DEF Reserved
  <2>7. Vouched(v)
    BY <1>7, <1>8 DEF Vouched, Halted
  <2> QED
    BY <2>1, <2>2, <2>3, <2>4, <2>5, <2>6, <2>7 DEF Conduct, Loose
<1>16. Obeys(w, v)
  BY <1>7, <1>9, <1>10 DEF Obeys, Heeds, Goes, LeavesMissed, Willing
<1>17. Fit(Save(v)) /\ Obeys(v, Save(v)) /\ Save(v).state = v.state
  BY <1>7, <1>10, <1>11, <1>15, SaveFit, SaveObeys, SaveAlike DEF Alike
<1>18. Fit(n) /\ Obeys(Save(v), n)
  BY <1>6, <1>7, <1>17, StartNextTaskFit DEF Sending
<1> QED
  BY <1>16, <1>17, <1>18, ObeysOn

LEMMA TickBetweenPassesFit ==
  ASSUME NEW w, NEW gate, Fit(w), w.state = "waiting_schedule", ~InPass(w)
  PROVE  Fit(TickBetweenPasses(w, gate)) /\ Obeys(w, TickBetweenPasses(w, gate))
<1> DEFINE n == TickBetweenPasses(w, gate)
           c == Classify(w, FALSE)
<1> SUFFICES Fit(n) /\ Obeys(w, n)
  OBVIOUS
<1>1. w.state \in Going
  BY DEF Going, States
<1>2. \A busy : /\ Fit(Classify(w, busy)) /\ Alike(w, Classify(w, busy))
                /\ Obeys(w, Classify(w, busy))
  BY <1>1, ClassifyFit
<1>3. Fit(c) /\ Alike(w, c) /\ Obeys(w, c)
  BY <1>2, Zenon
<1>4. n = CASE Due(c) # {} -> StartRound(c, NextDue(c), gate)
            [] Due(c) = {} /\ ~SomePending(c) /\ ~SomeMissed(c) -> FinishSession(c)
            [] OTHER -> [c EXCEPT !.state = "waiting_schedule"]
  BY DEF TickBetweenPasses
<1> HIDE DEF c, n
<1>5. /\ c.state = "waiting_schedule" /\ c.current = w.current /\ ~InPass(c)
      /\ c.state \in Going /\ Ordered(c, {}, FALSE) /\ Conduct(c) /\ Loose(c)
  BY <1>1, <1>3 DEF Alike, InPass, Fit, Neat, Conduct
<1>6. Due(c) # {} =>
        /\ Fit(StartRound(c, NextDue(c), gate))
        /\ Obeys(c, StartRound(c, NextDue(c), gate))
  <2> SUFFICES ASSUME Due(c) # {}
               PROVE  /\ Fit(StartRound(c, NextDue(c), gate))
                      /\ Obeys(c, StartRound(c, NextDue(c), gate))
    OBVIOUS
  <2>1. Due(c) \in SUBSET Nat
    BY DEF Due, Rounds
  <2>2. \E i \in Due(c) : \A j \in Due(c) : i <= j
    BY <2>1, LeastExists
  <2>3. NextDue(c) \in Rounds /\ c.rounds[NextDue(c)] \in {"due", "delayed"}
    BY <2>2 DEF NextDue, Due
  <2> QED
    BY <1>3, <1>5, <2>3, StartRoundFit
<1>7. Fit(FinishSession(c)) /\ Obeys(c, FinishSession(c))
  BY <1>5, FinishSessionFit
<1>8. /\ Fit([c EXCEPT !.state = "waiting_schedule"])
      /\ Obeys(c, [c EXCEPT !.state = "waiting_schedule"])
  <2>1. Suits(c, "waiting_schedule") /\ c.state \in Willing
    BY <1>5 DEF Suits, Ordered, Flight, Willing
  <2> QED
    BY <1>3, <1>5, <2>1, StateConduct DEF Fit
<1>9. Fit(n) /\ Obeys(c, n)
  BY <1>4, <1>6, <1>7, <1>8
<1> QED
  BY <1>3, <1>9, ObeysOn

LEMMA TickInPassFit ==
  ASSUME NEW w, NEW gate, NEW elapsed, Fit(w), w.state \in Going, InPass(w)
  PROVE  Fit(TickInPass(w, gate, elapsed)) /\ Obeys(w, TickInPass(w, gate, elapsed))
<1> DEFINE n == TickInPass(w, gate, elapsed)
           c == Classify(w, TRUE)
           r == [c EXCEPT !.state = "running"]
<1> SUFFICES Fit(n) /\ Obeys(w, n)
  OBVIOUS
<1>2. \A busy : /\ Fit(Classify(w, busy)) /\ Alike(w, Classify(w, busy))
                /\ Obeys(w, Classify(w, busy))
  BY ClassifyFit
<1>3. Fit(c) /\ Alike(w, c) /\ Obeys(w, c)
  BY <1>2, Zenon
<1>4. n = CASE c.inFlight -> c
            [] ~c.inFlight /\ c.state = "waiting" ->
                 IF elapsed THEN StartNextTask(r, gate) ELSE c
            [] ~c.inFlight /\ c.state \in {"running", "pause_requested", "stop_requested"} ->
                 StartNextTask(c, gate)
            [] OTHER -> c
  BY DEF TickInPass
<1> HIDE DEF c, n
<1>5. InPass(c) /\ c.state \in Going /\ Ordered(c, {}, FALSE) /\ Neat(c, {}, FALSE) /\ Loose(c)
  BY <1>3 DEF Alike, InPass, Fit, Neat, Conduct
<1>6. Obeys(c, c)
  BY <1>5, ObeysSelf
<1>7. ~c.inFlight /\ c.state = "waiting" =>
        Fit(StartNextTask(r, gate)) /\ Obeys(c, StartNextTask(r, gate))
  <2> SUFFICES ASSUME ~c.inFlight, c.state = "waiting"
               PROVE  Fit(StartNextTask(r, gate)) /\ Obeys(c, StartNextTask(r, gate))
    OBVIOUS
  <2>1. "running" \in Going /\ Suits(c, "running") /\ c.state \in Willing
    BY <1>5 DEF Going, States, Suits, Willing
  <2>2. Fit(r) /\ Obeys(c, r) /\ r.state = "running"
    BY <1>5, <2>1, StateConduct
  <2> HIDE DEF r
  <2>3. Fit(StartNextTask(r, gate)) /\ Obeys(r, StartNextTask(r, gate))
    BY <2>2, StartNextTaskFit DEF Sending
  <2> QED
    BY <2>2, <2>3, ObeysOn
<1>8. c.state \in {"running", "pause_requested", "stop_requested"} =>
        Fit(StartNextTask(c, gate)) /\ Obeys(c, StartNextTask(c, gate))
  BY <1>3, StartNextTaskFit DEF Sending
<1> HIDE DEF r
<1>9. \/ n = c
      \/ ~c.inFlight /\ c.state = "waiting" /\ n = StartNextTask(r, gate)
      \/ c.state \in {"running", "pause_requested", "stop_requested"} /\ n = StartNextTask(c, gate)
  BY <1>4, Zenon
<1>10. Fit(n) /\ Obeys(c, n)
  BY <1>3, <1>6, <1>7, <1>8, <1>9
<1> QED
  BY <1>3, <1>10, ObeysOn

LEMMA TickFit ==
  ASSUME NEW w, NEW gate, NEW elapsed, Fit(w)
  PROVE  /\ Fit(Tick(w, gate, elapsed))
         /\ w.state \in Going => Obeys(w, Tick(w, gate, elapsed))
         /\ w.state \notin Going => Tick(w, gate, elapsed) = w
<1> DEFINE n == Tick(w, gate, elapsed)
           s == IF InPass(w) THEN "running" ELSE "waiting_schedule"
           caughtUp == [w EXCEPT !.state = s]
           v == IF w.state = "paused_backlog" THEN caughtUp ELSE w
<1>1. /\ w \in Worlds /\ Ordered(w, {}, FALSE) /\ Neat(w, {}, FALSE) /\ Loose(w) /\ Conduct(w)
  BY DEF Fit, Conduct, Neat, Ordered
<1>2. w.state \notin Going => n = w
  BY <1>1 DEF Going, Worlds, Tick
<1>3. w.state \in Going => Fit(n) /\ Obeys(w, n)
  <2> SUFFICES ASSUME w.state \in Going PROVE Fit(n) /\ Obeys(w, n)
    OBVIOUS
  <2>1. Obeys(w, w)
    BY ObeysSelf
  <2>2. CASE w.state = "paused" \/ (w.state = "paused_backlog" /\ Backlog(gate, FALSE))
    <3>1. n = w
      BY <2>2 DEF Tick
    <3> QED
      BY <2>1, <3>1
  <2>3. CASE ~(w.state = "paused" \/ (w.state = "paused_backlog" /\ Backlog(gate, FALSE)))
    <3>1. n = IF InPass(v) THEN TickInPass(v, gate, elapsed) ELSE TickBetweenPasses(v, gate)
      BY <2>3 DEF Tick, Going
    <3>2. /\ Fit(v) /\ Obeys(w, v) /\ v.state \in Going
          /\ ~InPass(v) => v.state = "waiting_schedule"
      <4>1. CASE w.state = "paused_backlog"
        <5>1. s \in Going /\ Suits(w, s) /\ (~InPass(w) => s = "waiting_schedule")
          BY <1>1, <4>1 DEF Going, States, Suits, Loose, StatesFit, Sending
        <5>2. w.state \in Willing /\ v = caughtUp
          BY <4>1 DEF Willing
        <5> HIDE DEF s
        <5>3. /\ Fit(caughtUp) /\ Obeys(w, caughtUp) /\ caughtUp.state = s
              /\ caughtUp.current = w.current
          BY <1>1, <5>1, <5>2, StateConduct
        <5> QED
          BY <5>1, <5>2, <5>3 DEF InPass
      <4>2. CASE w.state # "paused_backlog"
        <5>1. v = w
          BY <4>2
        <5>2. ~InPass(w) => w.state \notin {"running", "waiting", "pause_requested"}
          BY <1>1 DEF Loose, StatesFit
        <5>3. ~InPass(w) => w.state # "stop_requested"
          BY <1>1 DEF Conduct, StopIsPending, Ordered, Flight
        <5>4. w.state \in {"running", "waiting", "pause_requested", "stop_requested",
                           "waiting_schedule"}
          BY <2>3, <4>2 DEF Going, States
        <5> QED
          BY <2>1, <5>1, <5>2, <5>3, <5>4
      <4> QED
        BY <4>1, <4>2
    <3> HIDE DEF v, n
    <3>3. Fit(n) /\ Obeys(v, n)
      BY <3>1, <3>2, TickInPassFit, TickBetweenPassesFit
    <3> QED
      BY <3>2, <3>3, ObeysOn
  <2> QED
    BY <2>2, <2>3
<1> HIDE DEF n
<1>4. Fit(n)
  BY <1>2, <1>3
<1> QED
  BY <1>2, <1>3, <1>4 DEF n

-----------------------------------------------------------------------------
(* The end of a capture, and the answers of the workers. *)

LEMMA OnCaptureFinishedFit ==
  ASSUME NEW w, NEW gate, Fit(w), w.capture.phase = "reported"
  PROVE  /\ Fit(OnCaptureFinished(w, gate)) /\ Obeys(w, OnCaptureFinished(w, gate))
         /\ w.state \in Going
<1> DEFINE n == OnCaptureFinished(w, gate)
           k == w.capture.key
           o == w.capture.outcome
           record == IF o = "not_sent" THEN w.recordOf[k] ELSE w.posts[k]
           status == StatusAfter(o, w.attempts[k])
           v == [w EXCEPT !.inFlight = FALSE, !.capture = NoCapture,
                          !.recordOf[k] = record, !.tasks[k] = status]
<1> SUFFICES Fit(n) /\ Obeys(w, n) /\ w.state \in Going
  OBVIOUS
<1>1. w \in Worlds /\ Ordered(w, {}, FALSE) /\ Loose(w)
  BY DEF Fit, Conduct, Neat, Ordered
<1>2. w.inFlight /\ w.state \in Going /\ k \in Keys /\ k[1] = w.current /\ InPass(w)
  BY <1>1 DEF Ordered, Flight
<1>3. w.state \in Sending
  BY <1>1, <1>2 DEF Loose, StatesFit
<1>4. w.tasks[k] = "submitting" /\ ~w.preflightPending
  BY <1>1, <1>2 DEF Loose, SentIsMarked, CheckIsDue
<1>5. NoCapture \in CaptureType
  BY DEF NoCapture, CaptureType
<1>6. status \in Statuses /\ status \notin {"none", "submitting"}
  BY DEF StatusAfter, Statuses, Confirmed
<1>7. record \in Nat
  BY <1>1, <1>2 DEF Worlds
<1>8. n = AfterTask(Save(v), gate)
  BY DEF OnCaptureFinished
<1> HIDE DEF status, record, n
<1>9. [w.tasks EXCEPT ![k] = status] \in [Keys -> Statuses]
  BY <1>1, <1>6 DEF Worlds
<1>10. [w.recordOf EXCEPT ![k] = record] \in [Keys -> Nat]
  BY <1>1, <1>7 DEF Worlds
<1>11. /\ v \in Worlds /\ v.tasks = [w.tasks EXCEPT ![k] = status]
       /\ v.capture = NoCapture /\ v.rounds = w.rounds
       /\ v.current = w.current /\ v.state = w.state
       /\ v.preflightDue = w.preflightDue /\ v.preflightPending = w.preflightPending
       /\ v.idleCheck = w.idleCheck /\ v.owned = w.owned /\ v.checked = w.checked
       /\ v.downloadsOnly = w.downloadsOnly /\ v.posts = w.posts
  BY <1>1, <1>5, <1>9, <1>10 DEF Worlds
<1>12. ~v.inFlight
  BY <1>1 DEF Worlds
<1> HIDE DEF v
<1>13. Ordered(v, {}, FALSE)
  <2>1. ASSUME NEW m, NEW q, Ordered(w, m, q) PROVE Ordered(v, m, q)
    BY <1>2, <1>6, <1>11, <1>12, <2>1, RowOrdered
  <2> QED
    BY <1>1, <2>1, Zenon
<1>14. Loose(v)
  <2>1. w.tasks[k] # "queued" /\ status # "none"
    BY <1>4, <1>6
  <2> HIDE DEF k
  <2> QED
    BY <1>1, <1>2, <1>4, <1>6, <1>11, <1>12, <2>1, RowLoose
<1>15. Neat(Save(v), {}, FALSE) /\ Loose(Save(v)) /\ Alike(v, Save(v)) /\ Save(v).rounds = v.rounds
  BY <1>11, <1>13, <1>14, SaveNeat, SaveConduct, SaveAlike
<1>16. /\ Save(v).state = w.state /\ InPass(Save(v)) /\ Save(v).posts = w.posts
       /\ Save(v).rounds = w.rounds /\ Save(v).owned = w.owned
  BY <1>2, <1>11, <1>15 DEF Alike, InPass
<1>17. ~Save(v).inFlight
  BY <1>12, <1>15, Zenon DEF Alike
<1>18. ~Save(v).preflightPending
  BY <1>4, <1>11, <1>15, Zenon DEF Alike
<1>19. Obeys(w, Save(v))
  BY <1>2, <1>16 DEF Obeys, Heeds, Goes, LeavesMissed
<1>20. Fit(AfterTask(Save(v), gate)) /\ Obeys(Save(v), AfterTask(Save(v), gate))
  BY <1>3, <1>15, <1>16, <1>17, <1>18, AfterTaskFit
<1> QED
  BY <1>2, <1>8, <1>19, <1>20, ObeysOn

(* What comes back from a check that was cleared, or has passed. *)

LEMMA OnPreflightFit ==
  ASSUME NEW w, NEW blocking, NEW gate, Fit(w), w.preflightPending
  PROVE  /\ Fit(OnPreflight(w, blocking, gate)) /\ Obeys(w, OnPreflight(w, blocking, gate))
         /\ w.state \in Going
<1> DEFINE n == OnPreflight(w, blocking, gate)
           a == [w EXCEPT !.preflightPending = FALSE]
           b == [a EXCEPT !.preflightDue = TRUE]
           p == [a EXCEPT !.preflightDue = FALSE, !.checked = TRUE]
<1> SUFFICES Fit(n) /\ Obeys(w, n) /\ w.state \in Going
  OBVIOUS
<1>1. /\ w \in Worlds /\ Ordered(w, {}, FALSE) /\ Loose(w) /\ w.state \in Going
      /\ ~Halted(w) /\ Conduct(w)
  BY DEF Fit, Conduct, Neat, Ordered, Loose, CheckIsDue, Going, Halted
<1>2. ~w.inFlight
  BY <1>1 DEF Loose, CheckIsDue
<1>3. n = CASE blocking -> PausedNow(b)
            [] ~blocking /\ MayGoOn(Save(p)) -> StartNextTask(Save(p), gate)
            [] OTHER -> Save(p)
  BY DEF OnPreflight
<1> HIDE DEF n
<1>4. ASSUME NEW x \in {b, p}
      PROVE  /\ x \in Worlds /\ x.tasks = w.tasks /\ x.rounds = w.rounds
             /\ x.current = w.current /\ x.state = w.state /\ x.capture = w.capture
             /\ x.inFlight = w.inFlight /\ x.downloadsOnly = w.downloadsOnly
             /\ x.idleCheck = w.idleCheck /\ x.owned = w.owned /\ x.posts = w.posts
  <2>1. CASE x = b
    BY <1>1, <2>1 DEF Worlds
  <2>2. CASE x = p
    BY <1>1, <2>2 DEF Worlds
  <2> QED
    BY <1>4, <2>1, <2>2
<1>5. ~b.preflightPending /\ ~p.preflightPending
  BY <1>1 DEF Worlds
<1>6. b.preflightDue /\ ~p.preflightDue /\ p.checked
  BY <1>1 DEF Worlds
<1> HIDE DEF b, p
<1>7. ASSUME NEW x \in {b, p}
      PROVE  /\ Ordered(x, {}, FALSE) /\ Obeys(w, x)
             /\ IdleCheckIsStale(x) /\ Vouched(x) => Conduct(x)
  <2>0. ~x.preflightPending /\ ~x.inFlight /\ ~Halted(x) /\ InPass(x) = InPass(w)
    BY <1>1, <1>2, <1>4, <1>5, Zenon DEF Halted, InPass
  <2>1. Ordered(x, {}, FALSE)
    <3>1. ASSUME NEW m, NEW q, Ordered(w, m, q) PROVE Ordered(x, m, q)
      BY <1>4, <2>0, <3>1, Aside
    <3> QED
      BY <1>1, <3>1, Zenon
  <2>2. Obeys(w, x)
    BY <1>1, <1>4 DEF Obeys, Heeds, Goes, LeavesMissed
  <2>3. CheckIsDue(x)
    BY <2>0 DEF CheckIsDue
  <2>4. IdleCheckOfRow(x) /\ RowsOfBegun(x) /\ Reserved(x)
    BY <1>1, <1>4 DEF Loose, IdleCheckOfRow, RowsOfBegun, Reserved
  <2>5. StatesFit(x)
    BY <1>1, <1>4, <2>0 DEF Loose, StatesFit
  <2>6. SentIsMarked(x)
    BY <2>0 DEF SentIsMarked
  <2>7. StopIsPending(x)
    BY <1>1, <1>2, <1>4 DEF Conduct, StopIsPending
  <2> QED
    BY <2>1, <2>2, <2>3, <2>4, <2>5, <2>6, <2>7 DEF Conduct, Loose
<1>8. Conduct(b)
  <2>1. IdleCheckIsStale(b)
    BY <1>1, <1>4 DEF Loose, IdleCheckIsStale
  <2>2. Vouched(b)
    BY <1>1, <1>4, <1>6 DEF Vouched, Halted
  <2> QED
    BY <1>7, <2>1, <2>2
<1>9. Conduct(p)
  <2>1. IdleCheckIsStale(p)
    BY <1>5, <1>6 DEF IdleCheckIsStale
  <2>2. Vouched(p)
    BY <1>1, <1>4, <1>6 DEF Vouched, Halted
  <2> QED
    BY <1>7, <2>1, <2>2
<1>10. Fit(PausedNow(b)) /\ Obeys(w, PausedNow(b))
  <2>1. b.state \in Going
    BY <1>1, <1>4
  <2>2. ~b.inFlight
    BY <1>2, <1>4, Zenon
  <2>3. Fit(PausedNow(b)) /\ Obeys(b, PausedNow(b))
    BY <1>7, <1>8, <2>1, <2>2, PausedNowFit DEF Conduct
  <2> QED
    BY <1>7, <2>3, ObeysOn
<1>11. /\ Fit(Save(p)) /\ Obeys(w, Save(p))
       /\ MayGoOn(Save(p)) => /\ Fit(StartNextTask(Save(p), gate))
                              /\ Obeys(w, StartNextTask(Save(p), gate))
  <2>1. p.state \in Going /\ p \in Worlds
    BY <1>1, <1>4
  <2>2. Fit(Save(p)) /\ Obeys(p, Save(p))
    BY <1>7, <1>9, <2>1, SaveFit, SaveObeys
  <2>3. Obeys(w, Save(p))
    BY <1>7, <2>2, ObeysOn
  <2>4. MayGoOn(Save(p)) => /\ Fit(StartNextTask(Save(p), gate))
                            /\ Obeys(Save(p), StartNextTask(Save(p), gate))
    BY <2>2, StartNextTaskFit DEF MayGoOn, Sending
  <2> QED
    BY <2>2, <2>3, <2>4, ObeysOn
<1> QED
  BY <1>1, <1>3, <1>10, <1>11

(* An answer that comes when the collection has ended, or waits to be continued. *)
Untouched(w, v) ==
  /\ v.state = w.state /\ v.rounds = w.rounds /\ v.disk = w.disk /\ v.owned = w.owned
  /\ v.downloadsOnly = w.downloadsOnly /\ v.posts = w.posts /\ v.checked = w.checked
(* Only a collection that runs and was checked asks for a recording. *)
Asks(w, v) == v.posts # w.posts => w.state = "running" /\ w.checked

LEMMA OnStorageSettledFit ==
  ASSUME NEW w, NEW gate, Fit(w)
  PROVE  LET n == OnStorageSettled(w, gate)
         IN  /\ Fit(n)
             /\ w.state \in Going => Obeys(w, n)
             /\ w.state \notin Going => Untouched(w, n)
<1> DEFINE n == OnStorageSettled(w, gate)
           v == [w EXCEPT !.settlePending = FALSE, !.storageSettled = TRUE]
<1> SUFFICES /\ Fit(n)
             /\ w.state \in Going => Obeys(w, n)
             /\ w.state \notin Going => Untouched(w, n)
  OBVIOUS
<1>1. /\ w \in Worlds /\ Ordered(w, {}, FALSE) /\ Neat(w, {}, FALSE) /\ Conduct(w)
  BY DEF Fit, Neat, Ordered
<1>2. /\ v \in Worlds /\ v.rounds = w.rounds /\ v.downloadsOnly = w.downloadsOnly
      /\ v.disk = w.disk /\ v.attempts = w.attempts /\ v.recordOf = w.recordOf
      /\ Alike(w, v)
  BY <1>1 DEF Worlds, Alike
<1>3. n = IF MayGoOn(v) THEN StartNextTask(v, gate) ELSE v
  BY DEF OnStorageSettled
<1> HIDE DEF v, n
<1>4. Neat(v, {}, FALSE)
  <2>1. ASSUME NEW m, NEW q, Neat(w, m, q) PROVE Neat(v, m, q)
    BY <1>2, <2>1, Aside DEF Alike, Neat
  <2> QED
    BY <1>1, <2>1, Zenon
<1>5. Fit(v)
  BY <1>1, <1>2, <1>4, AlikeConduct DEF Waits, Fit
<1>6. w.state \in Going => Obeys(w, v)
  BY <1>2 DEF Alike, Obeys, Heeds, Goes, LeavesMissed
<1>7. MayGoOn(v) =>
        Fit(StartNextTask(v, gate)) /\ Obeys(v, StartNextTask(v, gate)) /\ w.state \in Going
  BY <1>2, <1>5, MayGoOnGoing, StartNextTaskFit DEF MayGoOn, Sending, Alike
<1>8. Untouched(w, v)
  BY <1>2 DEF Untouched, Alike
<1> QED
  BY <1>3, <1>5, <1>6, <1>7, <1>8, ObeysOn

(* The answer of the idle check of a row that waits: its pass was checked. *)

LEMMA OnIdleResultFit ==
  ASSUME NEW w, NEW idle, NEW answer \in AllAnswers, NEW gate, Fit(w), w.idleCheck # None
  PROVE  LET n == OnIdleResult(w, idle, answer, gate)
         IN  /\ Fit(n) /\ Asks(w, n)
             /\ w.state \in Going => Heeds(w, n)
             /\ w.state \notin Going => Untouched(w, n)
<1> DEFINE n == OnIdleResult(w, idle, answer, gate)
           t == w.idleCheck
           v == [w EXCEPT !.idleCheck = None]
           busy == [v EXCEPT !.idleRetries = @ + 1]
           free == [v EXCEPT !.idleRetries = 0]
           stale == v.inFlight \/ v.tasks[t] # "queued" \/ v.current # t[1]
<1> SUFFICES /\ Fit(n) /\ Asks(w, n)
             /\ w.state \in Going => Heeds(w, n)
             /\ w.state \notin Going => Untouched(w, n)
  OBVIOUS
<1>1. /\ w \in Worlds /\ Ordered(w, {}, FALSE) /\ Neat(w, {}, FALSE) /\ Conduct(w)
      /\ Loose(w) /\ t \in Keys
  BY DEF Fit, Conduct, Neat, Ordered, Worlds
<1>2. /\ v \in Worlds /\ v.idleCheck = None /\ v.state = w.state /\ v.current = w.current
      /\ v.tasks = w.tasks /\ v.rounds = w.rounds /\ v.inFlight = w.inFlight
      /\ v.preflightDue = w.preflightDue /\ v.preflightPending = w.preflightPending
      /\ v.owned = w.owned /\ v.capture = w.capture /\ v.checked = w.checked
      /\ v.posts = w.posts /\ v.disk = w.disk /\ v.attempts = w.attempts
      /\ v.recordOf = w.recordOf /\ v.downloadsOnly = w.downloadsOnly
  BY <1>1 DEF Worlds
<1>3. \/ n = v
      \/ ~stale /\ MayGoOn(v) /\ v.state \in {"pause_requested", "stop_requested"}
           /\ n = StartNextTask(v, gate)
      \/ ~stale /\ MayGoOn(v) /\ v.state = "running"
           /\ n \in {PausedNow(busy), BeginWait(busy), Submit(free, t, answer, gate)}
  <2>1. CASE stale \/ ~MayGoOn(v)
    BY <2>1 DEF OnIdleResult, MayGoOn
  <2>2. CASE ~stale /\ MayGoOn(v) /\ v.state \in {"pause_requested", "stop_requested"}
    BY <2>2 DEF OnIdleResult
  <2>3. CASE ~stale /\ MayGoOn(v) /\ v.state \notin {"pause_requested", "stop_requested"}
    <3>1. v.state = "running"
      BY <2>3 DEF MayGoOn
    <3>2. CASE idle
      BY <2>3, <3>1, <3>2 DEF OnIdleResult
    <3>3. CASE ~idle
      <4>1. n = IF busy.idleRetries > IdleRetries THEN PausedNow(busy) ELSE BeginWait(busy)
        BY <2>3, <3>1, <3>3 DEF OnIdleResult
      <4> QED
        BY <2>3, <3>1, <4>1
    <3> QED
      BY <3>2, <3>3
  <2> QED
    BY <2>1, <2>2, <2>3
<1> HIDE DEF v, n
<1>4. v.idleRetries + 1 \in Nat
  BY <1>2 DEF Worlds
<1>5. ASSUME NEW x \in {busy, free}
      PROVE  /\ x \in Worlds /\ x.idleCheck = None /\ x.rounds = v.rounds /\ x.disk = v.disk
             /\ x.attempts = v.attempts /\ x.recordOf = v.recordOf
             /\ x.downloadsOnly = v.downloadsOnly /\ Alike(v, x)
  <2>1. CASE x = busy
    BY <1>2, <1>4, <2>1 DEF Worlds, Alike
  <2>2. CASE x = free
    BY <1>2, <2>2 DEF Worlds, Alike
  <2> QED
    BY <1>5, <2>1, <2>2
<1> HIDE DEF busy, free
<1>6. Fit(v)
  <2>1. Neat(v, {}, FALSE)
    <3>1. ASSUME NEW m, NEW q, Neat(w, m, q) PROVE Neat(v, m, q)
      BY <1>2, <3>1, Aside DEF Neat
    <3> QED
      BY <1>1, <3>1, Zenon
  <2>2. QueuedRows(v) = QueuedRows(w) /\ InPass(v) = InPass(w) /\ Halted(v) = Halted(w)
    BY <1>2 DEF QueuedRows, InPass, Halted
  <2>3. CheckIsDue(v)
    BY <1>1, <1>2, <2>2 DEF Loose, CheckIsDue
  <2>4. IdleCheckIsStale(v) /\ IdleCheckOfRow(v)
    BY <1>2 DEF IdleCheckIsStale, IdleCheckOfRow
  <2>5. RowsOfBegun(v) /\ Reserved(v) /\ SentIsMarked(v)
    BY <1>1, <1>2 DEF Loose, RowsOfBegun, Reserved, SentIsMarked
  <2>6. StatesFit(v) /\ StopIsPending(v)
    BY <1>1, <1>2, <2>2 DEF Loose, Conduct, StatesFit, StopIsPending
  <2>7. Vouched(v)
    BY <1>1, <1>2, <2>2 DEF Loose, Vouched
  <2> QED
    BY <2>1, <2>3, <2>4, <2>5, <2>6, <2>7 DEF Fit, Conduct, Loose
<1>7. w.state \in Going => Obeys(w, v)
  BY <1>2 DEF Obeys, Heeds, Goes, LeavesMissed
<1>8. Untouched(w, v)
  BY <1>2 DEF Untouched
<1>9. ASSUME NEW x \in {busy, free} PROVE Fit(x) /\ (w.state \in Going => Obeys(w, x))
  <2>1. Neat(x, {}, FALSE)
    <3>1. ASSUME NEW m, NEW q, Neat(v, m, q) PROVE Neat(x, m, q)
      BY <1>2, <1>5, <3>1, Aside DEF Alike, Neat
    <3> QED
      BY <1>6, <3>1, Zenon DEF Fit
  <2>2. Conduct(x)
    BY <1>5, <1>6, AlikeConduct DEF Waits, Fit
  <2>3. w.state \in Going => Obeys(v, x)
    BY <1>2, <1>5 DEF Alike, Obeys, Heeds, Goes, LeavesMissed
  <2> QED
    BY <1>7, <2>1, <2>2, <2>3, ObeysOn DEF Fit
<1>10. CASE n = v
  <2>1. Asks(w, v)
    BY <1>2 DEF Asks
  <2>2. w.state \in Going => Heeds(w, v)
    BY <1>7 DEF Obeys
  <2> QED
    BY <1>6, <1>8, <1>10, <2>1, <2>2
<1>11. CASE ~stale /\ MayGoOn(v) /\ v.state \in {"pause_requested", "stop_requested"}
              /\ n = StartNextTask(v, gate)
  <2>1. Fit(n) /\ Obeys(v, n) /\ w.state \in Going
    BY <1>2, <1>6, <1>11, MayGoOnGoing, StartNextTaskFit DEF Sending
  <2>2. Obeys(w, n)
    BY <1>7, <2>1, ObeysOn
  <2> QED
    BY <2>1, <2>2 DEF Obeys, Asks
<1>12. CASE ~stale /\ MayGoOn(v) /\ v.state = "running"
              /\ n \in {PausedNow(busy), BeginWait(busy), Submit(free, t, answer, gate)}
  <2>1. /\ w.state = "running" /\ w.state \in Going /\ ~w.inFlight /\ t[1] = w.current
        /\ InPass(w) /\ ~Halted(w)
    BY <1>1, <1>2, <1>12, MayGoOnGoing DEF Loose, StatesFit, Halted
  <2>2. ~w.preflightDue /\ ~w.preflightPending
    BY <1>1, <2>1 DEF Loose, IdleCheckIsStale
  <2>3. w.checked
    BY <1>1, <2>1, <2>2 DEF Loose, Vouched
  <2>4. busy \in {busy, free} /\ free \in {busy, free}
    OBVIOUS
  <2>5. /\ busy.state = "running" /\ InPass(busy) /\ free.state = "running"
        /\ t[1] = free.current
    BY <1>2, <1>5, <2>1, <2>4 DEF Alike, InPass
  <2>6. ~busy.inFlight /\ ~free.inFlight /\ ~free.preflightPending
    BY <1>2, <1>5, <2>1, <2>2, <2>4, Zenon DEF Alike
  <2>7. Fit(busy) /\ Fit(free) /\ Obeys(w, busy) /\ Obeys(w, free)
    BY <1>9, <2>1, <2>4
  <2>8. CASE n \in {PausedNow(busy), BeginWait(busy)}
    <3>1. busy.state \in Going /\ busy.state \in Willing
      BY <2>5 DEF Going, States, Willing
    <3>2. Fit(n) /\ Obeys(busy, n)
      BY <2>5, <2>6, <2>7, <2>8, <3>1, PausedNowFit DEF Fit, Neat, Conduct
    <3>3. Obeys(w, n)
      BY <2>7, <3>2, ObeysOn
    <3> QED
      BY <2>1, <3>2, <3>3 DEF Obeys, Asks
  <2>9. CASE n = Submit(free, t, answer, gate)
    <3>1. free.idleCheck = None
      BY <1>5, <2>4
    <3>2. Fit(n) /\ Heeds(free, n)
      <4> HIDE DEF t
      <4> QED
        BY <1>1, <2>5, <2>6, <2>7, <2>9, <3>1, SubmitFit
    <3>3. Heeds(w, n)
      BY <2>7, <3>2 DEF Obeys, Heeds, Goes, LeavesMissed
    <3>4. Asks(w, n)
      BY <2>1, <2>3 DEF Asks
    <3> QED
      BY <2>1, <3>2, <3>3, <3>4
  <2> QED
    BY <1>12, <2>8, <2>9
<1> QED
  BY <1>3, <1>10, <1>11, <1>12

-----------------------------------------------------------------------------
(* The operator's commands: as a handler of the program, but a command may take up what was
   halted, and reserve a sensor that no manual recording uses.                           *)
Renews(w, v) ==
  /\ Goes(v) /\ LeavesMissed(w, v) /\ v.posts = w.posts
  /\ v.owned => w.owned \/ CanReserve

LEMMA RenewsOn ==
  ASSUME NEW w, NEW v, NEW x, Renews(w, v), Obeys(v, x)
  PROVE  Renews(w, x)
BY DEF Renews, Obeys, Heeds, Goes, LeavesMissed

LEMMA TickedFit ==
  ASSUME NEW w, NEW gate, NEW elapsed, Ordered(w, {}, FALSE), Conduct(w), w.state \in Going
  PROVE  /\ Fit(Tick(Save(w), gate, elapsed))
         /\ Obeys(w, Tick(Save(w), gate, elapsed))
<1>1. w \in Worlds
  BY DEF Ordered
<1>2. Fit(Save(w)) /\ Obeys(w, Save(w)) /\ Save(w).state \in Going
  BY <1>1, SaveFit, SaveObeys, SaveAlike DEF Alike
<1>3. Fit(Tick(Save(w), gate, elapsed)) /\ Obeys(Save(w), Tick(Save(w), gate, elapsed))
  BY <1>2, TickFit
<1> QED
  BY <1>2, <1>3, ObeysOn

LEMMA PauseFit ==
  ASSUME NEW w, Fit(w), w.state \in Willing
  PROVE  Fit(Pause(w)) /\ Obeys(w, Pause(w)) /\ Pause(w).state \notin Willing
<1>1. /\ Ordered(w, {}, FALSE) /\ Loose(w) /\ w.state \in Going
  BY DEF Fit, Neat, Conduct, Willing, Going, States
<1>2. CASE w.state = "running"
  <2>1. Pause(w) = Save([w EXCEPT !.state = "pause_requested"])
    BY <1>2 DEF Pause
  <2>2. /\ "pause_requested" \in Going /\ "pause_requested" \notin Willing
        /\ Suits(w, "pause_requested")
    BY <1>1, <1>2 DEF Going, States, Willing, Suits, Sending, Loose, StatesFit
  <2> QED
    BY <1>1, <2>1, <2>2, StateSaved
<1>3. CASE w.state \in {"waiting", "waiting_schedule", "paused_backlog"}
  <2>1. Pause(w) = Save([w EXCEPT !.state = "paused"])
    BY <1>3 DEF Pause, PausedNow
  <2>2. ~w.inFlight
    BY <1>1, <1>3 DEF Loose, StatesFit, Sending
  <2>3. "paused" \in Going /\ "paused" \notin Willing /\ Suits(w, "paused")
    BY <2>2 DEF Going, States, Willing, Suits
  <2> QED
    BY <1>1, <2>1, <2>3, StateSaved
<1> QED
  BY <1>2, <1>3 DEF Willing

LEMMA StopFit ==
  ASSUME NEW w, Fit(w), w.state \in Going, "stop" \in Commands, ~w.preflightPending
  PROVE  Fit(Stop(w)) /\ Obeys(w, Stop(w)) /\ Stop(w).state \notin Willing
<1>1. /\ Ordered(w, {}, FALSE) /\ Loose(w) /\ Neat(w, {}, FALSE) /\ Conduct(w) /\ ~Halted(w)
  BY DEF Fit, Neat, Conduct, Going, Halted
<1>2. CASE w.inFlight
  <2>1. Stop(w) = Save([w EXCEPT !.state = "stop_requested"])
    BY <1>2 DEF Stop
  <2>2. /\ "stop_requested" \in Going /\ "stop_requested" \notin Willing
        /\ Suits(w, "stop_requested")
    BY <1>2 DEF Going, States, Willing, Suits, Sending
  <2>3. Fit(Stop(w)) /\ Obeys(w, Stop(w)) /\ Stop(w).state = "stop_requested"
    <3>1. Ordered(w, {}, FALSE) /\ Loose(w)
      BY <1>1
    <3> QED
      BY <2>1, <2>2, <3>1, StateSaved
  <2> QED
    BY <2>2, <2>3
<1>3. CASE ~w.inFlight
  <2>1. Stop(w) = Stopped(w) /\ Still(w)
    BY <1>1, <1>3, StillGoing DEF Stop
  <2> QED
    BY <1>1, <2>1, StoppedFit DEF Willing
<1> QED
  BY <1>2, <1>3

LEMMA ResumeFit ==
  ASSUME NEW w, NEW gate, NEW elapsed, Fit(w),
         w.state \in {"paused", "paused_backlog", "pause_requested"}
  PROVE  Fit(Resume(w, gate, elapsed)) /\ Renews(w, Resume(w, gate, elapsed))
<1> DEFINE n == Resume(w, gate, elapsed)
           begun == \E k \in Rows : InPass(w) /\ w.tasks[<<w.current, k>>] # "queued"
           s == CASE w.state = "pause_requested" -> "running"
                  [] w.state # "pause_requested" /\ ~InPass(w) -> "waiting_schedule"
                  [] w.state # "pause_requested" /\ InPass(w) /\ HasWait /\ begun -> "waiting"
                  [] OTHER -> "running"
           u == [w EXCEPT !.state = s]
<1> SUFFICES Fit(n) /\ Renews(w, n)
  OBVIOUS
<1>1. w \in Worlds /\ Ordered(w, {}, FALSE) /\ Loose(w) /\ w.state \in Going
  BY DEF Fit, Neat, Ordered, Conduct, Going, States
<1>2. n = Tick(Save(u), gate, elapsed)
  <2>1. CASE w.state = "pause_requested"
    BY <2>1 DEF Resume
  <2>2. CASE w.state \in {"paused", "paused_backlog"}
    <3>1. s = CASE ~InPass(w) -> "waiting_schedule"
                [] InPass(w) /\ HasWait /\ begun -> "waiting"
                [] OTHER -> "running"
      BY <2>2
    <3> QED
      BY <2>2, <3>1 DEF Resume
  <2> QED
    BY <2>1, <2>2
<1>3. s \in Going /\ Suits(w, s)
  <2>1. w.state = "pause_requested" => InPass(w)
    BY <1>1 DEF Loose, StatesFit
  <2>2. w.state # "pause_requested" => ~w.inFlight
    BY <1>1 DEF Loose, StatesFit, Sending
  <2>3. /\ s \in {"running", "waiting", "waiting_schedule"}
        /\ s \in {"running", "waiting"} => InPass(w)
        /\ w.state = "pause_requested" => s = "running"
    BY <2>1
  <2> HIDE DEF s
  <2> QED
    BY <2>2, <2>3 DEF Going, States, Suits, Sending
<1> HIDE DEF s, n
<1>4. Ordered(u, {}, FALSE) /\ Conduct(u) /\ u.state = s
  BY <1>1, <1>3, StateConduct
<1>5. u.rounds = w.rounds /\ u.owned = w.owned /\ u.posts = w.posts
  BY <1>1 DEF Worlds
<1> HIDE DEF u
<1>6. Renews(w, u)
  BY <1>3, <1>4, <1>5 DEF Renews, Goes, LeavesMissed
<1>7. Fit(n) /\ Obeys(u, n)
  BY <1>2, <1>3, <1>4, TickedFit
<1> QED
  BY <1>6, <1>7, RenewsOn

LEMMA StartSessionFit ==
  ASSUME NEW w, NEW gate, NEW elapsed, Fit(w), w.state = "idle"
  PROVE  LET n == StartSession(w, gate, elapsed)
         IN  Fit(n) /\ Goes(n) /\ n.posts = w.posts
<1> DEFINE n == StartSession(w, gate, elapsed)
           first == [i \in Rounds |-> CASE Mode = "times" -> "pending"
                                        [] Mode = "now" /\ i = 1 -> "due"
                                        [] OTHER -> "none"]
           v == [w EXCEPT !.rounds = first, !.owned = TRUE, !.timer = TRUE,
                          !.state = "waiting_schedule"]
           c == Classify(v, FALSE)
<1> SUFFICES Fit(n) /\ Goes(n) /\ n.posts = w.posts
  OBVIOUS
<1>1. /\ w \in Worlds /\ Ordered(w, {}, FALSE) /\ ~InPass(w) /\ Loose(w)
  BY DEF Fit, Neat, Ordered, Steady, Conduct
<1>2. /\ first \in [Rounds -> RoundStates]
      /\ \A i \in Rounds : first[i] \in Vacant
      /\ \A i \in Rounds : first[i] \notin Counted \cup {"running"}
  BY DEF RoundStates, Vacant, Open, Counted
<1>3. n = Tick(Save(IF Mode = "times" THEN c ELSE v), gate, elapsed)
  BY DEF StartSession
<1> HIDE DEF first, n
<1>4. /\ v \in Worlds /\ v.tasks = w.tasks /\ v.rounds = first /\ v.current = w.current
      /\ v.capture = w.capture /\ v.inFlight = w.inFlight /\ v.state = "waiting_schedule"
      /\ v.preflightPending = w.preflightPending /\ v.idleCheck = w.idleCheck
      /\ v.posts = w.posts
  BY <1>1, <1>2 DEF Worlds, States
<1>5. v.owned
  BY <1>1 DEF Worlds
<1> HIDE DEF v
<1>6. ~w.inFlight /\ Still(w) /\ w.current = 0
  BY <1>1, StillBetween DEF Still, InPass
<1>7. ~w.preflightPending
  BY <1>1 DEF Loose, CheckIsDue, Going
<1>8. ~v.inFlight /\ ~v.preflightPending
  BY <1>4, <1>6, <1>7, Zenon
<1>9. w.idleCheck = None /\ \A t \in Keys : w.tasks[t] = "none"
  BY <1>1 DEF Loose, IdleCheckOfRow, RowsOfBegun
<1>10. ~InPass(v) /\ ~Halted(v) /\ v.state \in Going
  BY <1>4, <1>6 DEF InPass, Halted, Going, States
<1>11. Ordered(v, {}, FALSE)
  <2>1. RunningIsCurrent(v) /\ CountedIsComplete(v) /\ CurrentIsBegun(v)
    BY <1>2, <1>4, <1>6, <1>10 DEF RunningIsCurrent, CountedIsComplete, CurrentIsBegun, Rounds
  <2>2. BegunTogether(v) /\ SentIsCurrent(v)
    BY <1>1, <1>4 DEF Ordered, Passes, BegunTogether, SentIsCurrent
  <2>3. Flight(v)
    <3>1. v.capture.phase = "idle"
      BY <1>1, <1>4, <1>6 DEF Ordered, Flight
    <3>2. \A t \in Keys : v.tasks[t] # "submitting"
      BY <1>4, <1>6 DEF Still
    <3> QED
      BY <1>8, <3>1, <3>2 DEF Flight
  <2>4. Steady(v, {}, FALSE)
    BY <1>4, <1>10 DEF Steady, Halted
  <2> QED
    BY <1>4, <2>1, <2>2, <2>3, <2>4 DEF Ordered, Passes
<1>12. Conduct(v)
  <2>1. CheckIsDue(v) /\ IdleCheckIsStale(v) /\ IdleCheckOfRow(v)
    BY <1>4, <1>8, <1>9 DEF CheckIsDue, IdleCheckIsStale, IdleCheckOfRow
  <2>2. RowsOfBegun(v)
    <3>1. \A i \in Rounds, k \in Rows : <<i, k>> \in Keys
      BY DEF Keys
    <3> QED
      BY <1>4, <1>9, <3>1 DEF RowsOfBegun
  <2>3. StatesFit(v) /\ StopIsPending(v) /\ SentIsMarked(v)
    BY <1>4, <1>8 DEF StatesFit, StopIsPending, SentIsMarked
  <2>4. Reserved(v)
    BY <1>5 DEF Reserved
  <2>5. Vouched(v)
    BY <1>10 DEF Vouched
  <2> QED
    BY <2>1, <2>2, <2>3, <2>4, <2>5 DEF Conduct, Loose
<1>13. /\ Ordered(c, {}, FALSE) /\ Conduct(c) /\ c.state = v.state /\ c.posts = v.posts
  <2>1. \A busy : Conduct(Classify(v, busy)) /\ Alike(v, Classify(v, busy))
    BY <1>4, <1>12, ClassifyConduct
  <2>2. ASSUME NEW m, NEW q, NEW busy, Ordered(v, m, q) PROVE Ordered(Classify(v, busy), m, q)
    BY <2>2, ClassifyNeat
  <2>3. Ordered(c, {}, FALSE)
    BY <1>11, <2>2, Zenon
  <2>4. Conduct(c) /\ Alike(v, c)
    BY <2>1, Zenon
  <2> HIDE DEF c
  <2> QED
    BY <2>3, <2>4 DEF Alike
<1> HIDE DEF c
<1>14. ASSUME NEW x, Ordered(x, {}, FALSE), Conduct(x), x.state = v.state, x.posts = v.posts,
              n = Tick(Save(x), gate, elapsed)
       PROVE  Fit(n) /\ Goes(n) /\ n.posts = w.posts
  <2>1. Fit(n) /\ Obeys(x, n)
    BY <1>10, <1>14, TickedFit
  <2> QED
    BY <1>4, <1>14, <2>1 DEF Obeys, Heeds
<1>15. CASE Mode = "times"
  BY <1>3, <1>13, <1>14, <1>15
<1>16. CASE Mode # "times"
  BY <1>3, <1>11, <1>12, <1>14, <1>16
<1> QED
  BY <1>15, <1>16

(* "Retry failed rows" at the end of a collection that was not stopped. *)

LEMMA RetryFit ==
  ASSUME NEW w, NEW i \in Rounds, NEW gate, NEW elapsed, Fit(w), w.state = "done",
         w.checked, "stop" \notin Commands, ~RetryRefused(w, i)
  PROVE  Fit(Retry(w, i, gate, elapsed)) /\ Renews(w, Retry(w, i, gate, elapsed))
<1> DEFINE n == Retry(w, i, gate, elapsed)
           keys == RetryableKeys(w, i)
           newTasks == [t \in Keys |-> IF t \in keys THEN "queued" ELSE w.tasks[t]]
           newPermits == [t \in Keys |-> IF t \in keys THEN w.permits[t] + 1 ELSE w.permits[t]]
           status == IF InPass(w) THEN w.rounds[i] ELSE "running"
           holds == w.owned \/ AtRest(w)
           ticks == w.timer \/ AtRest(w)
           s == IF AtRest(w) THEN "running" ELSE w.state
           v == [w EXCEPT !.tasks = newTasks, !.permits = newPermits, !.rounds[i] = status,
                          !.current = i, !.owned = holds, !.timer = ticks, !.state = s]
<1> SUFFICES Fit(n) /\ Renews(w, n)
  OBVIOUS
<1>1. /\ w \in Worlds /\ Ordered(w, {}, FALSE) /\ Loose(w) /\ ~InPass(w) /\ AtRest(w)
      /\ CanReserve /\ keys # {}
  BY DEF Fit, Neat, Ordered, Steady, Conduct, AtRest, RetryRefused
<1>2. newTasks \in [Keys -> Statuses] /\ newPermits \in [Keys -> Nat]
  BY <1>1 DEF Worlds, Statuses
<1>3. PICK l \in Rows : <<i, l>> \in Keys /\ w.tasks[<<i, l>>] \in Retryable
  <2>1. PICK t \in Keys : t[1] = i /\ w.tasks[t] \in Retryable
    BY <1>1 DEF RetryableKeys
  <2>2. PICK l \in Rows : t = <<i, l>>
    BY <2>1 DEF Keys
  <2> QED
    BY <2>1, <2>2
<1>4. Queues(w, i, newTasks) /\ \A t \in Keys : t[1] # i => newTasks[t] = w.tasks[t]
  <2>1. \A t \in Keys : newTasks[t] = w.tasks[t] \/ (t[1] = i /\ newTasks[t] = "queued")
    BY DEF RetryableKeys
  <2>2. \A t \in Keys : t[1] # i => newTasks[t] = w.tasks[t]
    BY DEF RetryableKeys
  <2>3. \A k \in Rows : <<i, k>> \in Keys /\ w.tasks[<<i, k>>] # "none"
    BY <1>1, <1>3 DEF Ordered, Passes, BegunTogether, Retryable, Keys
  <2> HIDE DEF newTasks
  <2>4. \A k \in Rows : newTasks[<<i, k>>] # "none"
    BY <2>1, <2>3
  <2> QED
    BY <2>1, <2>2, <2>4 DEF Queues
<1>5. status = "running" /\ s = "running"
  BY <1>1
<1>6. holds /\ ticks
  BY <1>1
<1>7. n = Tick(Save(v), gate, elapsed)
  BY DEF Retry
<1>8. holds \in BOOLEAN /\ ticks \in BOOLEAN
  BY <1>6
<1> HIDE DEF keys, newTasks, newPermits, status, holds, ticks, s, n
<1>9. [w.rounds EXCEPT ![i] = status] \in [Rounds -> RoundStates]
  BY <1>1, <1>5 DEF Worlds, RoundStates
<1>10. i \in 0 .. NRounds /\ i # 0 /\ s \in States
  BY <1>5, SizeAssumption DEF Rounds, States
<1>11. /\ v \in Worlds /\ v.tasks = newTasks /\ v.rounds = [w.rounds EXCEPT ![i] = status]
       /\ v.current = i /\ v.state = s /\ v.inFlight = w.inFlight /\ v.capture = w.capture
       /\ v.preflightDue = w.preflightDue /\ v.preflightPending = w.preflightPending
       /\ v.idleCheck = w.idleCheck /\ v.posts = w.posts /\ v.checked = w.checked
  BY <1>1, <1>2, <1>8, <1>9, <1>10 DEF Worlds
<1>12. v.owned
  BY <1>1, <1>6 DEF Worlds
<1> HIDE DEF v
<1>13. \A j \in Rounds : v.rounds[j] = IF j = i THEN "running" ELSE w.rounds[j]
  BY <1>1, <1>5, <1>11 DEF Worlds
<1>14. v.state \in Going /\ v.state = "running" /\ InPass(v) /\ ~Halted(v)
  BY <1>5, <1>10, <1>11 DEF Going, States, InPass, Halted
<1>15. Ordered(v, {}, FALSE)
  BY <1>1, <1>2, <1>4, <1>5, <1>11, <1>14, NewPassOrdered
<1>16. ~w.inFlight
  BY <1>1 DEF Ordered, Flight
<1>17. ~w.preflightPending
  BY <1>1 DEF Loose, CheckIsDue, Going
<1>18. ~v.inFlight /\ ~v.preflightPending
  BY <1>11, <1>16, <1>17, Zenon
<1>19. w.idleCheck = None
  <2>1. w.idleCheck # None => w.idleCheck \in Keys /\ w.idleCheck[1] = 0
    BY <1>1 DEF Worlds, Loose, IdleCheckOfRow, InPass
  <2> QED
    BY <2>1 DEF Keys, Rounds
<1>20. Conduct(v)
  <2>1. CheckIsDue(v) /\ IdleCheckIsStale(v) /\ IdleCheckOfRow(v)
    BY <1>11, <1>18, <1>19 DEF CheckIsDue, IdleCheckIsStale, IdleCheckOfRow
  <2>2. RowsOfBegun(v)
    <3>1. ASSUME NEW j \in Rounds, v.rounds[j] \in Vacant, NEW k \in Rows
          PROVE  v.tasks[<<j, k>>] = "none"
      <4>1. j # i /\ w.rounds[j] \in Vacant /\ <<j, k>> \in Keys
        BY <1>13, <3>1 DEF Vacant, Open, Keys
      <4> QED
        BY <1>1, <1>4, <1>11, <4>1 DEF Loose, RowsOfBegun
    <3> QED
      BY <1>14, <3>1 DEF RowsOfBegun
  <2>3. StatesFit(v) /\ StopIsPending(v) /\ SentIsMarked(v)
    BY <1>14, <1>18 DEF StatesFit, StopIsPending, SentIsMarked
  <2>4. Reserved(v)
    BY <1>12 DEF Reserved
  <2>5. v.checked
    BY <1>11, Zenon
  <2>6. Vouched(v)
    BY <1>14, <2>5 DEF Vouched
  <2> QED
    BY <2>1, <2>2, <2>3, <2>4, <2>6 DEF Conduct, Loose
<1>21. Renews(w, v)
  <2>1. w.rounds[i] \notin {"missed", "skipped"}
    BY <1>1, <1>3 DEF Loose, RowsOfBegun, Vacant, Retryable
  <2> QED
    BY <1>1, <1>11, <1>13, <1>14, <2>1 DEF Renews, Goes, LeavesMissed
<1>22. Fit(n) /\ Obeys(v, n)
  BY <1>7, <1>14, <1>15, <1>20, TickedFit
<1> QED
  BY <1>21, <1>22, RenewsOn

-----------------------------------------------------------------------------
(* Recovery.  A file check and "Skip" give rows that have begun an outcome, in a collection
   that has ended or waits to be continued.                                              *)
Settles(w, f) ==
  \A t \in Keys : f[t] = w.tasks[t] \/ (w.tasks[t] # "none" /\ f[t] \notin Unsettled)
Recounts(w, v) ==
  \A i \in Rounds : v.rounds[i] = w.rounds[i] \/ {v.rounds[i], w.rounds[i]} \subseteq Counted
(* Nothing else changes, and the session file says so. *)
Revises(w, v) ==
  /\ v.state = w.state /\ v.current = w.current /\ v.owned = w.owned /\ v.checked = w.checked
  /\ v.downloadsOnly = w.downloadsOnly /\ v.posts = w.posts /\ Recounts(w, v)
  /\ \/ v.disk = w.disk /\ v.rounds = w.rounds
     \/ v.disk.state = v.state /\ v.disk.rounds = v.rounds

LEMMA SettledConduct ==
  ASSUME NEW w, Ordered(w, {}, FALSE), Conduct(w), w.state \in {"interrupted", "done"},
         NEW v, Settles(w, v.tasks), Recounts(w, v),
         v.state = w.state, v.current = w.current, v.inFlight = w.inFlight,
         v.preflightDue = w.preflightDue, v.preflightPending = w.preflightPending,
         v.idleCheck = w.idleCheck, v.owned = w.owned, v.checked = w.checked
  PROVE  Conduct(v)
<1>1. w \in Worlds /\ Loose(w) /\ w.state \notin Going
  BY DEF Ordered, Conduct, Going
<1>2. ~w.inFlight /\ ~w.preflightPending
  BY <1>1 DEF Ordered, Flight, Loose, CheckIsDue
<1>3. ~v.inFlight /\ ~v.preflightPending
  BY <1>2, Zenon
<1>4. InPass(v) = InPass(w) /\ Halted(v) = Halted(w)
  BY DEF InPass, Halted
<1>5. \A t \in Keys : w.tasks[t] = "none" <=> v.tasks[t] = "none"
  BY DEF Settles, Unsettled
<1>6. "stop" \notin Commands => w.idleCheck = None
  <2>1. CASE w.state = "interrupted"
    BY <1>1, <2>1 DEF Loose, IdleCheckOfRow
  <2>2. CASE w.state = "done"
    <3>1. w.current = 0
      BY <2>2 DEF Ordered, Steady, InPass
    <3> QED
      BY <1>1, <3>1 DEF Loose, IdleCheckOfRow, Worlds, Keys, Rounds
  <2> QED
    BY <2>1, <2>2
<1>7. CheckIsDue(v)
  BY <1>3 DEF CheckIsDue
<1>8. IdleCheckIsStale(v)
  BY <1>1 DEF Loose, IdleCheckIsStale
<1>9. IdleCheckOfRow(v)
  BY <1>1, <1>5, <1>6 DEF Loose, IdleCheckOfRow, Worlds
<1>10. RowsOfBegun(v)
  <2>1. \A i \in Rounds, k \in Rows : <<i, k>> \in Keys
    BY DEF Keys
  <2>2. \A i \in Rounds : v.rounds[i] \in Vacant => w.rounds[i] \in Vacant
    BY DEF Recounts, Vacant, Open, Counted
  <2> QED
    BY <1>1, <1>5, <2>1, <2>2 DEF Loose, RowsOfBegun
<1>11. StatesFit(v) /\ StopIsPending(v) /\ SentIsMarked(v)
  BY <1>3 DEF StatesFit, StopIsPending, SentIsMarked
<1>12. Reserved(v)
  BY <1>1 DEF Loose, Reserved
<1>13. Vouched(v)
  BY <1>1, <1>4 DEF Loose, Vouched
<1> QED
  BY <1>7, <1>8, <1>9, <1>10, <1>11, <1>12, <1>13 DEF Conduct, Loose

(* What is left when the rows are written down. *)

LEMMA RevisedFit ==
  ASSUME NEW w, Ordered(w, {}, FALSE), Conduct(w), w.state \in {"interrupted", "done"},
         NEW v \in Worlds, Settles(w, v.tasks), Recounts(w, v),
         v.state = w.state, v.current = w.current, v.inFlight = w.inFlight,
         v.preflightDue = w.preflightDue, v.preflightPending = w.preflightPending,
         v.idleCheck = w.idleCheck, v.owned = w.owned, v.checked = w.checked,
         v.downloadsOnly = w.downloadsOnly, v.posts = w.posts, Neat(Save(v), {}, FALSE)
  PROVE  Fit(Save(v)) /\ Revises(w, Save(v))
<1>1. Conduct(v)
  BY SettledConduct
<1>2. Fit(Save(v))
  BY <1>1, SaveConduct DEF Fit
<1>3. /\ Alike(v, Save(v)) /\ Save(v).rounds = v.rounds /\ Save(v).disk.rounds = v.rounds
      /\ Save(v).downloadsOnly = v.downloadsOnly
  BY SaveAlike
<1>4. Save(v).disk.state = v.state
  BY DEF Save, Session, Worlds
<1> QED
  BY <1>2, <1>3, <1>4 DEF Revises, Recounts, Alike

LEMMA OnFilesCheckedFit ==
  ASSUME NEW w, NEW wanted, NEW verdict \in Confirmed, Fit(w),
         w.state \in {"interrupted", "done"}
  PROVE  /\ Fit(OnFilesChecked(w, wanted, verdict))
         /\ Revises(w, OnFilesChecked(w, wanted, verdict))
<1> DEFINE found(t) == \E n \in recorded[t] : <<t, n>> \in wanted
           f == [t \in Keys |-> CASE t \notin UncertainKeys(w) -> w.tasks[t]
                                  [] t \in UncertainKeys(w) /\ found(t) -> verdict
                                  [] OTHER -> "no_file"]
           v == [w EXCEPT !.tasks = f]
           counts == [i \in Rounds |->
                        IF i # v.current /\ v.rounds[i] \in {"done", "partial", "failed"}
                          THEN Verdict(v, i) ELSE v.rounds[i]]
           u == [v EXCEPT !.rounds = counts]
<1>1. w \in Worlds /\ Ordered(w, {}, FALSE) /\ Conduct(w)
  BY DEF Fit, Neat, Ordered
<1>2. /\ f \in [Keys -> Statuses]
      /\ \A t \in Keys : f[t] = w.tasks[t] \/ (w.tasks[t] # "none" /\ f[t] \notin Unsettled)
  BY <1>1 DEF Worlds, Statuses, Confirmed, UncertainKeys, Uncertain, Unsettled
<1> HIDE DEF f
<1>3. /\ v \in Worlds /\ v.tasks = f /\ v.rounds = w.rounds /\ v.current = w.current
      /\ v.state = w.state /\ v.inFlight = w.inFlight /\ v.preflightDue = w.preflightDue
      /\ v.preflightPending = w.preflightPending /\ v.idleCheck = w.idleCheck
      /\ v.owned = w.owned /\ v.checked = w.checked /\ v.posts = w.posts
      /\ v.downloadsOnly = w.downloadsOnly
  BY <1>1, <1>2 DEF Worlds
<1> HIDE DEF v
<1>4. \A i \in Rounds : counts[i] = v.rounds[i] \/ {counts[i], v.rounds[i]} \subseteq Counted
  BY VerdictCounted DEF Counted
<1>5. counts \in [Rounds -> RoundStates]
  BY <1>3, VerdictType DEF Worlds
<1> HIDE DEF counts
<1>6. /\ u \in Worlds /\ u.tasks = f /\ u.rounds = counts /\ u.current = w.current
      /\ u.state = w.state /\ u.inFlight = w.inFlight /\ u.preflightDue = w.preflightDue
      /\ u.preflightPending = w.preflightPending /\ u.idleCheck = w.idleCheck
      /\ u.owned = w.owned /\ u.checked = w.checked /\ u.posts = w.posts
      /\ u.downloadsOnly = w.downloadsOnly
  BY <1>3, <1>5 DEF Worlds
<1>7. OnFilesChecked(w, wanted, verdict) = Save(u)
  BY DEF OnFilesChecked, Recount, f, v, counts, u
<1> HIDE DEF u
<1>8. Neat(Save(u), {}, FALSE)
  <2>1. ASSUME NEW m, NEW q, Ordered(w, m, q)
        PROVE  Neat(OnFilesChecked(w, wanted, verdict), m, q)
    BY <2>1, OnFilesCheckedNeat
  <2> QED
    BY <1>1, <1>7, <2>1
<1>9. Settles(w, u.tasks) /\ Recounts(w, u)
  BY <1>2, <1>3, <1>4, <1>6 DEF Settles, Recounts
<1> QED
  BY <1>1, <1>6, <1>7, <1>8, <1>9, RevisedFit

LEMMA SkipUncertainFit ==
  ASSUME NEW w, Fit(w), w.state = "interrupted"
  PROVE  Fit(SkipUncertain(w)) /\ Revises(w, SkipUncertain(w))
<1> DEFINE meant == {IF InPass(w) THEN <<w.current, t[2]>> ELSE t : t \in UncertainKeys(w)}
           skipped == {t \in meant : w.tasks[t] \notin Confirmed \cup {"none"}}
           f == [t \in Keys |-> IF t \in skipped THEN "skipped" ELSE w.tasks[t]]
           v == [w EXCEPT !.tasks = f]
<1>1. w \in Worlds /\ Ordered(w, {}, FALSE) /\ Conduct(w)
  BY DEF Fit, Neat, Ordered
<1>2. CASE skipped = {}
  <2>1. SkipUncertain(w) = w
    BY <1>2 DEF SkipUncertain
  <2> QED
    BY <2>1 DEF Revises, Recounts
<1>3. CASE skipped # {}
  <2>1. SkipUncertain(w) = Save(v)
    BY <1>3 DEF SkipUncertain
  <2>2. \A t \in skipped : w.tasks[t] # "none"
    OBVIOUS
  <2> HIDE DEF skipped
  <2>3. /\ f \in [Keys -> Statuses]
        /\ \A t \in Keys : f[t] = w.tasks[t] \/ (w.tasks[t] # "none" /\ f[t] \notin Unsettled)
    BY <1>1, <2>2 DEF Worlds, Statuses, Unsettled
  <2> HIDE DEF f
  <2>4. /\ v \in Worlds /\ v.tasks = f /\ v.rounds = w.rounds /\ v.current = w.current
        /\ v.state = w.state /\ v.inFlight = w.inFlight /\ v.preflightDue = w.preflightDue
        /\ v.preflightPending = w.preflightPending /\ v.idleCheck = w.idleCheck
        /\ v.owned = w.owned /\ v.checked = w.checked /\ v.posts = w.posts
        /\ v.downloadsOnly = w.downloadsOnly
    BY <1>1, <2>3 DEF Worlds
  <2> HIDE DEF v
  <2>5. Neat(Save(v), {}, FALSE)
    <3>1. ASSUME NEW m, NEW q, Neat(w, m, q) PROVE Neat(SkipUncertain(w), m, q)
      BY <3>1, SkipUncertainNeat
    <3> QED
      BY <2>1, <3>1 DEF Fit
  <2>6. Settles(w, v.tasks) /\ Recounts(w, v)
    BY <2>3, <2>4 DEF Settles, Recounts
  <2> QED
    BY <1>1, <2>1, <2>4, <2>5, <2>6, RevisedFit
<1> QED
  BY <1>2, <1>3

(* Passes whose time has gone by are missed. *)
Misses(w, v) ==
  \A i \in Rounds : w.rounds[i] \in Open /\ clock[i] # "ahead" => v.rounds[i] = "missed"

LEMMA MarkMissedConduct ==
  ASSUME NEW w \in Worlds, Loose(w)
  PROVE  LET v == MarkMissed(w)
         IN  /\ Loose(v) /\ (Conduct(w) => Conduct(v)) /\ Alike(w, v)
             /\ LeavesMissed(w, v) /\ Misses(w, v) /\ v.disk = w.disk
<1> DEFINE f == [i \in Rounds |-> IF w.rounds[i] \in Open /\ clock[i] # "ahead" THEN "missed"
                                  ELSE w.rounds[i]]
           v == MarkMissed(w)
<1>1. \A i \in Rounds : Waits(w.rounds[i], f[i])
  BY DEF Waits, Vacant
<1>2. \A i \in Rounds : /\ w.rounds[i] \in {"missed", "skipped"} => f[i] = w.rounds[i]
                        /\ w.rounds[i] \in Open /\ clock[i] # "ahead" => f[i] = "missed"
  BY DEF Open
<1>3. v = [w EXCEPT !.rounds = f]
  BY DEF MarkMissed
<1> HIDE DEF f, v
<1>4. Loose(v) /\ (Conduct(w) => Conduct(v)) /\ Alike(w, v) /\ v.rounds = f /\ v.disk = w.disk
  BY <1>1, <1>3, RoundsConduct
<1> QED
  BY <1>2, <1>4 DEF LeavesMissed, Misses, v

(* "Continue": the collection goes on with the check of its pass before it, and with the
   passes whose time went by missed; or it had ended and rests.                         *)

LEMMA ContinueFit ==
  ASSUME NEW w, NEW gate, NEW elapsed, Fit(w), w.state = "interrupted", CanContinue(w)
  PROVE  /\ Fit(Continue(w, gate, elapsed)) /\ Renews(w, Continue(w, gate, elapsed))
         /\ IF w.downloadsOnly THEN Continue(w, gate, elapsed).state = "done"
                               ELSE Misses(w, Continue(w, gate, elapsed))
<1> DEFINE n == Continue(w, gate, elapsed)
           held == [w EXCEPT !.owned = TRUE, !.timer = TRUE, !.inFlight = FALSE]
           marked == MarkMissed(held)
           s == IF InPass(w) THEN "running" ELSE "waiting_schedule"
           on == [marked EXCEPT !.state = s, !.preflightDue = InPass(w)]
           rest == [w EXCEPT !.downloadsOnly = FALSE, !.state = "done"]
<1> SUFFICES /\ Fit(n) /\ Renews(w, n)
             /\ IF w.downloadsOnly THEN n.state = "done" ELSE Misses(w, n)
  OBVIOUS
<1>1. /\ w \in Worlds /\ Ordered(w, {}, FALSE) /\ Neat(w, {}, FALSE) /\ Conduct(w)
      /\ Loose(w) /\ Halted(w) /\ w.state \notin Going
  BY DEF Fit, Neat, Ordered, Conduct, Halted, Going
<1>2. ~w.inFlight /\ ~w.preflightPending /\ w.idleCheck = None /\ ~w.checked
  BY <1>1 DEF Ordered, Flight, Loose, CheckIsDue, IdleCheckOfRow, Vouched
<1>3. CASE w.downloadsOnly
  <2>1. n = Save(rest)
    BY <1>3 DEF Continue
  <2>2. Neat(n, {}, FALSE)
    <3>1. ASSUME NEW m, NEW q, Neat(w, m, q) PROVE Neat(Continue(w, gate, elapsed), m, q)
      BY <1>3, <3>1, ContinueNeat
    <3> QED
      BY <1>1, <3>1, Zenon
  <2>3. /\ rest \in Worlds /\ rest.state = "done" /\ rest.tasks = w.tasks
        /\ rest.rounds = w.rounds /\ rest.current = w.current /\ rest.inFlight = w.inFlight
        /\ rest.preflightPending = w.preflightPending /\ rest.idleCheck = w.idleCheck
        /\ rest.owned = w.owned /\ rest.posts = w.posts
    BY <1>1 DEF Worlds, States
  <2> HIDE DEF rest, n
  <2>4. ~rest.inFlight /\ ~rest.preflightPending
    BY <1>2, <2>3, Zenon
  <2>5. ~InPass(rest) /\ ~Halted(rest) /\ rest.state \notin Going
    BY <1>1, <1>3, <2>3 DEF Ordered, Steady, InPass, Halted, Going
  <2>6. Conduct(rest)
    <3>1. CheckIsDue(rest) /\ IdleCheckIsStale(rest) /\ IdleCheckOfRow(rest)
      BY <1>2, <2>3, <2>4 DEF CheckIsDue, IdleCheckIsStale, IdleCheckOfRow
    <3>2. RowsOfBegun(rest)
      BY <1>1, <2>3 DEF Loose, RowsOfBegun
    <3>3. StatesFit(rest) /\ StopIsPending(rest) /\ SentIsMarked(rest) /\ Reserved(rest)
      BY <2>3, <2>4, <2>5 DEF StatesFit, StopIsPending, SentIsMarked, Reserved
    <3>4. Vouched(rest)
      BY <2>5 DEF Vouched
    <3> QED
      BY <3>1, <3>2, <3>3, <3>4 DEF Conduct, Loose
  <2>7. /\ Conduct(Save(rest)) /\ Alike(rest, Save(rest)) /\ Save(rest).rounds = rest.rounds
        /\ Save(rest).disk.rounds = rest.rounds
    BY <2>3, <2>6, SaveConduct, SaveAlike
  <2>8. Renews(w, Save(rest)) /\ Save(rest).state = "done"
    BY <2>3, <2>7 DEF Alike, Renews, Goes, LeavesMissed
  <2> QED
    BY <1>3, <2>1, <2>2, <2>7, <2>8 DEF Fit
<1>4. CASE ~w.downloadsOnly
  <2>0. UncertainKeys(w) = {} /\ CanReserve
    BY <1>4 DEF CanContinue
  <2>1. /\ held \in Worlds /\ held.tasks = w.tasks /\ held.rounds = w.rounds
        /\ held.current = w.current /\ held.state = w.state
        /\ held.capture = w.capture /\ held.preflightPending = w.preflightPending
        /\ held.preflightDue = w.preflightDue /\ held.idleCheck = w.idleCheck
        /\ held.checked = w.checked /\ held.posts = w.posts
        /\ held.downloadsOnly = w.downloadsOnly /\ held.disk = w.disk
        /\ held.attempts = w.attempts /\ held.recordOf = w.recordOf
    BY <1>1 DEF Worlds
  <2>2. ~held.inFlight /\ held.owned
    BY <1>1 DEF Worlds
  <2>3. held.inFlight = w.inFlight
    BY <1>1, <1>2 DEF Worlds
  <2>a. n = IF InPass(w) /\ QueuedRows(w) = {}
              THEN Tick(Save(FinishRound(marked, FALSE)), gate, elapsed)
              ELSE Tick(Save(on), gate, elapsed)
    BY <1>4 DEF Continue
  <2> HIDE DEF held, n
  <2>4. Neat(held, {}, FALSE)
    <3>1. ASSUME NEW m, NEW q, Neat(w, m, q) PROVE Neat(held, m, q)
      BY <2>1, <2>3, <3>1, Aside DEF Neat
    <3> QED
      BY <1>1, <3>1, Zenon
  <2>5. ~held.preflightPending
    BY <1>2, <2>1, Zenon
  <2>6. Loose(held)
    <3>1. CheckIsDue(held) /\ IdleCheckIsStale(held) /\ IdleCheckOfRow(held)
      BY <1>2, <2>1, <2>5 DEF CheckIsDue, IdleCheckIsStale, IdleCheckOfRow
    <3>2. RowsOfBegun(held)
      BY <1>1, <2>1 DEF Loose, RowsOfBegun
    <3>3. StatesFit(held) /\ SentIsMarked(held) /\ Reserved(held)
      BY <2>1, <2>2 DEF StatesFit, SentIsMarked, Reserved
    <3>4. Vouched(held)
      BY <1>1, <2>1 DEF Loose, Vouched, InPass, Halted
    <3> QED
      BY <3>1, <3>2, <3>3, <3>4 DEF Loose
  <2>7. /\ Loose(marked) /\ Alike(held, marked) /\ LeavesMissed(held, marked)
        /\ Misses(held, marked) /\ marked.disk = held.disk
    BY <2>1, <2>6, MarkMissedConduct
  <2>8. Neat(marked, {}, FALSE) /\ marked.downloadsOnly = held.downloadsOnly
    <3>1. ASSUME NEW m, NEW q, Neat(held, m, q)
          PROVE  Neat(marked, m, q) /\ marked.downloadsOnly = held.downloadsOnly
      BY <3>1, MarkMissedNeat DEF Neat
    <3> QED
      BY <2>4, <3>1, Zenon
  <2> HIDE DEF marked
  <2>9. LeavesMissed(w, marked) /\ Misses(w, marked)
    BY <2>1, <2>7 DEF LeavesMissed, Misses
  <2>10. /\ marked.state = w.state /\ marked.current = w.current /\ marked.tasks = w.tasks
         /\ marked.idleCheck = None /\ marked.capture = w.capture /\ marked.posts = w.posts
         /\ InPass(marked) = InPass(w) /\ QueuedRows(marked) = QueuedRows(w)
    BY <1>2, <2>1, <2>7 DEF Alike, InPass, QueuedRows
  <2>11. ~marked.inFlight /\ ~marked.preflightPending /\ marked.owned
    BY <2>2, <2>5, <2>7, Zenon DEF Alike
  <2>12. Still(marked)
    BY <2>0, <2>10, <2>11 DEF Still, UncertainKeys, Uncertain
  <2>13. ASSUME NEW x, Ordered(x, {}, FALSE), Conduct(x), x.state \in Going, x.posts = w.posts,
                \A i \in Rounds : marked.rounds[i] \in {"missed", "skipped"}
                                    => x.rounds[i] = marked.rounds[i],
                n = Tick(Save(x), gate, elapsed)
         PROVE  Fit(n) /\ Renews(w, n) /\ Misses(w, n)
    <3>1. Fit(n) /\ Obeys(x, n)
      BY <2>13, TickedFit
    <3>2. Renews(w, n) /\ Misses(w, n)
      BY <2>0, <2>9, <2>13, <3>1 DEF Renews, Obeys, Heeds, Goes, LeavesMissed, Misses
    <3> QED
      BY <3>1, <3>2
  <2>14. CASE InPass(w) /\ QueuedRows(w) = {}
    <3> DEFINE r == FinishRound(marked, FALSE)
    <3>1. /\ Fit(r) /\ r.state = "waiting_schedule" /\ r.posts = marked.posts
          /\ \A i \in Rounds : marked.rounds[i] \in {"missed", "skipped"}
                                 => r.rounds[i] = marked.rounds[i]
      BY <2>7, <2>8, <2>10, <2>11, <2>12, <2>14, FinishRoundFit
    <3>2. n = Tick(Save(r), gate, elapsed)
      BY <2>a, <2>14
    <3> HIDE DEF r
    <3>3. r.state \in Going /\ Ordered(r, {}, FALSE) /\ Conduct(r) /\ r.posts = w.posts
      BY <2>10, <3>1 DEF Going, States, Fit, Neat
    <3> QED
      BY <1>4, <2>13, <3>1, <3>2, <3>3
  <2>15. CASE ~(InPass(w) /\ QueuedRows(w) = {})
    <3>1. n = Tick(Save(on), gate, elapsed)
      BY <2>a, <2>15
    <3>2. s \in Going /\ s \in States /\ s \notin {"waiting", "pause_requested", "stop_requested"}
          /\ (s = "running" => InPass(w)) /\ InPass(w) \in BOOLEAN
      BY DEF Going, States, InPass
    <3> HIDE DEF s
    <3>3. /\ on \in Worlds /\ on.tasks = marked.tasks /\ on.rounds = marked.rounds
          /\ on.current = marked.current /\ on.state = s /\ on.capture = marked.capture
          /\ on.inFlight = marked.inFlight /\ on.preflightPending = marked.preflightPending
          /\ on.downloadsOnly = marked.downloadsOnly /\ on.idleCheck = marked.idleCheck
          /\ on.owned = marked.owned /\ on.posts = marked.posts
      BY <2>8, <3>2 DEF Neat, Ordered, Worlds
    <3>4. on.preflightDue = InPass(w)
      BY <2>8, <3>2 DEF Neat, Ordered, Worlds
    <3> HIDE DEF on
    <3>5. ~on.inFlight /\ ~on.preflightPending /\ on.owned
      BY <2>11, <3>3, Zenon
    <3>6. InPass(on) = InPass(w) /\ ~Halted(on) /\ on.state \in Going
      BY <2>10, <3>2, <3>3 DEF InPass, Halted, Going
    <3>7. Ordered(on, {}, FALSE)
      <4>1. ASSUME NEW m, NEW q, Ordered(marked, m, q) PROVE Ordered(on, m, q)
        BY <2>12, <3>3, <3>6, <4>1, Aside
      <4> QED
        BY <2>8, <4>1, Zenon DEF Neat
    <3>8. Conduct(on)
      <4>1. CheckIsDue(on) /\ IdleCheckIsStale(on) /\ IdleCheckOfRow(on)
        BY <2>10, <3>3, <3>5 DEF CheckIsDue, IdleCheckIsStale, IdleCheckOfRow
      <4>2. RowsOfBegun(on)
        BY <2>7, <3>2, <3>3, <3>6 DEF Loose, RowsOfBegun, Going
      <4>3. StatesFit(on) /\ StopIsPending(on) /\ SentIsMarked(on)
        BY <3>2, <3>3, <3>5, <3>6 DEF StatesFit, StopIsPending, SentIsMarked
      <4>4. Reserved(on)
        BY <3>5 DEF Reserved
      <4>5. Vouched(on)
        BY <3>4, <3>6, Zenon DEF Vouched
      <4> QED
        BY <4>1, <4>2, <4>3, <4>4, <4>5 DEF Conduct, Loose
    <3> QED
      BY <1>4, <2>10, <2>13, <3>1, <3>3, <3>6, <3>7, <3>8
  <2> QED
    BY <2>14, <2>15
<1> QED
  BY <1>3, <1>4

(* A missed pass is due again, or skipped: the other passes stay as they are. *)
LeavesOthers(w, v, i) ==
  \A j \in Rounds \ {i} : w.rounds[j] \in {"missed", "skipped"} => v.rounds[j] = w.rounds[j]
MissesOthers(w, v, i) ==
  \A j \in Rounds \ {i} : w.rounds[j] \in Open /\ clock[j] # "ahead" => v.rounds[j] = "missed"

LEMMA ReopenedConduct ==
  ASSUME NEW w \in Worlds, Conduct(w), NEW i \in Rounds, w.rounds[i] = "missed",
         NEW s \in {"due", "skipped"}
  PROVE  LET v == [w EXCEPT !.rounds[i] = s]
         IN  /\ v \in Worlds /\ Conduct(v) /\ Alike(w, v) /\ v.disk = w.disk
             /\ v.downloadsOnly = w.downloadsOnly /\ v.rounds[i] = s
             /\ v.rounds = [w.rounds EXCEPT ![i] = s]
             /\ \A j \in Rounds \ {i} : v.rounds[j] = w.rounds[j]
<1> DEFINE v == [w EXCEPT !.rounds[i] = s]
<1>1. [w.rounds EXCEPT ![i] = s] \in [Rounds -> RoundStates]
  BY DEF Worlds, RoundStates
<1>2. /\ v \in Worlds /\ Alike(w, v) /\ v.disk = w.disk /\ v.downloadsOnly = w.downloadsOnly
      /\ v.rounds = [w.rounds EXCEPT ![i] = s]
  BY <1>1 DEF Worlds, Alike
<1> HIDE DEF v
<1>3. v.rounds[i] = s /\ \A j \in Rounds \ {i} : v.rounds[j] = w.rounds[j]
  BY <1>2 DEF Worlds
<1>4. \A j \in Rounds : Waits(w.rounds[j], v.rounds[j])
  BY <1>3 DEF Waits, Vacant, Open
<1>5. Conduct(v)
  BY <1>2, <1>4, AlikeConduct
<1> QED
  BY <1>2, <1>3, <1>5 DEF v

LEMMA RunMissedFit ==
  ASSUME NEW w, NEW i \in Rounds, NEW gate, NEW elapsed, Fit(w), w.rounds[i] = "missed",
         w.state # "closed", w.state = "interrupted" => CanContinue(w),
         w.state \in {"done", "idle"} => CanReserve
  PROVE  LET n == RunMissed(w, i, gate, elapsed)
         IN  /\ Fit(n) /\ Goes(n) /\ n.posts = w.posts
             /\ n.owned => w.owned \/ CanReserve
             /\ w.state \in Going /\ n.state \in Willing => w.state \in Willing
             /\ LeavesOthers(w, n, i)
             /\ w.state = "interrupted" /\ ~w.downloadsOnly => MissesOthers(w, n, i)
<1> DEFINE n == RunMissed(w, i, gate, elapsed)
           c == IF w.state = "interrupted" THEN Continue(w, gate, elapsed) ELSE w
           rested == c.state \in {"done", "idle"}
           s == IF rested THEN "waiting_schedule" ELSE c.state
           holds == c.owned \/ rested
           ticks == c.timer \/ rested
           x == [c EXCEPT !.rounds[i] = "due"]
           v == [c EXCEPT !.rounds[i] = "due", !.owned = holds, !.timer = ticks, !.state = s]
<1> SUFFICES /\ Fit(n) /\ Goes(n) /\ n.posts = w.posts
             /\ n.owned => w.owned \/ CanReserve
             /\ w.state \in Going /\ n.state \in Willing => w.state \in Willing
             /\ LeavesOthers(w, n, i)
             /\ w.state = "interrupted" /\ ~w.downloadsOnly => MissesOthers(w, n, i)
  OBVIOUS
<1>1. w \in Worlds /\ Fit(w)
  BY DEF Fit, Neat, Ordered
<1>2. /\ Fit(c) /\ LeavesMissed(w, c) /\ c.posts = w.posts
      /\ c.owned => w.owned \/ CanReserve
      /\ w.state # "interrupted" => c = w
      /\ w.state = "interrupted" => Goes(c)
      /\ w.state = "interrupted" /\ ~w.downloadsOnly => Misses(w, c)
  <2>1. CASE w.state = "interrupted"
    <3>1. c = Continue(w, gate, elapsed)
      BY <2>1
    <3>2. /\ Fit(c) /\ Renews(w, c) /\ (~w.downloadsOnly => Misses(w, c))
      BY <2>1, <3>1, ContinueFit
    <3> HIDE DEF c
    <3> QED
      BY <2>1, <3>2 DEF Renews
  <2>2. CASE w.state # "interrupted"
    <3>1. c = w
      BY <2>2
    <3> QED
      BY <1>1, <2>2, <3>1 DEF LeavesMissed
  <2> QED
    BY <2>1, <2>2
<1>3. n = IF rested /\ ~CanReserve THEN c ELSE Tick(Save(v), gate, elapsed)
  BY DEF RunMissed
<1> HIDE DEF c, n
<1>4. /\ c \in Worlds /\ Ordered(c, {}, FALSE) /\ Neat(c, {}, FALSE) /\ Conduct(c)
      /\ c.rounds[i] = "missed"
  BY <1>2 DEF Fit, Neat, Ordered, LeavesMissed
<1>5. CASE rested /\ ~CanReserve
  <2>1. n = c /\ w.state = "interrupted"
    BY <1>2, <1>3, <1>5
  <2>2. LeavesOthers(w, c, i) /\ (Misses(w, c) => MissesOthers(w, c, i))
    BY <1>2 DEF LeavesMissed, LeavesOthers, Misses, MissesOthers
  <2> QED
    BY <1>2, <2>1, <2>2 DEF Going
<1>6. CASE ~(rested /\ ~CanReserve)
  <2>1. c.state \in Going \/ rested
    BY <1>1, <1>2 DEF Goes, Worlds, Going
  <2>2. s \in Going /\ s \in States /\ holds \in BOOLEAN /\ ticks \in BOOLEAN
    BY <1>4, <2>1 DEF Worlds, Going, States
  <2>3. s = c.state \/ (s \in Going /\ ~Halted(c))
    BY <2>2 DEF Halted
  <2>4. /\ ~rested => s = c.state /\ holds = c.owned
        /\ rested => s = "waiting_schedule" /\ holds
    BY <1>4 DEF Worlds
  <2>5. holds => c.owned \/ rested
    OBVIOUS
  <2>6. n = Tick(Save(v), gate, elapsed)
    BY <1>3, <1>6
  <2>7. /\ x \in Worlds /\ Conduct(x) /\ Alike(c, x) /\ x.rounds[i] = "due"
        /\ x.rounds = [c.rounds EXCEPT ![i] = "due"]
        /\ \A j \in Rounds \ {i} : x.rounds[j] = c.rounds[j]
    BY <1>4, ReopenedConduct
  <2> HIDE DEF s, holds, ticks
  <2>8. /\ v \in Worlds /\ v.rounds = x.rounds /\ v.tasks = x.tasks /\ v.current = x.current
        /\ v.capture = x.capture /\ v.inFlight = x.inFlight /\ v.state = s
        /\ v.preflightDue = x.preflightDue /\ v.preflightPending = x.preflightPending
        /\ v.idleCheck = x.idleCheck /\ v.owned = holds /\ v.checked = x.checked
        /\ v.posts = x.posts /\ v.downloadsOnly = c.downloadsOnly
    <3>1. [c.rounds EXCEPT ![i] = "due"] \in [Rounds -> RoundStates]
      BY <1>4 DEF Worlds, RoundStates
    <3> QED
      BY <1>4, <2>2, <3>1 DEF Worlds
  <2> HIDE DEF x, v
  <2>9. Ordered(v, {}, FALSE)
    <3>1. /\ v.rounds = [c.rounds EXCEPT ![i] = "due"] /\ v.tasks = c.tasks
          /\ v.current = c.current /\ v.inFlight = c.inFlight /\ v.capture = c.capture
          /\ v.preflightPending = c.preflightPending /\ v.downloadsOnly = c.downloadsOnly
          /\ v.state = c.state \/ (v.state \in Going /\ ~Halted(c))
          /\ "due" \in {"due", "skipped"} /\ v \in Worlds
      BY <2>3, <2>7, <2>8 DEF Alike
    <3>2. ASSUME NEW q, Neat(c, {}, q) PROVE Neat(c, {i}, q)
      BY <1>4, <3>2, Watched
    <3>3. ASSUME NEW q, Ordered(c, {i}, q) PROVE Ordered(v, {}, q)
      BY <3>1, <3>3, Reopened
    <3>4. ASSUME NEW q, Neat(c, {}, q) PROVE Ordered(v, {}, q)
      BY <3>2, <3>3, <3>4 DEF Neat
    <3> QED
      BY <1>4, <3>4, Zenon
  <2>10. Conduct(v)
    <3>1. CASE ~rested
      <4>1. Alike(x, v)
        BY <2>4, <2>7, <2>8, <3>1 DEF Alike
      <4> QED
        BY <2>7, <2>8, <4>1, AlikeConduct DEF Waits
    <3>2. CASE rested
      <4>0. x.state = c.state /\ x.state \notin Going /\ x.state \in {"done", "idle"}
        BY <2>7, <3>2 DEF Alike, Going
      <4>1. ~InPass(c)
        BY <1>4, <3>2 DEF Ordered, Steady
      <4>2. ~InPass(v) /\ ~Halted(v) /\ v.state = "waiting_schedule"
        BY <2>4, <2>7, <2>8, <3>2, <4>1 DEF Alike, InPass, Halted
      <4>3. ~c.inFlight
        BY <1>4, <4>1 DEF Ordered, Flight
      <4>4. ~x.preflightPending
        BY <2>7, <4>0 DEF Conduct, Loose, CheckIsDue
      <4>5. ~v.inFlight /\ ~v.preflightPending
        BY <2>7, <2>8, <4>3, <4>4, Zenon DEF Alike
      <4>6. v.owned
        BY <2>4, <2>8, <3>2, Zenon
      <4>7. CheckIsDue(v)
        BY <4>5 DEF CheckIsDue
      <4>8. IdleCheckIsStale(v)
        BY <2>7, <2>8 DEF Conduct, Loose, IdleCheckIsStale
      <4>9. IdleCheckOfRow(v)
        BY <2>7, <2>8, <4>2 DEF Conduct, Loose, IdleCheckOfRow
      <4>10. RowsOfBegun(v)
        BY <2>7, <2>8, <4>2 DEF Conduct, Loose, RowsOfBegun
      <4>11. StatesFit(v) /\ StopIsPending(v) /\ SentIsMarked(v)
        BY <4>2, <4>5 DEF StatesFit, StopIsPending, SentIsMarked
      <4>12. Reserved(v)
        BY <4>6 DEF Reserved
      <4>13. Vouched(v)
        BY <4>2 DEF Vouched
      <4> QED
        BY <4>7, <4>8, <4>9, <4>10, <4>11, <4>12, <4>13 DEF Conduct, Loose
    <3> QED
      BY <3>1, <3>2
  <2>11. Fit(n) /\ Obeys(v, n)
    BY <2>2, <2>6, <2>8, <2>9, <2>10, TickedFit
  <2>12. Goes(n) /\ n.posts = w.posts
    BY <1>2, <2>7, <2>8, <2>11 DEF Obeys, Heeds, Alike
  <2>13. n.owned => w.owned \/ CanReserve
    <3>1. n.owned => holds
      BY <2>8, <2>11 DEF Obeys, Heeds
    <3>2. rested => CanReserve
      BY <1>6
    <3> HIDE DEF rested
    <3> QED
      BY <1>2, <2>5, <3>1, <3>2
  <2>14. w.state \in Going /\ n.state \in Willing => w.state \in Willing
    <3>1. n.state \in Willing => s \in Willing
      BY <2>8, <2>11 DEF Obeys, Heeds
    <3>2. w.state \in Going => s = w.state
      BY <1>2, <2>4 DEF Going
    <3> QED
      BY <3>1, <3>2
  <2>15. LeavesOthers(w, n, i) /\ (Misses(w, c) => MissesOthers(w, n, i))
    BY <1>2, <2>7, <2>8, <2>11 DEF Obeys, Heeds, LeavesMissed, LeavesOthers, Misses, MissesOthers
  <2> QED
    BY <1>2, <2>11, <2>12, <2>13, <2>14, <2>15
<1> QED
  BY <1>5, <1>6

LEMMA SkipMissedFit ==
  ASSUME NEW w, NEW i \in Rounds, Fit(w), w.rounds[i] = "missed"
  PROVE  LET n == SkipMissed(w, i)
         IN  /\ Fit(n) /\ Alike(w, n) /\ n.downloadsOnly = w.downloadsOnly
             /\ n.disk.state = n.state /\ n.disk.rounds = n.rounds
             /\ n.rounds[i] = "skipped" /\ \A j \in Rounds \ {i} : n.rounds[j] = w.rounds[j]
<1> DEFINE v == [w EXCEPT !.rounds[i] = "skipped"]
           n == Save(v)
<1>1. w \in Worlds /\ Conduct(w)
  BY DEF Fit, Neat, Ordered
<1>2. /\ v \in Worlds /\ Conduct(v) /\ Alike(w, v) /\ v.downloadsOnly = w.downloadsOnly
      /\ v.rounds[i] = "skipped" /\ \A j \in Rounds \ {i} : v.rounds[j] = w.rounds[j]
  BY <1>1, ReopenedConduct
<1>3. SkipMissed(w, i) = n
  BY DEF SkipMissed
<1>4. Neat(SkipMissed(w, i), {}, FALSE)
  <2>1. ASSUME NEW q, Neat(w, {}, q) PROVE Neat(SkipMissed(w, i), {}, q)
    BY <2>1, SkipMissedNeat
  <2> QED
    BY <2>1, Zenon DEF Fit
<1> HIDE DEF v
<1>5. /\ Conduct(n) /\ Alike(v, n) /\ n.rounds = v.rounds /\ n.disk.rounds = v.rounds
      /\ n.downloadsOnly = v.downloadsOnly
  BY <1>2, SaveConduct, SaveAlike
<1>6. n.disk.state = v.state
  BY <1>2 DEF Save, Session, Worlds
<1> HIDE DEF n
<1>7. Alike(w, n) /\ n.disk.state = n.state
  BY <1>2, <1>5, <1>6 DEF Alike
<1> QED
  BY <1>2, <1>3, <1>4, <1>5, <1>7 DEF Fit

-----------------------------------------------------------------------------
(* The application ends and starts again. *)
LEMMA ClosedMore ==
  ASSUME NEW w \in Worlds
  PROVE  LET v == Closed(w)
         IN  /\ v.idleCheck = None /\ v.posts = w.posts
             /\ ~v.owned /\ ~v.checked /\ ~v.preflightDue
<1> DEFINE rows == RestoredRows(w)
           u == Restored(w)
           x == Forgotten(u)
           y == Released(x)
<1>1. rows.posts = w.posts /\ DOMAIN rows = DOMAIN w
  BY DEF RestoredRows, Worlds
<1>2. u.posts = w.posts /\ DOMAIN u = DOMAIN w
  <2>1. u = [rows EXCEPT !.current = w.disk.current, !.rounds = w.disk.rounds]
    BY Zenon DEF Restored
  <2> HIDE DEF rows, u
  <2> QED
    BY <1>1, <2>1 DEF Worlds
<1> HIDE DEF rows, u
<1>3. x.posts = u.posts /\ ~x.preflightDue /\ DOMAIN x = DOMAIN w
  BY <1>2 DEF Forgotten, Worlds
<1> HIDE DEF x
<1>4. /\ y.posts = u.posts /\ ~y.preflightDue /\ ~y.owned /\ ~y.checked /\ DOMAIN y = DOMAIN w
  BY <1>3 DEF Released, Worlds
<1> HIDE DEF y
<1>5. Closed(w) = [y EXCEPT !.state = "closed", !.idleCheck = None, !.capture = NoCapture]
  BY Zenon DEF Closed, y, x, u
<1> QED
  BY <1>2, <1>4, <1>5 DEF Worlds

LEMMA ClosedFit ==
  ASSUME NEW w, Neat(w, {}, FALSE), RowsOfBegun(w)
  PROVE  Fit(Closed(w))
<1> DEFINE v == Closed(w)
<1>1. w \in Worlds /\ w.disk.tasks = w.tasks /\ SameRounds(w, w.disk)
  BY DEF Neat, Ordered, Filed
<1>2. Neat(v, {}, FALSE)
  BY ClosedNeat
<1>3. /\ v.tasks = w.tasks /\ v.rounds = w.disk.rounds /\ v.state = "closed"
      /\ ~v.inFlight /\ ~v.preflightPending
  BY <1>1, ClosedFields
<1>4. v.idleCheck = None /\ ~v.owned /\ ~v.checked /\ ~v.preflightDue
  BY <1>1, ClosedMore
<1> HIDE DEF v
<1>5. CheckIsDue(v) /\ IdleCheckIsStale(v)
  BY <1>3, <1>4 DEF CheckIsDue, IdleCheckIsStale
<1>6. IdleCheckOfRow(v)
  BY <1>4 DEF IdleCheckOfRow
<1>7. RowsOfBegun(v)
  BY <1>1, <1>3 DEF RowsOfBegun, SameRounds, Vacant
<1>8. StatesFit(v) /\ Reserved(v) /\ SentIsMarked(v) /\ StopIsPending(v)
  BY <1>3 DEF StatesFit, Reserved, SentIsMarked, StopIsPending, Going
<1>9. Vouched(v)
  BY <1>3, <1>4 DEF Vouched, Halted
<1>10. Conduct(v)
  BY <1>5, <1>6, <1>7, <1>8, <1>9 DEF Conduct, Loose
<1> QED
  BY <1>2, <1>10 DEF Fit, v

LEMMA LoadedFit ==
  ASSUME NEW w, NEW unfinished \in BOOLEAN, Fit(w), w.state = "closed"
  PROVE  LET v == Loaded(w, unfinished)
         IN  /\ Fit(v) /\ v.posts = w.posts /\ v.owned = w.owned /\ v.disk = w.disk
             /\ v.state \in {"done", "interrupted"} /\ LeavesMissed(w, v)
             /\ w.disk.state = "done" => /\ v.rounds = w.rounds
                                         /\ v.state = "interrupted" => v.downloadsOnly
             /\ w.disk.state # "done" => /\ v.state = "interrupted" /\ ~v.downloadsOnly
                                         /\ Misses(w, v)
<1> DEFINE done == w.disk.state = "done"
           s == IF done /\ ~unfinished THEN "done" ELSE "interrupted"
           only == done /\ unfinished
           v == [w EXCEPT !.state = s, !.downloadsOnly = only]
           n == Loaded(w, unfinished)
<1>1. /\ w \in Worlds /\ Loose(w) /\ ~w.inFlight /\ ~w.preflightPending /\ w.idleCheck = None
      /\ ~w.checked
  <2>1. w \in Worlds /\ Loose(w) /\ Halted(w)
    BY DEF Fit, Neat, Ordered, Conduct, Halted
  <2>2. ~w.inFlight
    BY DEF Fit, Neat, Ordered, Flight, Going
  <2>3. ~w.preflightPending
    BY <2>1 DEF Fit, Neat, Ordered, Steady
  <2>4. w.idleCheck = None
    BY <2>1 DEF Loose, IdleCheckOfRow
  <2>5. ~w.checked
    BY <2>1 DEF Loose, Vouched
  <2> QED
    BY <2>1, <2>2, <2>3, <2>4, <2>5
<1>2. s \in {"done", "interrupted"} /\ only \in BOOLEAN /\ (s = "done" => done)
  OBVIOUS
<1>3. ~done => s = "interrupted" /\ ~only
  OBVIOUS
<1>4. done /\ s = "interrupted" => only
  OBVIOUS
<1>5. done => ~InPass(w)
  BY DEF Fit, Neat, Filed, InPass
<1>6. n = IF done THEN v ELSE MarkMissed(v)
  BY DEF Loaded
<1> HIDE DEF s, only, n
<1>a. s \in States
  BY <1>2 DEF States
<1>7. /\ v \in Worlds /\ v.tasks = w.tasks /\ v.rounds = w.rounds /\ v.current = w.current
      /\ v.capture = w.capture /\ v.inFlight = w.inFlight /\ v.state = s
      /\ v.preflightPending = w.preflightPending /\ v.disk = w.disk
  BY <1>1, <1>2, <1>a DEF Worlds
<1>8. /\ v.preflightDue = w.preflightDue /\ v.idleCheck = w.idleCheck /\ v.owned = w.owned
      /\ v.checked = w.checked /\ v.posts = w.posts /\ v.downloadsOnly = only
  BY <1>1 DEF Worlds
<1> HIDE DEF v
<1>9. CheckIsDue(v)
  BY <1>1, <1>7 DEF CheckIsDue
<1>10. IdleCheckIsStale(v) /\ IdleCheckOfRow(v)
  BY <1>1, <1>8 DEF IdleCheckIsStale, IdleCheckOfRow
<1>11. RowsOfBegun(v)
  BY <1>1, <1>2, <1>7 DEF Loose, RowsOfBegun
<1>12. StatesFit(v) /\ Reserved(v) /\ SentIsMarked(v) /\ StopIsPending(v)
  <2>1. ~v.inFlight
    BY <1>1, <1>7
  <2> QED
    BY <1>2, <1>7, <2>1 DEF StatesFit, Reserved, SentIsMarked, StopIsPending, Going
<1>13. Vouched(v)
  <2>1. ~v.checked
    BY <1>1, <1>8
  <2>2. Halted(v) \/ ~InPass(v)
    BY <1>2, <1>5, <1>7 DEF Halted, InPass
  <2> QED
    BY <2>1, <2>2 DEF Vouched
<1>14. Conduct(v)
  BY <1>9, <1>10, <1>11, <1>12, <1>13 DEF Conduct, Loose
<1>15. Neat(n, {}, FALSE)
  BY LoadedNeat DEF Fit, n
<1>16. CASE done
  <2>1. n = v
    BY <1>6, <1>16
  <2>2. n.state = "interrupted" => n.downloadsOnly
    BY <1>4, <1>7, <1>8, <1>16, <2>1
  <2>3. LeavesMissed(w, n)
    BY <1>7, <2>1 DEF LeavesMissed
  <2>4. Fit(n)
    BY <1>14, <1>15, <2>1 DEF Fit
  <2> QED
    BY <1>2, <1>7, <1>8, <1>16, <2>1, <2>2, <2>3, <2>4 DEF n
<1>17. CASE ~done
  <2>1. n = MarkMissed(v)
    BY <1>6, <1>17
  <2>2. /\ Conduct(n) /\ Alike(v, n) /\ LeavesMissed(v, n) /\ Misses(v, n) /\ n.disk = v.disk
    BY <1>7, <1>14, <2>1, MarkMissedConduct DEF Conduct
  <2>3. n.downloadsOnly = only
    <3>1. MarkMissed(v).downloadsOnly = v.downloadsOnly
      BY <1>7 DEF MarkMissed, Worlds
    <3> QED
      BY <1>8, <2>1, <3>1
  <2>4. n.state = "interrupted" /\ ~n.downloadsOnly
    BY <1>3, <1>7, <1>17, <2>2, <2>3 DEF Alike
  <2>5. LeavesMissed(w, n) /\ Misses(w, n)
    BY <1>7, <2>2 DEF LeavesMissed, Misses
  <2>6. n.posts = w.posts /\ n.owned = w.owned /\ n.disk = w.disk
    BY <1>7, <1>8, <2>2 DEF Alike
  <2>7. Fit(n)
    BY <1>15, <2>2 DEF Fit
  <2> QED
    BY <1>17, <2>4, <2>5, <2>6, <2>7 DEF n
<1> QED
  BY <1>16, <1>17

-----------------------------------------------------------------------------
(***************************************************************************)
(* The inductive invariant: the conduct of the collection, and what it has *)
(* to do with the world around it.                                         *)
(***************************************************************************)

(* The main window gives the sensor to the collection or to a manual recording. *)
Locked(w) == w.owned => ~manual

(* What goes on by itself was not halted by the operator. *)
Obeyed(w) == w.state \in Willing => wish # "halt"

(* One file check is out at most, in a collection at rest; "Retry failed rows" asks for one
   only when the pass was checked.                                                       *)
Outstanding == {c \in 1 .. MaxChecks : checks[c] # NoCheck}
OneCheck(w) ==
  /\ Outstanding # {} => w.state \in {"interrupted", "done"}
  /\ \A c, d \in Outstanding : c = d
  /\ \A c \in Outstanding : checks[c].retry # 0 => w.checked /\ "stop" \notin Commands

(* A pass slept over is missed or skipped; it may wait only while the collection does. *)
Away(w) == \/ w.state = "closed" /\ w.disk.state # "done"
           \/ w.state = "interrupted" /\ ~w.downloadsOnly
SleptWaits(w) ==
  /\ w.state = "idle" => slept = {}
  /\ \A i \in slept : /\ clock[i] # "ahead"
                      /\ w.rounds[i] \in {"missed", "skipped"} \/ (w.rounds[i] \in Open /\ Away(w))

(* A session file that says the collection has ended has its passes as they ended. *)
EndIsWritten(w) ==
  w.disk.state = "done" =>
    /\ w.state \in {"done", "interrupted", "closed"} => w.disk.rounds = w.rounds
    /\ w.state = "interrupted" => w.downloadsOnly

Around(w) == Locked(w) /\ Obeyed(w) /\ OneCheck(w) /\ SleptWaits(w) /\ EndIsWritten(w)
ConductInv == OrderInv /\ Conduct(World) /\ Around(World)

(* Only a collection that runs and was checked sends a request, or one whose end nobody saw. *)
Lawful == posts' # posts => state = "running" /\ (checked \/ ~Up')

LEMMA Fields ==
  /\ World.state = state /\ World.rounds = rounds /\ World.disk = disk /\ World.posts = posts
  /\ World.downloadsOnly = downloadsOnly /\ World.owned = owned /\ World.checked = checked
  /\ World.preflightPending = preflightPending /\ World.inFlight = inFlight
  /\ World.capture = capture /\ World.idleCheck = idleCheck
BY DEF World

LEMMA InvFit ==
  ASSUME ConductInv
  PROVE  /\ Fit(World) /\ World \in Worlds /\ Around(World)
         /\ Loose(World) /\ Ordered(World, {}, FALSE)
BY DEF ConductInv, OrderInv, Fit, Neat, Ordered, Conduct

LEMMA Became ==
  ASSUME NEW n, Fit(n), Become(n)
  PROVE  World' = n /\ posts' = n.posts
BY DEF Fit, Neat, Ordered, Worlds, Become, World

(* Passes slept over stay missed or skipped. *)
StayAway(v) == \A i \in slept' : clock'[i] # "ahead" /\ v.rounds[i] \in {"missed", "skipped"}

LEMMA GoneOn ==
  ASSUME OrderInv', NEW n, World' = n, Fit(n), Goes(n), n.owned => ~manual',
         n.state \in Willing => wish' # "halt", Outstanding' = {}, StayAway(n)
  PROVE  ConductInv'
<1>1. n.state \notin {"idle", "interrupted", "closed"}
  BY DEF Goes, Going
<1>2. Locked(World)' /\ Obeyed(World)'
  BY DEF Locked, Obeyed
<1>3. OneCheck(World)'
  BY DEF OneCheck
<1>4. SleptWaits(World)'
  BY <1>1 DEF SleptWaits, StayAway
<1>5. EndIsWritten(World)'
  BY <1>1 DEF EndIsWritten, Goes, Going
<1>6. Conduct(World)'
  BY DEF Fit
<1> QED
  BY <1>2, <1>3, <1>4, <1>5, <1>6 DEF ConductInv, Around

LEMMA Quiet ==
  ASSUME ConductInv, World.state \notin {"interrupted", "done"}
  PROVE  Outstanding = {}
BY InvFit DEF Around, OneCheck

LEMMA ChecksStay ==
  ASSUME UNCHANGED checks
  PROVE  Outstanding' = Outstanding
BY DEF Outstanding

LEMMA SleptMissed ==
  ASSUME ConductInv, ~Away(World), NEW i \in slept
  PROVE  clock[i] # "ahead" /\ World.rounds[i] \in {"missed", "skipped"}
BY InvFit DEF Around, SleptWaits

(* A handler of the program. *)
LEMMA HeededConduct ==
  ASSUME ConductInv, OrderInv', NEW n, World' = n, Fit(n),
         UNCHANGED <<manual, clock, wish, slept, checks>>,
         World.state \in Going => Heeds(World, n),
         World.state \notin Going => Untouched(World, n)
  PROVE  ConductInv'
<1>1. Around(World) /\ World \in Worlds
  BY InvFit
<1>2. Outstanding' = Outstanding
  BY ChecksStay
<1>3. CASE World.state \in Going
  <2>1. Heeds(World, n) /\ ~Away(World) /\ Outstanding = {}
    BY <1>3, Quiet DEF Going, Away
  <2>2. \A i \in slept : clock[i] # "ahead" /\ World.rounds[i] \in {"missed", "skipped"}
    BY <2>1, SleptMissed
  <2>3. slept \subseteq Rounds
    BY DEF ConductInv, OrderInv, IInv, Surroundings
  <2>4. StayAway(n)
    BY <2>1, <2>2, <2>3 DEF StayAway, Heeds, LeavesMissed
  <2>5. n.owned => ~manual'
    BY <1>1, <2>1 DEF Around, Locked, Heeds
  <2>6. n.state \in Willing => wish' # "halt"
    BY <1>1, <2>1 DEF Around, Obeyed, Heeds
  <2> QED
    BY <1>2, <2>1, <2>4, <2>5, <2>6, GoneOn DEF Heeds
<1>4. CASE World.state \notin Going
  <2>1. Untouched(World, n)
    BY <1>4
  <2>2. Locked(n)'
    BY <1>1, <2>1 DEF Around, Locked, Untouched
  <2>3. Obeyed(World)'
    BY <1>1, <2>1 DEF Around, Obeyed, Untouched
  <2>4. OneCheck(World)'
    BY <1>1, <1>2, <2>1 DEF Around, OneCheck, Untouched
  <2>5. SleptWaits(World)'
    BY <1>1, <2>1 DEF Around, SleptWaits, Away, Untouched
  <2>6. EndIsWritten(World)'
    BY <1>1, <2>1 DEF Around, EndIsWritten, Untouched
  <2>7. Conduct(World)'
    BY DEF Fit
  <2> QED
    BY <2>2, <2>3, <2>4, <2>5, <2>6, <2>7 DEF ConductInv, Around, Locked
<1> QED
  BY <1>3, <1>4

-----------------------------------------------------------------------------
(* One event at a time.  A file check or "Skip" in a collection at rest. *)
LEMMA RevisedConduct ==
  ASSUME ConductInv, OrderInv', NEW w, World' = w, Fit(w), Revises(World, w),
         World.state \in {"interrupted", "done"}, UNCHANGED <<manual, clock, wish, slept>>,
         OneCheck(World)'
  PROVE  ConductInv'
<1>1. Around(World) /\ slept \subseteq Rounds
  BY InvFit DEF ConductInv, OrderInv, IInv, Surroundings
<1>2. Locked(World)'
  BY <1>1 DEF Around, Locked, Revises
<1>3. Obeyed(World)'
  BY <1>1 DEF Around, Obeyed, Revises
<1>4. SleptWaits(World)'
  <2>1. Away(World) => Away(w)
    BY DEF Away, Revises
  <2>2. ASSUME NEW i \in slept
        PROVE  /\ clock[i] # "ahead"
               /\ w.rounds[i] \in {"missed", "skipped"} \/ (w.rounds[i] \in Open /\ Away(w))
    <3>1. w.rounds[i] = World.rounds[i] \/ World.rounds[i] \in Counted
      BY <1>1 DEF Revises, Recounts
    <3>2. /\ clock[i] # "ahead"
          /\ World.rounds[i] \in {"missed", "skipped"} \/ (World.rounds[i] \in Open /\ Away(World))
      BY <1>1 DEF Around, SleptWaits
    <3> QED
      BY <2>1, <3>1, <3>2 DEF Counted, Open
  <2>3. SleptWaits(w)
    BY <2>2 DEF SleptWaits, Revises
  <2> QED
    BY <2>2 DEF SleptWaits, Revises, Away
<1>5. EndIsWritten(World)'
  BY <1>1 DEF Around, EndIsWritten, Revises
<1>6. Conduct(World)'
  BY DEF Fit
<1> QED
  BY <1>2, <1>3, <1>4, <1>5, <1>6 DEF ConductInv, Around

(* "Retry failed rows" that is carried out, at once or when its file check ended. *)
LEMMA RetriedConduct ==
  ASSUME ConductInv, OrderInv', NEW w, Fit(w), Revises(World, w),
         w.state \in {"interrupted", "done"},
         w.checked, "stop" \notin Commands, Outstanding' = {}, UNCHANGED <<manual, clock>>,
         NEW i \in Rounds, NEW gate, NEW elapsed, Retried(w, i, gate, elapsed)
  PROVE  ConductInv' /\ Lawful
<1> DEFINE n == Retry(w, i, gate, elapsed)
<1>1. Around(World) /\ slept \subseteq Rounds
  BY InvFit DEF ConductInv, OrderInv, IInv, Surroundings
<1>2. w.state = "done"
  BY DEF Fit, Conduct, Loose, Vouched, Halted
<1>3. slept' = slept /\ Become(n)
  BY DEF Retried
<1>4. /\ RetryRefused(w, i) => n = w
      /\ ~RetryRefused(w, i) => Fit(n) /\ Renews(w, n)
  BY <1>2, RetryFit DEF Retry
<1> HIDE DEF n
<1>5. CASE RetryRefused(w, i)
  <2>1. n = w
    BY <1>4, <1>5
  <2>2. World' = w /\ posts' = w.posts /\ wish' = wish
    BY <1>3, <1>5, <2>1, Became DEF Retried
  <2>3. OneCheck(World)'
    BY DEF OneCheck
  <2>4. posts' = posts
    BY <2>2, Fields DEF Revises
  <2>5. World.state \in {"interrupted", "done"}
    BY DEF Revises
  <2> QED
    BY <1>3, <2>2, <2>3, <2>4, <2>5, RevisedConduct DEF Lawful
<1>6. CASE ~RetryRefused(w, i)
  <2>1. Fit(n) /\ Renews(w, n)
    BY <1>4, <1>6
  <2>2. wish' = "retry"
    BY <1>2, <1>6 DEF Retried, AtRest
  <2>3. World' = n /\ posts' = n.posts
    BY <1>3, <2>1, Became
  <2>4. ~Away(World)
    BY <1>2 DEF Away, Revises
  <2>5. ASSUME NEW k \in slept PROVE clock[k] # "ahead" /\ n.rounds[k] \in {"missed", "skipped"}
    <3>1. clock[k] # "ahead" /\ World.rounds[k] \in {"missed", "skipped"} /\ k \in Rounds
      BY <1>1, <2>4, SleptMissed
    <3>2. w.rounds[k] = World.rounds[k]
      BY <3>1 DEF Revises, Recounts, Counted
    <3> QED
      BY <2>1, <3>1, <3>2 DEF Renews, LeavesMissed
  <2>6. StayAway(n)
    BY <1>3, <2>5 DEF StayAway
  <2>7. n.owned => ~manual'
    BY <1>1, <2>1 DEF Around, Locked, Revises, Renews, CanReserve
  <2>8. Goes(n) /\ n.posts = World.posts
    BY <2>1 DEF Renews, Revises
  <2>9. posts' = posts
    BY <2>3, <2>8, Fields
  <2> QED
    BY <2>1, <2>2, <2>3, <2>6, <2>7, <2>8, <2>9, GoneOn DEF Lawful
<1> QED
  BY <1>5, <1>6

(* The answers of the workers, the timer and the capture. *)
LEMMA WorkersConduct ==
  ASSUME ConductInv, OrderInv', NEW gate, NEW elapsed \in BOOLEAN, NEW idle \in BOOLEAN,
         NEW blocking \in BOOLEAN, NEW answer \in AllAnswers,
         \/ TimerTick(gate, elapsed)
         \/ PreflightAnswered(blocking, gate)
         \/ StorageSettleAnswered(gate)
         \/ IdleCheckAnswered(idle, answer, gate)
         \/ CaptureFinished(gate)
  PROVE  ConductInv' /\ Lawful
<1>1. Fit(World)
  BY InvFit
<1>2. UNCHANGED <<manual, clock, wish, slept, checks>>
  BY DEF TimerTick, PreflightAnswered, StorageSettleAnswered, IdleCheckAnswered,
     CaptureFinished, outside, history
<1>3. ASSUME NEW n, Fit(n), Become(n),
             World.state \in Going => Heeds(World, n),
             World.state \notin Going => Untouched(World, n)
      PROVE  ConductInv' /\ (n.posts = World.posts => Lawful)
  <2>1. World' = n /\ posts' = n.posts
    BY <1>3, Became
  <2>2. ConductInv'
    BY <1>2, <1>3, <2>1, HeededConduct
  <2>3. n.posts = World.posts => posts' = posts
    BY <2>1, Fields
  <2> QED
    BY <2>2, <2>3 DEF Lawful
<1>4. CASE TimerTick(gate, elapsed)
  <2> DEFINE n == Tick(World, gate, elapsed)
  <2>1. /\ Fit(n)
        /\ World.state \in Going => Obeys(World, n)
        /\ World.state \notin Going => n = World
    BY <1>1, TickFit
  <2>2. Become(n)
    BY <1>4 DEF TimerTick
  <2> HIDE DEF n
  <2>3. /\ World.state \in Going => Heeds(World, n)
        /\ World.state \notin Going => Untouched(World, n)
        /\ n.posts = World.posts
    BY <2>1 DEF Obeys, Untouched
  <2> QED
    BY <1>3, <2>1, <2>2, <2>3
<1>5. CASE PreflightAnswered(blocking, gate)
  <2> DEFINE n == OnPreflight(World, blocking, gate)
  <2>1. World.preflightPending /\ Become(n)
    BY <1>5, Fields DEF PreflightAnswered
  <2>2. Fit(n) /\ Obeys(World, n) /\ World.state \in Going
    BY <1>1, <2>1, OnPreflightFit
  <2> HIDE DEF n
  <2> QED
    BY <1>3, <2>1, <2>2 DEF Obeys
<1>6. CASE StorageSettleAnswered(gate)
  <2> DEFINE n == OnStorageSettled(World, gate)
  <2>1. Become(n)
    BY <1>6 DEF StorageSettleAnswered
  <2>2. /\ Fit(n)
        /\ World.state \in Going => Obeys(World, n)
        /\ World.state \notin Going => Untouched(World, n)
    BY <1>1, OnStorageSettledFit
  <2> HIDE DEF n
  <2>3. (World.state \in Going => Heeds(World, n)) /\ n.posts = World.posts
    BY <2>2 DEF Obeys, Untouched
  <2> QED
    BY <1>3, <2>1, <2>2, <2>3
<1>7. CASE IdleCheckAnswered(idle, answer, gate)
  <2> DEFINE n == OnIdleResult(World, idle, answer, gate)
  <2>1. World.idleCheck # None /\ Become(n)
    BY <1>7, Fields DEF IdleCheckAnswered
  <2>2. /\ Fit(n) /\ Asks(World, n)
        /\ World.state \in Going => Heeds(World, n)
        /\ World.state \notin Going => Untouched(World, n)
    BY <1>1, <2>1, OnIdleResultFit
  <2> HIDE DEF n
  <2>3. World' = n /\ posts' = n.posts
    BY <2>1, <2>2, Became
  <2>4. Lawful
    BY <2>2, <2>3, Fields DEF Asks, Lawful
  <2> QED
    BY <1>3, <2>1, <2>2, <2>4
<1>8. CASE CaptureFinished(gate)
  <2> DEFINE n == OnCaptureFinished(World, gate)
  <2>1. World.capture.phase = "reported" /\ Become(n)
    BY <1>8, Fields DEF CaptureFinished
  <2>2. Fit(n) /\ Obeys(World, n) /\ World.state \in Going
    BY <1>1, <2>1, OnCaptureFinishedFit
  <2> HIDE DEF n
  <2> QED
    BY <1>3, <2>1, <2>2 DEF Obeys
<1> QED
  BY <1>4, <1>5, <1>6, <1>7, <1>8

(* The sensor receives the request, or the main window reports how the capture ended. *)
LEMMA SensorConduct ==
  ASSUME ConductInv, OrderInv', NEW outcome, NEW file \in BOOLEAN,
         RequestReaches \/ CaptureReports(outcome, file)
  PROVE  ConductInv' /\ Lawful
<1>1. capture \in CaptureType /\ World \in Worlds /\ Conduct(World) /\ Around(World)
  BY InvFit DEF World, Worlds, ConductInv
<1>2. /\ UNCHANGED <<session, attributes, history, disk, checks, owned, manual, clock,
                     posts, crashes, permits, checked>>
      /\ capture' = [capture EXCEPT !.phase = "reached"]
           \/ capture' = [capture EXCEPT !.phase = "reported", !.outcome = outcome]
  BY DEF RequestReaches, CaptureReports
<1>3. capture'.key = capture.key
  BY <1>1, <1>2 DEF CaptureType
<1>4. /\ World'.tasks = World.tasks /\ World'.rounds = World.rounds
      /\ World'.current = World.current /\ World'.inFlight = World.inFlight
      /\ World'.state = World.state /\ World'.preflightPending = World.preflightPending
      /\ World'.preflightDue = World.preflightDue /\ World'.idleCheck = World.idleCheck
      /\ World'.downloadsOnly = World.downloadsOnly /\ World'.disk = World.disk
      /\ World'.owned = World.owned /\ World'.checked = World.checked
      /\ World'.capture.key = World.capture.key
  BY <1>2, <1>3 DEF World, session, attributes
<1>5. Conduct(World')
  <2> DEFINE v == World'
             w == World
  <2>0. /\ v.tasks = w.tasks /\ v.rounds = w.rounds /\ v.current = w.current
        /\ v.inFlight = w.inFlight /\ v.state = w.state
        /\ v.preflightPending = w.preflightPending /\ v.preflightDue = w.preflightDue
        /\ v.idleCheck = w.idleCheck /\ v.owned = w.owned /\ v.checked = w.checked
        /\ v.capture.key = w.capture.key /\ Conduct(w)
    BY <1>1, <1>4
  <2> HIDE DEF v, w
  <2>1. QueuedRows(v) = QueuedRows(w) /\ InPass(v) = InPass(w) /\ Halted(v) = Halted(w)
    BY <2>0 DEF QueuedRows, InPass, Halted
  <2>2. CheckIsDue(v) /\ IdleCheckIsStale(v)
    BY <2>0, <2>1 DEF Conduct, Loose, CheckIsDue, IdleCheckIsStale
  <2>3. IdleCheckOfRow(v) /\ RowsOfBegun(v)
    BY <2>0 DEF Conduct, Loose, IdleCheckOfRow, RowsOfBegun
  <2>4. StatesFit(v) /\ Reserved(v)
    BY <2>0, <2>1 DEF Conduct, Loose, StatesFit, Reserved
  <2>5. SentIsMarked(v) /\ Vouched(v)
    BY <2>0, <2>1 DEF Conduct, Loose, SentIsMarked, Vouched
  <2>6. StopIsPending(v)
    BY <2>0 DEF Conduct, StopIsPending
  <2>7. Conduct(v)
    BY <2>2, <2>3, <2>4, <2>5, <2>6 DEF Conduct, Loose
  <2> QED
    BY <2>7 DEF v
<1>6. UNCHANGED <<manual, clock, wish, slept, checks>> /\ posts' = posts
  BY <1>2 DEF history
<1>7. Locked(World)' /\ Obeyed(World)'
  BY <1>1, <1>4, <1>6 DEF Around, Locked, Obeyed
<1>8. OneCheck(World)'
  BY <1>1, <1>4, <1>6 DEF Around, OneCheck, Outstanding
<1>9. SleptWaits(World)' /\ EndIsWritten(World)'
  BY <1>1, <1>4, <1>6 DEF Around, SleptWaits, EndIsWritten, Away
<1> QED
  BY <1>5, <1>6, <1>7, <1>8, <1>9 DEF ConductInv, Around, Lawful

-----------------------------------------------------------------------------
(* The operator's commands.  What takes up a collection that is not interrupted. *)
LEMMA RenewedConduct ==
  ASSUME ConductInv, OrderInv', NEW n, Fit(n), Become(n), Renews(World, n),
         World.state \notin {"interrupted", "closed"}, UNCHANGED <<manual, clock, slept>>,
         Outstanding' = {}, n.state \in Willing => wish' # "halt"
  PROVE  ConductInv' /\ Lawful
<1>1. World' = n /\ posts' = n.posts
  BY Became
<1>2. Around(World) /\ slept \subseteq Rounds /\ ~Away(World)
  BY InvFit DEF ConductInv, OrderInv, IInv, Surroundings, Away
<1>3. \A i \in slept : clock[i] # "ahead" /\ World.rounds[i] \in {"missed", "skipped"}
  BY <1>2, SleptMissed
<1>4. StayAway(n)
  BY <1>2, <1>3 DEF StayAway, Renews, LeavesMissed
<1>5. n.owned => ~manual'
  BY <1>2 DEF Around, Locked, Renews, CanReserve
<1>6. Goes(n) /\ posts' = posts
  BY <1>1, Fields DEF Renews
<1> QED
  BY <1>1, <1>4, <1>5, <1>6, GoneOn DEF Lawful

LEMMA OperatorConduct ==
  ASSUME Orderly, ConductInv, OrderInv', NEW gate, NEW elapsed \in BOOLEAN,
         Start(gate, elapsed) \/ ResumeCommand(gate, elapsed) \/ PauseCommand \/ StopCommand
  PROVE  ConductInv' /\ Lawful
<1>1. Fit(World) /\ World \in Worlds /\ Around(World)
  BY InvFit
<1>2. UNCHANGED <<manual, clock, slept, checks>>
  BY DEF Start, ResumeCommand, PauseCommand, StopCommand, Command, outside
<1>3. ASSUME NEW n, Fit(n), Become(n), Obeys(World, n),
             World.state \in Going, n.state \notin Willing
      PROVE  ConductInv' /\ Lawful
  <2>1. World.state \notin {"interrupted", "closed"} /\ Outstanding' = {}
    BY <1>2, <1>3, Quiet, ChecksStay DEF Going
  <2>2. Renews(World, n)
    BY <1>3 DEF Renews, Obeys, Heeds
  <2> QED
    BY <1>2, <1>3, <2>1, <2>2, RenewedConduct
<1>4. CASE Start(gate, elapsed)
  <2> DEFINE n == StartSession(World, gate, elapsed)
  <2>1. World.state = "idle" /\ CanReserve /\ Become(n) /\ wish' = "go"
    BY <1>4, Fields DEF Start
  <2>2. Fit(n) /\ Goes(n) /\ n.posts = World.posts
    BY <1>1, <2>1, StartSessionFit
  <2> HIDE DEF n
  <2>3. Outstanding' = {} /\ slept' = {}
    BY <1>1, <1>2, <2>1, Quiet, ChecksStay DEF Around, SleptWaits
  <2>4. World' = n /\ posts' = posts /\ StayAway(n)
    BY <2>1, <2>2, <2>3, Became, Fields DEF StayAway
  <2>5. n.owned => ~manual'
    BY <1>2, <2>1 DEF CanReserve
  <2> QED
    BY <2>1, <2>2, <2>3, <2>4, <2>5, GoneOn DEF Lawful
<1>5. CASE ResumeCommand(gate, elapsed)
  <2> DEFINE n == Resume(World, gate, elapsed)
  <2>1. /\ World.state \in {"paused", "paused_backlog", "pause_requested"}
        /\ Become(n) /\ wish' = "go"
    BY <1>5, Fields DEF ResumeCommand
  <2>2. Fit(n) /\ Renews(World, n)
    BY <1>1, <2>1, ResumeFit
  <2> HIDE DEF n
  <2>3. World.state \notin {"interrupted", "closed"} /\ Outstanding' = {}
    BY <1>2, <2>1, Quiet, ChecksStay
  <2> QED
    BY <1>2, <2>1, <2>2, <2>3, RenewedConduct
<1>6. CASE PauseCommand
  <2> DEFINE n == Pause(World)
  <2>1. World.state \in Willing /\ Become(n)
    BY <1>6, Fields DEF PauseCommand, Willing
  <2>2. Fit(n) /\ Obeys(World, n) /\ n.state \notin Willing
    BY <1>1, <2>1, PauseFit
  <2> HIDE DEF n
  <2>3. World.state \in Going
    BY <2>1 DEF Willing, Going, States
  <2> QED
    BY <1>3, <2>1, <2>2, <2>3
<1>7. CASE StopCommand
  <2> DEFINE n == Stop(World)
  <2>1. World.state \in Going /\ Become(n)
    BY <1>1, <1>7 DEF StopCommand, Active, Going, Worlds
  <2>2. "stop" \in Commands /\ ~World.preflightPending
    BY <1>7, Fields DEF StopCommand, Command, Orderly
  <2>3. Fit(n) /\ Obeys(World, n) /\ n.state \notin Willing
    BY <1>1, <2>1, <2>2, StopFit
  <2> HIDE DEF n
  <2> QED
    BY <1>3, <2>1, <2>3
<1> QED
  BY <1>4, <1>5, <1>6, <1>7

-----------------------------------------------------------------------------
(* File checks: one is out at most, and its rows are acted on when it ended. *)
LEMMA CheckEnds ==
  ASSUME ConductInv, NEW c \in Outstanding, Clear(c)
  PROVE  Outstanding' = {}
<1>1. /\ checks \in [1 .. MaxChecks -> CheckType] /\ \A d \in Outstanding : d = c
      /\ checks' = [checks EXCEPT ![c] = NoCheck] /\ Outstanding \subseteq 1 .. MaxChecks
  BY InvFit DEF Around, OneCheck, Outstanding, ConductInv, OrderInv, IInv, Surroundings, Clear
<1>2. ASSUME NEW d \in 1 .. MaxChecks PROVE checks'[d] = NoCheck
  <2>1. CASE d = c
    BY <1>1, <2>1
  <2>2. CASE d # c
    BY <1>1, <2>2 DEF Outstanding
  <2> QED
    BY <2>1, <2>2
<1> QED
  BY <1>2 DEF Outstanding

LEMMA AfterCheckConduct ==
  ASSUME ConductInv, OrderInv', NEW w, Fit(w), Revises(World, w), NEW c \in Outstanding,
         Clear(c), UNCHANGED <<manual, clock>>, NEW gate, NEW elapsed,
         AfterCheck(checks[c], w, gate, elapsed)
  PROVE  ConductInv' /\ Lawful
<1>1. /\ Around(World) /\ World.state \in {"interrupted", "done"} /\ Outstanding' = {}
      /\ checks[c] \in CheckType
  BY InvFit, CheckEnds DEF Around, OneCheck, Outstanding, ConductInv, OrderInv, IInv, Surroundings
<1>2. CASE checks[c].retry = 0
  <2>1. Become(w) /\ wish' = wish /\ slept' = slept
    BY <1>2 DEF AfterCheck, history
  <2>2. World' = w /\ posts' = w.posts
    BY <2>1, Became
  <2>3. OneCheck(World)'
    BY <1>1 DEF OneCheck
  <2>4. posts' = posts
    BY <2>2, Fields DEF Revises
  <2> QED
    BY <1>1, <2>1, <2>2, <2>3, <2>4, RevisedConduct DEF Lawful
<1>3. CASE checks[c].retry # 0
  <2>1. checks[c].retry \in Rounds
    BY <1>1, <1>3, SizeAssumption DEF CheckType, Rounds
  <2>2. w.checked
    BY <1>1, <1>3 DEF Around, OneCheck, Revises
  <2>3. "stop" \notin Commands
    BY <1>1, <1>3 DEF Around, OneCheck
  <2>4. w.state \in {"interrupted", "done"}
    BY <1>1 DEF Revises
  <2>5. Retried(w, checks[c].retry, gate, elapsed)
    BY <1>3 DEF AfterCheck
  <2> QED
    BY <1>1, <2>1, <2>2, <2>3, <2>4, <2>5, RetriedConduct
<1> QED
  BY <1>2, <1>3

LEMMA RevisesSelf == Revises(World, World)
BY DEF Revises, Recounts

LEMMA ChecksConduct ==
  ASSUME ConductInv, OrderInv', NEW c \in 1 .. MaxChecks, NEW idle \in BOOLEAN, NEW gate,
         NEW elapsed \in BOOLEAN, NEW answer \in Confirmed \cup {"failed"},
         MissionListRead(c, idle, gate, elapsed) \/ FilesListed(c, answer, gate, elapsed)
  PROVE  ConductInv' /\ Lawful
<1>1. checks \in [1 .. MaxChecks -> CheckType] /\ Fit(World) /\ Around(World)
  BY InvFit DEF ConductInv, OrderInv, IInv, Surroundings
<1>2. UNCHANGED <<manual, clock>>
  BY DEF MissionListRead, FilesListed, outside
<1>3. c \in Outstanding /\ World.state \in {"interrupted", "done"}
  <2>1. checks[c].phase # "none"
    BY DEF MissionListRead, FilesListed
  <2> QED
    BY <1>1, <2>1 DEF Outstanding, NoCheck, Around, OneCheck
<1>4. CASE MissionListRead(c, idle, gate, elapsed)
  <2> DEFINE wanted == {<<t, recordOf[t]>> : t \in UncertainKeys(World)}
  <2>1. CASE idle /\ wanted # {}
    <3>1. checks' = [checks EXCEPT ![c].phase = "files", ![c].wanted = wanted] /\ Become(World)
      BY <1>4, <2>1 DEF MissionListRead
    <3>2. wish' = wish /\ slept' = slept
      BY <1>4, <2>1 DEF MissionListRead, history
    <3> HIDE DEF wanted
    <3>3. World' = World /\ posts' = posts
      BY <1>1, <3>1, Became, Fields
    <3>4. /\ \A d \in 1 .. MaxChecks : checks'[d].retry = checks[d].retry
          /\ \A d \in (1 .. MaxChecks) \ {c} : checks'[d] = checks[d]
      BY <1>1, <3>1 DEF CheckType
    <3>5. Outstanding' \subseteq Outstanding
      BY <1>3, <3>4 DEF Outstanding
    <3>6. \A d \in Outstanding' : d \in 1 .. MaxChecks
      BY DEF Outstanding
    <3>7. OneCheck(World)'
      BY <1>1, <1>3, <3>3, <3>4, <3>5, <3>6 DEF Around, OneCheck
    <3> QED
      BY <1>1, <1>2, <1>3, <3>2, <3>3, <3>7, RevisesSelf, RevisedConduct DEF Lawful
  <2>2. CASE ~(idle /\ wanted # {})
    <3>1. Clear(c) /\ AfterCheck(checks[c], World, gate, elapsed)
      BY <1>4, <2>2 DEF MissionListRead
    <3> QED
      BY <1>1, <1>2, <1>3, <3>1, RevisesSelf, AfterCheckConduct
  <2> QED
    BY <2>1, <2>2
<1>5. CASE FilesListed(c, answer, gate, elapsed)
  <2> DEFINE w == IF answer = "failed" THEN World
                  ELSE OnFilesChecked(World, checks[c].wanted, answer)
  <2>1. Fit(w) /\ Revises(World, w)
    BY <1>1, <1>3, RevisesSelf, OnFilesCheckedFit
  <2>2. Clear(c) /\ AfterCheck(checks[c], w, gate, elapsed)
    BY <1>5 DEF FilesListed
  <2> HIDE DEF w
  <2> QED
    BY <1>2, <1>3, <2>1, <2>2, AfterCheckConduct
<1> QED
  BY <1>4, <1>5

-----------------------------------------------------------------------------
(* Recovery: file checks begin, rows and passes are taken up again, or skipped. *)
LEMMA NoneOutstanding ==
  ASSUME Orderly, NoCheckRuns
  PROVE  Outstanding = {}
BY DEF Orderly, NoCheckRuns, Outstanding

LEMMA BegunCheck ==
  ASSUME ConductInv, Outstanding = {}, NEW i \in 0 .. NRounds, BeginCheck(i), World' = World,
         World.state \in {"interrupted", "done"},
         i # 0 => World.checked /\ "stop" \notin Commands
  PROVE  OneCheck(World)'
<1>1. checks \in [1 .. MaxChecks -> CheckType]
  BY DEF ConductInv, OrderInv, IInv, Surroundings
<1>2. PICK c \in 1 .. MaxChecks :
        checks' = [checks EXCEPT ![c] = [NoCheck EXCEPT !.phase = "mission", !.retry = i]]
  BY DEF BeginCheck
<1> DEFINE job == [NoCheck EXCEPT !.phase = "mission", !.retry = i]
<1>3. job.retry = i
  BY DEF NoCheck
<1> HIDE DEF job
<1>4. /\ checks'[c] = job
      /\ \A d \in (1 .. MaxChecks) \ {c} : checks'[d] = checks[d]
  BY <1>1, <1>2 DEF job
<1>5. \A d \in Outstanding' : d = c
  BY <1>4 DEF Outstanding
<1> QED
  BY <1>3, <1>4, <1>5 DEF OneCheck

LEMMA CheckingConduct ==
  ASSUME Orderly, ConductInv, OrderInv', NEW gate, NEW elapsed \in BOOLEAN,
         CheckWithSensor \/ RetryFailed(gate, elapsed)
  PROVE  ConductInv' /\ Lawful
<1>1. Fit(World) /\ World \in Worlds /\ Outstanding = {}
  BY InvFit, NoneOutstanding DEF CheckWithSensor, RetryFailed
<1>2. UNCHANGED <<manual, clock>>
  BY DEF CheckWithSensor, RetryFailed, Command, outside
<1>3. ASSUME NEW i \in 0 .. NRounds, BeginCheck(i), Become(World), wish' = wish, slept' = slept,
             World.state \in {"interrupted", "done"},
             i # 0 => World.checked /\ "stop" \notin Commands
      PROVE  ConductInv' /\ Lawful
  <2>1. World' = World /\ posts' = posts
    BY <1>1, <1>3, Became, Fields
  <2>2. OneCheck(World)'
    BY <1>1, <1>3, <2>1, BegunCheck
  <2> QED
    BY <1>1, <1>2, <1>3, <2>1, <2>2, RevisesSelf, RevisedConduct DEF Lawful
<1>4. CASE CheckWithSensor
  <2>1. /\ BeginCheck(0) /\ Become(World) /\ wish' = wish /\ slept' = slept
        /\ World.state = "interrupted"
    BY <1>4, Fields DEF CheckWithSensor, Command
  <2>2. 0 \in 0 .. NRounds
    BY SizeAssumption
  <2> QED
    BY <1>3, <2>1, <2>2
<1>5. CASE RetryFailed(gate, elapsed)
  <2> DEFINE k == LastRound(World)
  <2>1. k \in Rounds /\ ~Active(World) /\ state # "closed" /\ ~InPass(World)
    BY <1>1, <1>5, LastRoundType DEF RetryFailed, Up
  <2>2. World.checked /\ "stop" \notin Commands
    BY <1>5, Fields DEF RetryFailed, Orderly
  <2>3. World.state # "idle"
    <3>1. ASSUME World.state = "idle" PROVE FALSE
      <4>1. \A t \in Keys : World.tasks[t] = "none"
        BY <1>1, <3>1 DEF Fit, Conduct, Loose, RowsOfBegun
      <4>2. \A i \in Rounds : <<i, 1>> \in Keys
        BY SizeAssumption DEF Keys, Rows
      <4>3. k = 0
        BY <2>1, <4>1, <4>2 DEF LastRound
      <4> QED
        BY <2>1, <4>3 DEF Rounds
    <3> QED
      BY <3>1
  <2>4. World.state = "done"
    BY <1>1, <2>1, <2>2, <2>3, Fields DEF Fit, Conduct, Loose, Vouched, Halted, Active
  <2>5. CASE \E t \in UncertainKeys(World) : t[1] = k
    <3>1. BeginCheck(k) /\ Become(World) /\ wish' = wish /\ slept' = slept
      BY <1>5, <2>5 DEF RetryFailed, history
    <3>2. k \in 0 .. NRounds
      BY <2>1 DEF Rounds
    <3> HIDE DEF k
    <3> QED
      BY <1>3, <2>2, <2>4, <3>1, <3>2
  <2>6. CASE ~ \E t \in UncertainKeys(World) : t[1] = k
    <3>1. Retried(World, k, gate, elapsed) /\ UNCHANGED checks
      BY <1>5, <2>6 DEF RetryFailed
    <3> HIDE DEF k
    <3>2. Outstanding' = {}
      BY <1>1, <3>1, ChecksStay
    <3> QED
      BY <1>1, <1>2, <2>1, <2>2, <2>4, <3>1, <3>2, RevisesSelf, RetriedConduct
  <2> QED
    BY <2>5, <2>6
<1> QED
  BY <1>4, <1>5

LEMMA ContinuedConduct ==
  ASSUME Orderly, ConductInv, OrderInv', NEW gate, NEW elapsed \in BOOLEAN,
         ContinueCommand(gate, elapsed)
  PROVE  ConductInv' /\ Lawful
<1> DEFINE n == Continue(World, gate, elapsed)
<1>1. Fit(World) /\ World \in Worlds /\ Around(World) /\ slept \subseteq Rounds
  BY InvFit DEF ConductInv, OrderInv, IInv, Surroundings
<1>2. /\ World.state = "interrupted" /\ CanContinue(World) /\ NoCheckRuns
      /\ UNCHANGED <<manual, clock, slept, checks>>
      /\ wish' = IF World.downloadsOnly THEN wish ELSE "go"
      /\ Become(Continue([World EXCEPT !.checked = FALSE], gate, elapsed))
  BY Fields DEF ContinueCommand, outside
<1>3. World.checked = FALSE
  <2>1. World.checked \in BOOLEAN
    BY <1>1 DEF Worlds
  <2>2. ~World.checked
    BY <1>1, <1>2 DEF Fit, Conduct, Loose, Vouched, Halted
  <2> QED
    BY <2>1, <2>2
<1>4. [World EXCEPT !.checked = FALSE] = World
  BY <1>1, <1>3 DEF Worlds
<1>5. Become(n)
  BY <1>2, <1>4
<1>6. /\ Fit(n) /\ Renews(World, n)
      /\ IF World.downloadsOnly THEN n.state = "done" ELSE Misses(World, n)
  BY <1>1, <1>2, ContinueFit
<1> HIDE DEF n
<1>7. World' = n /\ posts' = posts
  BY <1>5, <1>6, Became, Fields DEF Renews
<1>8. ASSUME NEW i \in slept PROVE clock[i] # "ahead" /\ n.rounds[i] \in {"missed", "skipped"}
  <2>1. /\ clock[i] # "ahead" /\ i \in Rounds
        /\ World.rounds[i] \in {"missed", "skipped"} \/ (World.rounds[i] \in Open /\ Away(World))
    BY <1>1 DEF Around, SleptWaits
  <2>2. CASE World.rounds[i] \in {"missed", "skipped"}
    BY <1>6, <2>1, <2>2 DEF Renews, LeavesMissed
  <2>3. CASE World.rounds[i] \in Open /\ Away(World)
    BY <1>2, <1>6, <2>1, <2>3 DEF Away, Misses
  <2> QED
    BY <2>1, <2>2, <2>3
<1>9. StayAway(n) /\ Outstanding' = {}
  BY <1>2, <1>8, NoneOutstanding, ChecksStay DEF StayAway
<1>10. n.owned => ~manual'
  BY <1>1, <1>2, <1>6 DEF Around, Locked, Renews, CanReserve
<1>11. n.state \in Willing => wish' # "halt"
  BY <1>2, <1>6 DEF Willing
<1>12. Goes(n)
  BY <1>6 DEF Renews
<1> QED
  BY <1>6, <1>7, <1>9, <1>10, <1>11, <1>12, GoneOn DEF Lawful

LEMMA RunMissedConduct ==
  ASSUME Orderly, ConductInv, OrderInv', NEW i \in Rounds, NEW gate, NEW elapsed \in BOOLEAN,
         RunMissedCommand(i, gate, elapsed)
  PROVE  ConductInv' /\ Lawful
<1> DEFINE n == RunMissed(World, i, gate, elapsed)
<1>1. Fit(World) /\ World \in Worlds /\ Around(World) /\ slept \subseteq Rounds
  BY InvFit DEF ConductInv, OrderInv, IInv, Surroundings
<1>2. /\ World.rounds[i] = "missed" /\ World.state # "closed" /\ NoCheckRuns
      /\ World.state = "interrupted" => CanContinue(World)
      /\ World.state \in {"done", "idle"} => CanReserve
      /\ Become(n) /\ slept' = slept \ {i} /\ UNCHANGED <<manual, clock, checks>>
      /\ wish' = IF World.state \in {"paused", "pause_requested", "stop_requested"}
                   THEN wish ELSE "go"
  BY Fields DEF RunMissedCommand, Command, Up, outside
<1>3. /\ Fit(n) /\ Goes(n) /\ n.posts = World.posts
      /\ n.owned => World.owned \/ CanReserve
      /\ World.state \in Going /\ n.state \in Willing => World.state \in Willing
      /\ LeavesOthers(World, n, i)
      /\ World.state = "interrupted" /\ ~World.downloadsOnly => MissesOthers(World, n, i)
  BY <1>1, <1>2, RunMissedFit
<1> HIDE DEF n
<1>4. World' = n /\ posts' = posts
  BY <1>2, <1>3, Became, Fields
<1>5. ASSUME NEW j \in slept, j # i
      PROVE  clock[j] # "ahead" /\ n.rounds[j] \in {"missed", "skipped"}
  <2>1. /\ clock[j] # "ahead" /\ j \in Rounds \ {i}
        /\ World.rounds[j] \in {"missed", "skipped"} \/ (World.rounds[j] \in Open /\ Away(World))
    BY <1>1, <1>5 DEF Around, SleptWaits
  <2>2. CASE World.rounds[j] \in {"missed", "skipped"}
    BY <1>3, <2>1, <2>2 DEF LeavesOthers
  <2>3. CASE World.rounds[j] \in Open /\ Away(World)
    BY <1>2, <1>3, <2>1, <2>3 DEF Away, MissesOthers
  <2> QED
    BY <2>1, <2>2, <2>3
<1>6. StayAway(n) /\ Outstanding' = {}
  BY <1>2, <1>5, NoneOutstanding, ChecksStay DEF StayAway
<1>7. n.owned => ~manual'
  BY <1>1, <1>2, <1>3 DEF Around, Locked, CanReserve
<1>8. n.state \in Willing => wish' # "halt"
  BY <1>2, <1>3 DEF Willing, Going, States
<1> QED
  BY <1>3, <1>4, <1>6, <1>7, <1>8, GoneOn DEF Lawful

LEMMA SkippedConduct ==
  ASSUME Orderly, ConductInv, OrderInv', NEW i \in Rounds,
         SkipUncertainCommand \/ SkipMissedCommand(i)
  PROVE  ConductInv' /\ Lawful
<1>1. /\ Fit(World) /\ World \in Worlds /\ Around(World) /\ slept \subseteq Rounds
      /\ UNCHANGED <<manual, clock, wish, slept, checks>>
  BY InvFit DEF ConductInv, OrderInv, IInv, Surroundings, SkipUncertainCommand,
     SkipMissedCommand, Command, outside
<1>2. CASE SkipUncertainCommand
  <2> DEFINE n == SkipUncertain(World)
  <2>1. World.state = "interrupted" /\ NoCheckRuns /\ Become(n)
    BY <1>2, Fields DEF SkipUncertainCommand
  <2>2. Fit(n) /\ Revises(World, n)
    BY <1>1, <2>1, SkipUncertainFit
  <2> HIDE DEF n
  <2>3. World' = n /\ posts' = posts
    BY <2>1, <2>2, Became, Fields DEF Revises
  <2>4. OneCheck(World)'
    BY <1>1, <2>1, NoneOutstanding, ChecksStay DEF OneCheck
  <2> QED
    BY <1>1, <2>1, <2>2, <2>3, <2>4, RevisedConduct DEF Lawful
<1>3. CASE SkipMissedCommand(i)
  <2> DEFINE n == SkipMissed(World, i)
  <2>1. World.rounds[i] = "missed" /\ World.state # "closed" /\ Become(n)
    BY <1>3, Fields DEF SkipMissedCommand, Command, Up
  <2>2. /\ Fit(n) /\ Alike(World, n) /\ n.downloadsOnly = World.downloadsOnly
        /\ n.disk.state = n.state /\ n.disk.rounds = n.rounds
        /\ n.rounds[i] = "skipped" /\ \A j \in Rounds \ {i} : n.rounds[j] = World.rounds[j]
    BY <1>1, <2>1, SkipMissedFit
  <2> HIDE DEF n
  <2>3. World' = n /\ posts' = posts
    BY <2>1, <2>2, Became, Fields DEF Alike
  <2>4. Locked(World)' /\ Obeyed(World)'
    BY <1>1, <2>2, <2>3 DEF Around, Locked, Obeyed, Alike
  <2>5. OneCheck(World)'
    BY <1>1, <2>2, <2>3, ChecksStay DEF Around, OneCheck, Alike
  <2>6. SleptWaits(n)
    <3>1. Away(World) => Away(n)
      BY <2>1, <2>2 DEF Away, Alike
    <3>2. ASSUME NEW j \in slept
          PROVE  /\ clock[j] # "ahead"
                 /\ n.rounds[j] \in {"missed", "skipped"} \/ (n.rounds[j] \in Open /\ Away(n))
      BY <1>1, <2>2, <3>1 DEF Around, SleptWaits
    <3> QED
      BY <1>1, <2>2, <3>2 DEF Around, SleptWaits, Alike
  <2>7. SleptWaits(World)'
    BY <1>1, <2>3, <2>6 DEF SleptWaits, Away
  <2>8. EndIsWritten(World)'
    BY <2>2, <2>3 DEF EndIsWritten
  <2>9. Conduct(World)'
    BY <2>2, <2>3 DEF Fit
  <2> QED
    BY <2>3, <2>4, <2>5, <2>7, <2>8, <2>9 DEF ConductInv, Around, Lawful
<1> QED
  BY <1>2, <1>3

-----------------------------------------------------------------------------
(* The application ends: what is left is the session file, which tells which passes wait. *)
LEMMA EndedConduct ==
  ASSUME ConductInv, OrderInv', NEW w, Neat(w, {}, FALSE), RowsOfBegun(w), Become(Closed(w)),
         w.rounds = World.rounds, w.disk = World.disk, Ended,
         World.state \notin {"idle", "closed"}
  PROVE  ConductInv' /\ state' = "closed" /\ posts' = w.posts
<1> DEFINE n == Closed(w)
<1>1. /\ w \in Worlds /\ SameRounds(World, World.disk) /\ Around(World) /\ slept \subseteq Rounds
      /\ Halted(World) \/ ((World.state = "done") <=> (World.disk.state = "done"))
  BY InvFit DEF Neat, Ordered, Fit, Filed, ConductInv, OrderInv, IInv, Surroundings
<1>2. /\ Fit(n) /\ n.state = "closed" /\ n.rounds = World.disk.rounds /\ n.disk = World.disk
      /\ ~n.owned /\ n.posts = w.posts
  BY <1>1, ClosedFit, ClosedFields, ClosedMore
<1> HIDE DEF n
<1>3. World' = n /\ posts' = n.posts /\ state' = "closed"
  <2>1. Become(n)
    BY DEF n
  <2>2. World' = n /\ posts' = n.posts
    BY <1>2, <2>1, Became
  <2>3. World'.state = state'
    BY DEF World
  <2> QED
    BY <1>2, <2>2, <2>3
<1>4. slept' = slept /\ clock' = clock /\ Outstanding' = {}
  BY DEF Ended, Outstanding, NoCheck
<1>5. Locked(World)' /\ Obeyed(World)' /\ OneCheck(World)' /\ EndIsWritten(World)'
  BY <1>2, <1>3, <1>4 DEF Locked, Obeyed, OneCheck, EndIsWritten, Willing
<1>6. ASSUME NEW i \in slept
      PROVE  /\ clock[i] # "ahead"
             /\ n.rounds[i] \in {"missed", "skipped"} \/ (n.rounds[i] \in Open /\ Away(n))
  <2>1. /\ clock[i] # "ahead" /\ i \in Rounds
        /\ World.rounds[i] \in {"missed", "skipped"} \/ (World.rounds[i] \in Open /\ Away(World))
    BY <1>1 DEF Around, SleptWaits
  <2>2. CASE World.disk.state = "done"
    <3>1. World.state \in {"interrupted", "done"}
      BY <1>1, <2>2 DEF Halted
    <3>2. World.disk.rounds = World.rounds /\ ~Away(World)
      BY <1>1, <2>2, <3>1 DEF Around, EndIsWritten, Away
    <3> QED
      BY <1>2, <2>1, <3>2
  <2>3. CASE World.disk.state # "done"
    <3>1. Away(n)
      BY <1>2, <2>3 DEF Away
    <3> QED
      BY <1>1, <1>2, <2>1, <3>1 DEF SameRounds, Open
  <2> QED
    BY <2>2, <2>3
<1>7. SleptWaits(World)'
  BY <1>2, <1>3, <1>4, <1>6 DEF SleptWaits, Away
<1>8. Conduct(World)'
  BY <1>2, <1>3 DEF Fit
<1> QED
  BY <1>2, <1>3, <1>5, <1>7, <1>8 DEF ConductInv, Around

LEMMA EndConduct ==
  ASSUME ConductInv, OrderInv', NEW arrives \in BOOLEAN, NEW file \in BOOLEAN,
         Close(arrives, file) \/ CrashInSubmit(arrives, file)
  PROVE  ConductInv' /\ Lawful
<1>1. Neat(World, {}, FALSE) /\ RowsOfBegun(World) /\ World \in Worlds
  BY InvFit DEF Fit, Loose
<1>2. CASE Close(arrives, file)
  <2>1. Ended /\ World.state \notin {"idle", "closed"} /\ Become(Closed(World))
    BY <1>2, Fields DEF Close
  <2>2. ConductInv' /\ posts' = World.posts
    BY <1>1, <2>1, EndedConduct
  <2> QED
    BY <2>2, Fields DEF Lawful
<1>3. CASE CrashInSubmit(arrives, file)
  <2> DEFINE k == idleCheck
             more == [World.posts EXCEPT ![k] = @ + 1]
             w == [World EXCEPT !.posts = more]
  <2>1. /\ k \in Keys /\ Become(Closed([World EXCEPT !.posts[k] = @ + 1]))
        /\ Ended /\ World.state = "running"
    <3>1. /\ k # None /\ Become(Closed([World EXCEPT !.posts[k] = @ + 1]))
          /\ Ended /\ World.state = "running"
      BY <1>3, Fields DEF CrashInSubmit
    <3>2. k \in Keys
      BY <1>1, <3>1, Fields DEF Worlds
    <3> QED
      BY <3>1, <3>2
  <2>2. more \in [Keys -> Nat] /\ [World EXCEPT !.posts[k] = @ + 1] = w
    BY <1>1, <2>1 DEF Worlds
  <2> HIDE DEF more, k
  <2>3. /\ w \in Worlds /\ w.tasks = World.tasks /\ w.rounds = World.rounds
        /\ w.current = World.current /\ w.capture = World.capture
        /\ w.inFlight = World.inFlight /\ w.downloadsOnly = World.downloadsOnly
        /\ w.preflightPending = World.preflightPending /\ w.state = World.state
        /\ w.disk = World.disk /\ w.attempts = World.attempts /\ w.recordOf = World.recordOf
    BY <1>1, <2>2 DEF Worlds
  <2> HIDE DEF w
  <2>4. Neat(w, {}, FALSE)
    BY <1>1, <2>3, Aside DEF Neat
  <2>5. RowsOfBegun(w)
    BY <1>1, <2>3 DEF RowsOfBegun
  <2>6. Become(Closed(w))
    BY <2>1, <2>2
  <2>7. ConductInv' /\ state' = "closed"
    BY <2>1, <2>3, <2>4, <2>5, <2>6, EndedConduct
  <2> QED
    BY <2>1, <2>7, Fields DEF Lawful, Up
<1> QED
  BY <1>2, <1>3

LEMMA RestartConduct ==
  ASSUME ConductInv, OrderInv', NEW unfinished \in BOOLEAN, Restart(unfinished)
  PROVE  ConductInv' /\ Lawful
<1> DEFINE n == Loaded(World, unfinished)
<1>1. /\ World.state = "closed" /\ Become(n) /\ UNCHANGED <<manual, clock, wish, slept, checks>>
  BY Fields DEF Restart, outside, history
<1>2. Fit(World) /\ Around(World) /\ slept \subseteq Rounds /\ Outstanding = {}
  BY <1>1, InvFit, Quiet DEF ConductInv, OrderInv, IInv, Surroundings
<1>3. /\ Fit(n) /\ n.posts = World.posts /\ n.owned = World.owned /\ n.disk = World.disk
      /\ n.state \in {"done", "interrupted"} /\ LeavesMissed(World, n)
      /\ World.disk.state = "done" => /\ n.rounds = World.rounds
                                      /\ n.state = "interrupted" => n.downloadsOnly
      /\ World.disk.state # "done" => /\ n.state = "interrupted" /\ ~n.downloadsOnly
                                      /\ Misses(World, n)
  BY <1>1, <1>2, LoadedFit
<1> HIDE DEF n
<1>4. World' = n /\ posts' = posts
  BY <1>1, <1>3, Became, Fields
<1>5. Locked(World)' /\ Obeyed(World)' /\ OneCheck(World)'
  BY <1>1, <1>2, <1>3, <1>4, ChecksStay DEF Around, Locked, Obeyed, OneCheck, Willing
<1>6. ASSUME NEW i \in slept PROVE clock[i] # "ahead" /\ n.rounds[i] \in {"missed", "skipped"}
  <2>1. /\ clock[i] # "ahead" /\ i \in Rounds
        /\ World.rounds[i] \in {"missed", "skipped"} \/ (World.rounds[i] \in Open /\ Away(World))
    BY <1>2 DEF Around, SleptWaits
  <2>2. CASE World.rounds[i] \in {"missed", "skipped"}
    BY <1>3, <2>1, <2>2 DEF LeavesMissed
  <2>3. CASE World.rounds[i] \in Open /\ Away(World)
    BY <1>1, <1>3, <2>1, <2>3 DEF Away, Misses
  <2> QED
    BY <2>1, <2>2, <2>3
<1>7. SleptWaits(World)'
  BY <1>1, <1>3, <1>4, <1>6 DEF SleptWaits
<1>8. EndIsWritten(World)'
  BY <1>1, <1>2, <1>3, <1>4 DEF Around, EndIsWritten
<1>9. Conduct(World)'
  BY <1>3, <1>4 DEF Fit
<1> QED
  BY <1>4, <1>5, <1>7, <1>8, <1>9 DEF ConductInv, Around, Lawful

(* The world outside: a manual recording begins or ends, a pass's time comes, or nothing. *)
LEMMA OutsideConduct ==
  ASSUME ConductInv, OrderInv', NEW i \in Rounds,
         ManualRecording \/ TimePasses(i) \/ UNCHANGED vars
  PROVE  ConductInv' /\ Lawful
<1>1. /\ Fit(World) /\ Around(World) /\ slept \subseteq Rounds /\ Conduct(World)
      /\ clock \in [Rounds -> Times] /\ manual \in BOOLEAN
  BY InvFit DEF ConductInv, OrderInv, IInv, Surroundings
<1>2. World' = World /\ posts' = posts
  <2>1. CASE ManualRecording \/ TimePasses(i)
    BY <1>1, <2>1, Became, Fields DEF ManualRecording, TimePasses
  <2>2. CASE UNCHANGED vars
    BY <2>2 DEF vars, World
  <2> QED
    BY <2>1, <2>2
<1>3. wish' = wish /\ UNCHANGED checks
  BY DEF ManualRecording, TimePasses, history, vars
<1>4. Obeyed(World)' /\ EndIsWritten(World)' /\ OneCheck(World)' /\ Conduct(World)'
  <2>1. Obeyed(World)' /\ EndIsWritten(World)' /\ Conduct(World)'
    BY <1>1, <1>2, <1>3 DEF Around, Obeyed, EndIsWritten
  <2>2. OneCheck(World)'
    BY <1>1, <1>2, <1>3 DEF Around, OneCheck, Outstanding
  <2> QED
    BY <2>1, <2>2
<1>5. Locked(World)'
  <2>1. CASE ManualRecording
    BY <1>1, <1>2, <2>1, Fields DEF ManualRecording, Around, Locked
  <2>2. CASE TimePasses(i) \/ UNCHANGED vars
    BY <1>1, <1>2, <2>2 DEF TimePasses, vars, Around, Locked
  <2> QED
    BY <2>1, <2>2
<1>6. SleptWaits(World)'
  <2>1. CASE TimePasses(i)
    <3>1. /\ clock' = [clock EXCEPT ![i] = IF @ = "ahead" THEN "passed" ELSE "late"]
          /\ slept' = slept
               \/ (slept' = slept \cup {i} /\ World.rounds[i] \in Open /\ Away(World))
          /\ World.rounds[i] # "none"
      BY <2>1, Fields DEF TimePasses, Away
    <3>2. \A j \in Rounds : clock[j] # "ahead" \/ j = i => clock'[j] # "ahead"
      BY <1>1, <3>1
    <3>3. World.state # "idle" \/ slept' = slept
      BY <3>1 DEF Away
    <3>4. ASSUME NEW j \in slept'
          PROVE  /\ clock'[j] # "ahead"
                 /\ \/ World.rounds[j] \in {"missed", "skipped"}
                    \/ World.rounds[j] \in Open /\ Away(World)
      BY <1>1, <3>1, <3>2 DEF Around, SleptWaits
    <3> QED
      BY <1>1, <1>2, <3>3, <3>4 DEF Around, SleptWaits, Away
  <2>2. CASE ManualRecording \/ UNCHANGED vars
    BY <1>1, <1>2, <2>2 DEF ManualRecording, vars, history, Around, SleptWaits, Away
  <2> QED
    BY <2>1, <2>2
<1> QED
  BY <1>2, <1>4, <1>5, <1>6 DEF ConductInv, Around, Lawful

-----------------------------------------------------------------------------
LEMMA InitConduct == Init => ConductInv
<1> SUFFICES ASSUME Init PROVE ConductInv
  OBVIOUS
<1>1. OrderInv
  BY InitOrder
<1>2. /\ World.state = "idle" /\ World.current = 0 /\ ~World.inFlight
      /\ ~World.preflightPending /\ ~World.preflightDue /\ World.idleCheck = None
      /\ World.tasks = [t \in Keys |-> "none"] /\ ~World.owned /\ ~World.checked
      /\ World.disk.state = "idle"
  BY DEF Init, World, NoSession
<1>3. \A t \in Keys : World.tasks[t] = "none"
  BY <1>2
<1>4. \A i \in Rounds, k \in Rows : <<i, k>> \in Keys
  BY DEF Keys
<1>5. CheckIsDue(World) /\ IdleCheckIsStale(World) /\ IdleCheckOfRow(World)
  BY <1>2 DEF CheckIsDue, IdleCheckIsStale, IdleCheckOfRow
<1>6. RowsOfBegun(World)
  BY <1>3, <1>4 DEF RowsOfBegun
<1>7. StatesFit(World) /\ Reserved(World) /\ SentIsMarked(World) /\ StopIsPending(World)
  BY <1>2 DEF StatesFit, Reserved, SentIsMarked, StopIsPending, Going
<1>8. Vouched(World)
  BY <1>2 DEF Vouched, InPass, Halted
<1>9. Conduct(World)
  BY <1>5, <1>6, <1>7, <1>8 DEF Conduct, Loose
<1>10. slept = {} /\ Outstanding = {}
  BY DEF Init, Outstanding
<1>11. Around(World)
  BY <1>2, <1>10 DEF Around, Locked, Obeyed, Willing, OneCheck, SleptWaits, EndIsWritten
<1> QED
  BY <1>1, <1>9, <1>11 DEF ConductInv

LEMMA NextConduct ==
  ASSUME Orderly
  PROVE  ConductInv /\ [Next]_vars => ConductInv' /\ Lawful
<1> SUFFICES ASSUME ConductInv, [Next]_vars PROVE ConductInv' /\ Lawful
  OBVIOUS
<1>0. OrderInv'
  BY NextKeepsOrder DEF ConductInv
<1>1. Answers \subseteq AllAnswers /\ 1 \in Rounds
  BY ChoiceAssumption, SizeAssumption DEF Rounds
<1>2. ASSUME NEW gate \in Gates, NEW elapsed \in BOOLEAN, TimerTick(gate, elapsed)
      PROVE  ConductInv' /\ Lawful
  BY <1>0, <1>2, WorkersConduct DEF AllAnswers
<1>3. ASSUME NEW gate \in Gates, NEW blocking \in BOOLEAN, PreflightAnswered(blocking, gate)
      PROVE  ConductInv' /\ Lawful
  BY <1>0, <1>3, WorkersConduct DEF AllAnswers
<1>4. ASSUME NEW gate \in Gates, StorageSettleAnswered(gate) \/ CaptureFinished(gate)
      PROVE  ConductInv' /\ Lawful
  BY <1>0, <1>4, WorkersConduct DEF AllAnswers
<1>5. ASSUME NEW gate \in Gates, NEW idle \in BOOLEAN, NEW answer \in Answers,
             IdleCheckAnswered(idle, answer, gate)
      PROVE  ConductInv' /\ Lawful
  BY <1>0, <1>1, <1>5, WorkersConduct
<1>6. ASSUME NEW gate \in Gates, NEW elapsed \in BOOLEAN, NEW c \in 1 .. MaxChecks,
             NEW idle \in BOOLEAN, MissionListRead(c, idle, gate, elapsed)
      PROVE  ConductInv' /\ Lawful
  BY <1>0, <1>6, ChecksConduct
<1>7. ASSUME NEW gate \in Gates, NEW elapsed \in BOOLEAN, NEW c \in 1 .. MaxChecks,
             NEW answer \in (Outcomes \cap Confirmed) \cup {"failed"},
             FilesListed(c, answer, gate, elapsed)
      PROVE  ConductInv' /\ Lawful
  BY <1>0, <1>7, ChecksConduct
<1>8. ASSUME NEW gate \in Gates, NEW elapsed \in BOOLEAN,
             Start(gate, elapsed) \/ ResumeCommand(gate, elapsed)
      PROVE  ConductInv' /\ Lawful
  BY <1>0, <1>8, OperatorConduct
<1>9. PauseCommand \/ StopCommand => ConductInv' /\ Lawful
  BY <1>0, OperatorConduct
<1>10. ASSUME NEW gate \in Gates, NEW elapsed \in BOOLEAN, RetryFailed(gate, elapsed)
       PROVE  ConductInv' /\ Lawful
  BY <1>0, <1>10, CheckingConduct
<1>11. ASSUME NEW gate \in Gates, NEW elapsed \in BOOLEAN, ContinueCommand(gate, elapsed)
       PROVE  ConductInv' /\ Lawful
  BY <1>0, <1>11, ContinuedConduct
<1>12. ASSUME NEW gate \in Gates, NEW elapsed \in BOOLEAN, NEW i \in Rounds,
              RunMissedCommand(i, gate, elapsed)
       PROVE  ConductInv' /\ Lawful
  BY <1>0, <1>12, RunMissedConduct
<1>13. CheckWithSensor => ConductInv' /\ Lawful
  BY <1>0, CheckingConduct
<1>14. ASSUME NEW i \in Rounds, SkipMissedCommand(i) \/ SkipUncertainCommand
       PROVE  ConductInv' /\ Lawful
  BY <1>0, <1>14, SkippedConduct
<1>15. ASSUME RequestReaches PROVE ConductInv' /\ Lawful
  BY <1>0, <1>15, SensorConduct
<1>16. ASSUME NEW outcome \in Outcomes, NEW file \in BOOLEAN, CaptureReports(outcome, file)
       PROVE  ConductInv' /\ Lawful
  BY <1>0, <1>16, SensorConduct
<1>17. ASSUME NEW arrives \in BOOLEAN, NEW file \in BOOLEAN,
              Close(arrives, file) \/ CrashInSubmit(arrives, file)
       PROVE  ConductInv' /\ Lawful
  BY <1>0, <1>17, EndConduct
<1>18. ASSUME NEW unfinished \in BOOLEAN, Restart(unfinished) PROVE ConductInv' /\ Lawful
  BY <1>0, <1>18, RestartConduct
<1>19. ASSUME NEW i \in Rounds, ManualRecording \/ TimePasses(i) \/ UNCHANGED vars
       PROVE  ConductInv' /\ Lawful
  BY <1>0, <1>19, OutsideConduct
<1>20. Terminating => UNCHANGED vars
  BY DEF Terminating
<1> QED
  BY <1>1, <1>2, <1>3, <1>4, <1>5, <1>6, <1>7, <1>8, <1>9, <1>10, <1>11, <1>12, <1>13, <1>14,
     <1>15, <1>16, <1>17, <1>18, <1>19, <1>20 DEF Next

LEMMA AlwaysConduct ==
  ASSUME Orderly
  PROVE  Spec => []ConductInv
<1>1. Init => ConductInv
  BY InitConduct
<1>2. ConductInv /\ [Next]_vars => ConductInv'
  BY NextConduct
<1> QED
  BY <1>1, <1>2, PTL DEF Spec

(* While a request of the collection is out, the collection holds the sensor and the manual
   tab records nothing, whatever is paused, stopped, retried or closed in between.        *)
THEOREM SensorHeld ==
  ASSUME Orderly
  PROVE  Spec => []SensorHeldWhileRecording
<1>1. ConductInv => SensorHeldWhileRecording
  <2> SUFFICES ASSUME ConductInv, capture.phase # "idle" PROVE owned /\ ~manual
    BY DEF SensorHeldWhileRecording
  <2>1. Fit(World) /\ Around(World)
    BY InvFit
  <2>2. inFlight
    BY <2>1, Fields DEF Fit, Neat, Ordered, Flight
  <2>3. World.state \in Going
    BY <2>1, <2>2, Fields DEF Fit, Neat, Ordered, Flight
  <2>4. World.owned
    BY <2>1, <2>3 DEF Fit, Conduct, Loose, Reserved
  <2> QED
    BY <2>1, <2>4, Fields DEF Around, Locked
<1> QED
  BY <1>1, AlwaysConduct, PTL

(* The session file can be believed after the application ends at any moment: it has the
   rows and the running pass as they are, and a request that is out is on record as one
   that may have reached the sensor.                                                      *)
THEOREM SessionFileTrue ==
  ASSUME Orderly
  PROVE  Spec => []SessionFileIsTrue
<1>1. ConductInv => RequestIsOnRecord
  <2> SUFFICES ASSUME ConductInv, capture.phase \in {"sent", "reached"}
               PROVE  disk.tasks[capture.key] \in Uncertain
    BY DEF RequestIsOnRecord
  <2>1. Fit(World)
    BY InvFit
  <2>2. inFlight
    BY <2>1, Fields DEF Fit, Neat, Ordered, Flight
  <2>3. World.tasks[capture.key] = "submitting" /\ World.disk.tasks = World.tasks
    BY <2>1, <2>2, Fields DEF Fit, Neat, Filed, Conduct, Loose, SentIsMarked
  <2> QED
    BY <2>3, Fields DEF Uncertain
<1>2. SessionFileIsCurrent /\ RequestIsOnRecord => SessionFileIsTrue
  BY DEF SessionFileIsTrue
<1> QED
  BY <1>1, <1>2, AlwaysConduct, SessionFileCurrent, PTL

(* After Pause, Stop or the end of the application no answer that is still on its way sends
   a request: the operator resumes, continues or retries first.                            *)
THEOREM NothingUnbidden ==
  ASSUME Orderly
  PROVE  Spec => NothingSentAfterPauseOrStop
<1>1. ConductInv /\ [Next]_vars => [posts' # posts => wish # "halt"]_vars
  <2> SUFFICES ASSUME ConductInv, [Next]_vars, posts' # posts PROVE wish # "halt"
    OBVIOUS
  <2>1. World.state = "running"
    BY NextConduct, Fields DEF Lawful
  <2> QED
    BY <2>1, InvFit DEF Around, Obeyed, Willing
<1> QED
  BY <1>1, AlwaysConduct, PTL DEF Spec, NothingSentAfterPauseOrStop

(* No request before the pre-collection check of its pass has passed, and passed again after
   a restart; and a pass slept over, by a closed application or an interrupted collection,
   starts only when the operator runs it.                                                  *)
THEOREM PassesChecked ==
  ASSUME Orderly
  PROVE  Spec => PassBeginsChecked
<1>1. ConductInv /\ [Next]_vars => [posts' # posts => checked \/ ~Up']_vars
  BY NextConduct DEF Lawful
<1>2. ConductInv /\ ConductInv' /\ [Next]_vars =>
        [\A i \in Rounds : rounds[i] # "running" /\ rounds'[i] = "running" => i \notin slept']_vars
  <2> SUFFICES ASSUME ConductInv', NEW i \in Rounds, rounds'[i] = "running", i \in slept'
               PROVE  FALSE
    OBVIOUS
  <2>1. SleptWaits(World)' /\ World'.rounds = rounds'
    BY DEF ConductInv, Around, World
  <2> QED
    BY <2>1 DEF SleptWaits, Open
<1> QED
  BY <1>1, <1>2, AlwaysConduct, PTL
     DEF Spec, PassBeginsChecked, CheckedBeforeRequest, SleptPassWaitsForOperator

-----------------------------------------------------------------------------
(***************************************************************************)
(* The passes and the recordings: how many passes begin, and which rows    *)
(* may be sent again.                                                      *)
(***************************************************************************)
(* How many passes there are, and which are left, said of their states alone. *)
Left(rs) == {i \in Rounds : rs[i] \notin Finished \cup {"none"}}
Known(rs) == {i \in Rounds : rs[i] # "none"}
NoMore(rs) ==
  Mode = "now" => Known(rs) = Rounds \/ (Repeat > 0 /\ Cardinality(Known(rs)) >= Repeat)

(* Nothing ends the collection before its last pass. *)
NeverCut == "stop" \notin Commands /\ (Mode = "now" => "skip_missed" \notin Commands)

(* A run-now collection has one pass before it at most and never more than asked for; a
   collection that is done has none left, and no further one to come if it was not cut. *)
OneIsLeft(rs) == Mode = "now" => \A i, j \in Left(rs) : i = j
Bounded(rs) == Mode = "now" /\ Repeat > 0 => Cardinality(Known(rs)) <= Repeat
StopsAsked(rs) == \A i \in Rounds : rs[i] = "stopped" => "stop" \in Commands
DoneIsOver(rs, s, c) == s = "done" /\ c = TRUE /\ "stop" \notin Commands => Left(rs) = {}
EndsRight(rs, s) == s # "idle" /\ NeverCut /\ Left(rs) = {} => NoMore(rs)
Tally(rs, s, c) ==
  /\ OneIsLeft(rs) /\ Bounded(rs) /\ StopsAsked(rs)
  /\ DoneIsOver(rs, s, c) /\ EndsRight(rs, s)

(* Nothing but the running pass is left, and no other will come. *)
Lasts(rs) == (\A i \in Rounds : rs[i] \in Finished \cup {"none", "running"}) /\ NoMore(rs)

(* Passes that wait change among themselves, passes that ended as well. *)
Waiting == Open \cup {"missed", "running"}
Shifted(rs, qs) ==
  \A i \in Rounds : \/ qs[i] = rs[i]
                    \/ {rs[i], qs[i]} \subseteq Waiting
                    \/ {rs[i], qs[i]} \subseteq Counted

LEMMA ShiftedSets ==
  ASSUME NEW rs, NEW qs, Shifted(rs, qs)
  PROVE  Left(qs) = Left(rs) /\ Known(qs) = Known(rs) /\ (StopsAsked(rs) => StopsAsked(qs))
BY DEF Shifted, Left, Known, StopsAsked, Waiting, Counted, Finished, Open

LEMMA TallyShifted ==
  ASSUME NEW rs, NEW qs, Shifted(rs, qs), NEW s, NEW c, NEW s2, NEW c2, Tally(rs, s, c),
         s = "idle" => s2 = "idle",
         s2 = "done" /\ c2 = TRUE /\ "stop" \notin Commands => s = "done" /\ c = TRUE
  PROVE  Tally(qs, s2, c2)
<1>1. Left(qs) = Left(rs) /\ Known(qs) = Known(rs) /\ (StopsAsked(rs) => StopsAsked(qs))
  BY ShiftedSets
<1>2. OneIsLeft(qs) /\ Bounded(qs) /\ StopsAsked(qs)
  BY <1>1 DEF Tally, OneIsLeft, Bounded
<1>3. DoneIsOver(qs, s2, c2)
  BY <1>1 DEF Tally, DoneIsOver
<1>4. EndsRight(qs, s2)
  BY <1>1 DEF Tally, EndsRight, NoMore
<1> QED
  BY <1>2, <1>3, <1>4 DEF Tally

LEMMA TallyDone ==
  ASSUME NEW rs, NEW s, NEW c, NEW c2, Tally(rs, s, c), s # "idle",
         Left(rs) = {} \/ "stop" \in Commands
  PROVE  Tally(rs, "done", c2)
BY DEF Tally, DoneIsOver, EndsRight

LEMMA KnownFinite ==
  ASSUME NEW rs
  PROVE  IsFiniteSet(Known(rs)) /\ Cardinality(Known(rs)) \in Nat
<1>1. Known(rs) \subseteq 1 .. NRounds
  BY DEF Known, Rounds
<1>2. IsFiniteSet(1 .. NRounds)
  BY SizeAssumption, FS_Interval
<1> QED
  BY <1>1, <1>2, FS_Subset, FS_CardinalityType

(* _next_pass_after() on the states of the passes *)
NextOf(rs) ==
  CHOOSE i \in {k \in Rounds : rs[k] = "none"} :
    \A j \in {k \in Rounds : rs[k] = "none"} : i <= j
More(rs) ==
  /\ Mode = "now" /\ {i \in Rounds : rs[i] = "none"} # {}
  /\ Repeat = 0 \/ Cardinality({i \in Rounds : rs[i] \in Finished}) < Repeat
Extended(rs) == IF More(rs) THEN [rs EXCEPT ![NextOf(rs)] = "pending"] ELSE rs

LEMMA NextOfNone ==
  ASSUME NEW rs, {i \in Rounds : rs[i] = "none"} # {}
  PROVE  NextOf(rs) \in Rounds /\ rs[NextOf(rs)] = "none"
<1> DEFINE S == {i \in Rounds : rs[i] = "none"}
<1>1. S \in SUBSET Nat /\ S # {}
  BY DEF Rounds
<1>2. \E i \in S : \A j \in S : i <= j
  BY <1>1, LeastExists
<1>3. NextOf(rs) \in S
  BY <1>2 DEF NextOf
<1> QED
  BY <1>3

(* The pass that was running has ended: all passes are over. *)
LEMMA AllOver ==
  ASSUME NEW rs, NEW c, OneIsLeft(rs) \/ Lasts(rs), NEW i \in Rounds, rs[i] = "running",
         Mode = "now", Lasts(rs) => \A j \in Rounds : rs[j] = "running" => j = i,
         NEW qs, NEW e \in Finished, qs = [rs EXCEPT ![i] = e], rs \in [Rounds -> RoundStates]
  PROVE  Left(qs) = {} /\ Known(qs) = {j \in Rounds : qs[j] \in Finished}
<1>0. i \in Left(rs)
  BY DEF Left, Finished
<1>1. \A j \in Left(rs) : j = i
  BY <1>0 DEF OneIsLeft, Lasts, Left
<1>2. \A j \in Rounds : qs[j] \in Finished \cup {"none"}
  BY <1>1 DEF Left
<1>3. "none" \notin Finished
  BY DEF Finished
<1> QED
  BY <1>2, <1>3 DEF Left, Known

(* A pass that ends with a verdict is followed by the next, if there is to be one. *)
LEMMA TallyFinished ==
  ASSUME NEW rs \in [Rounds -> RoundStates], NEW s, NEW c, NEW c2, Tally(rs, s, c), s # "idle",
         NEW i \in Rounds, rs[i] = "running", NEW e \in Counted
  PROVE  Tally(Extended([rs EXCEPT ![i] = e]), "waiting_schedule", c2)
<1> DEFINE qs == [rs EXCEPT ![i] = e]
<1>1. qs \in [Rounds -> RoundStates] /\ \A j \in Rounds : qs[j] = IF j = i THEN e ELSE rs[j]
  BY DEF Counted, RoundStates
<1>2. Known(qs) = Known(rs) /\ StopsAsked(qs)
  BY <1>1 DEF Known, StopsAsked, Counted, Tally
<1>3. CASE Mode # "now"
  BY <1>2, <1>3 DEF Extended, More, Tally, OneIsLeft, Bounded, DoneIsOver, EndsRight, NoMore
<1>4. CASE Mode = "now"
  <2>1. e \in Finished
    BY DEF Counted, Finished
  <2>2. Left(qs) = {} /\ Known(qs) = {j \in Rounds : qs[j] \in Finished}
    <3>1. OneIsLeft(rs)
      BY DEF Tally
    <3>2. \A j \in Rounds : rs[j] = "running" => j = i
      BY <1>4, <3>1 DEF OneIsLeft, Left, Finished
    <3> QED
      BY <1>4, <2>1, <3>1, <3>2, AllOver
  <2>3. IsFiniteSet(Known(qs)) /\ Cardinality(Known(qs)) \in Nat
    BY KnownFinite
  <2>4. CASE More(qs)
    <3> DEFINE n == NextOf(qs)
    <3> DEFINE ps == [qs EXCEPT ![n] = "pending"]
    <3>1. n \in Rounds /\ qs[n] = "none"
      BY <2>4, NextOfNone DEF More
    <3> HIDE DEF n
    <3>2. \A j \in Rounds : ps[j] = IF j = n THEN "pending" ELSE qs[j]
      BY <1>1, <3>1
    <3>3. Extended(qs) = ps
      BY <2>4 DEF Extended, n
    <3> HIDE DEF ps, qs
    <3>4. Left(ps) = {n}
      BY <2>2, <3>1, <3>2 DEF Left, Finished
    <3>5. Known(ps) = Known(qs) \cup {n} /\ n \notin Known(qs)
      BY <3>1, <3>2 DEF Known
    <3>6. Cardinality(Known(ps)) = Cardinality(Known(qs)) + 1
      BY <2>3, <3>5, FS_AddElement
    <3>7. Repeat > 0 => Cardinality(Known(qs)) < Repeat
      BY <2>2, <2>4, ChoiceAssumption DEF More
    <3>8. Bounded(ps)
      BY <2>3, <3>6, <3>7, ChoiceAssumption DEF Bounded
    <3>9. OneIsLeft(ps) /\ EndsRight(ps, "waiting_schedule") /\ DoneIsOver(ps, "waiting_schedule", c2)
      BY <3>4 DEF OneIsLeft, EndsRight, DoneIsOver
    <3>10. StopsAsked(ps)
      BY <1>2, <3>2 DEF StopsAsked
    <3> QED
      BY <3>3, <3>8, <3>9, <3>10 DEF Tally, qs
  <2>5. CASE ~More(qs)
    <3> HIDE DEF qs
    <3>1. NoMore(qs)
      <4>1. CASE {j \in Rounds : qs[j] = "none"} = {}
        <5>1. Known(qs) = Rounds
          BY <4>1 DEF Known
        <5> QED
          BY <5>1 DEF NoMore
      <4>2. CASE {j \in Rounds : qs[j] = "none"} # {}
        <5>1. Repeat # 0 /\ ~(Cardinality(Known(qs)) < Repeat)
          BY <1>4, <2>2, <2>5, <4>2 DEF More
        <5>2. Repeat > 0 /\ Cardinality(Known(qs)) >= Repeat
          BY <2>3, <5>1, ChoiceAssumption
        <5> QED
          BY <5>2 DEF NoMore
      <4> QED
        BY <4>1, <4>2
    <3>2. Extended(qs) = qs
      BY <2>5 DEF Extended
    <3>3. Bounded(qs)
      BY <1>2 DEF Tally, Bounded
    <3> QED
      BY <1>2, <2>2, <3>1, <3>2, <3>3 DEF Tally, OneIsLeft, EndsRight, DoneIsOver, qs
  <2> QED
    BY <2>4, <2>5
<1> QED
  BY <1>3, <1>4, ChoiceAssumption

LEMMA LastsFinished ==
  ASSUME NEW rs \in [Rounds -> RoundStates], Lasts(rs),
         NEW i \in Rounds, rs[i] = "running", \A j \in Rounds : rs[j] = "running" => j = i,
         NEW e \in Finished
  PROVE  /\ Lasts([rs EXCEPT ![i] = e])
         /\ Extended([rs EXCEPT ![i] = e]) = [rs EXCEPT ![i] = e]
<1> DEFINE qs == [rs EXCEPT ![i] = e]
<1>1. \A j \in Rounds : qs[j] = IF j = i THEN e ELSE rs[j]
  OBVIOUS
<1>2. Known(qs) = Known(rs)
  BY <1>1 DEF Known, Finished
<1>3. NoMore(qs)
  BY <1>2 DEF Lasts, NoMore
<1>4. Lasts(qs)
  BY <1>1, <1>3 DEF Lasts
<1>5. ~More(qs)
  <2>1. SUFFICES ASSUME Mode = "now", More(qs) PROVE FALSE
    BY DEF More
  <2>2. Known(qs) = {j \in Rounds : qs[j] \in Finished}
    BY <2>1, AllOver
  <2>3. Cardinality(Known(qs)) \in Nat
    BY KnownFinite
  <2>4. Known(qs) # Rounds
    BY <2>1 DEF More, Known
  <2>5. Repeat = 0 \/ Cardinality(Known(qs)) < Repeat
    BY <2>1, <2>2 DEF More
  <2> HIDE DEF qs
  <2> QED
    BY <1>3, <2>1, <2>3, <2>4, <2>5, ChoiceAssumption DEF NoMore
<1> QED
  BY <1>4, <1>5 DEF Extended

LEMMA TallyStopped ==
  ASSUME NEW rs \in [Rounds -> RoundStates], NEW s, NEW c, NEW c2, NEW s2, Tally(rs, s, c),
         "stop" \in Commands,
         NEW i \in Rounds, rs[i] = "running"
  PROVE  Tally([rs EXCEPT ![i] = "stopped"], s2, c2)
<1> DEFINE qs == [rs EXCEPT ![i] = "stopped"]
<1>1. \A j \in Rounds : qs[j] = IF j = i THEN "stopped" ELSE rs[j]
  OBVIOUS
<1>2. Known(qs) = Known(rs) /\ Left(qs) \subseteq Left(rs) /\ StopsAsked(qs)
  BY <1>1 DEF Known, StopsAsked, Tally, Left, Finished
<1> QED
  BY <1>2 DEF Tally, OneIsLeft, Bounded, DoneIsOver, EndsRight, NeverCut

(* A finished pass runs once more: nothing else is left. *)
LEMMA TallyRetried ==
  ASSUME NEW rs \in [Rounds -> RoundStates], NEW c, NEW c2, Tally(rs, "done", c), c = TRUE,
         "stop" \notin Commands, NEW i \in Rounds, rs[i] # "none"
  PROVE  Tally([rs EXCEPT ![i] = "running"], "running", c2)
<1> DEFINE qs == [rs EXCEPT ![i] = "running"]
<1>1. \A j \in Rounds : qs[j] = IF j = i THEN "running" ELSE rs[j]
  OBVIOUS
<1>2. Left(rs) = {}
  BY DEF Tally, DoneIsOver
<1>3. Known(qs) = Known(rs) /\ Left(qs) = {i} /\ StopsAsked(qs)
  BY <1>1, <1>2 DEF Known, StopsAsked, Tally, Left, Finished
<1> QED
  BY <1>3 DEF Tally, OneIsLeft, Bounded, DoneIsOver, EndsRight

LEMMA LastsRetried ==
  ASSUME NEW rs \in [Rounds -> RoundStates], NEW c, Tally(rs, "done", c), c = TRUE,
         NeverCut, NEW i \in Rounds, rs[i] # "none"
  PROVE  Lasts([rs EXCEPT ![i] = "running"])
<1> DEFINE qs == [rs EXCEPT ![i] = "running"]
<1>1. \A j \in Rounds : qs[j] = IF j = i THEN "running" ELSE rs[j]
  OBVIOUS
<1>2. Left(rs) = {} /\ NoMore(rs)
  BY DEF Tally, DoneIsOver, EndsRight, NeverCut
<1>3. Known(qs) = Known(rs)
  BY <1>1 DEF Known
<1> QED
  BY <1>1, <1>2, <1>3 DEF Lasts, Left, NoMore

LEMMA TallySkipped ==
  ASSUME NEW rs \in [Rounds -> RoundStates], NEW s, NEW c, Tally(rs, s, c),
         "skip_missed" \in Commands,
         NEW i \in Rounds, rs[i] = "missed"
  PROVE  Tally([rs EXCEPT ![i] = "skipped"], s, c)
<1> DEFINE qs == [rs EXCEPT ![i] = "skipped"]
<1>1. \A j \in Rounds : qs[j] = IF j = i THEN "skipped" ELSE rs[j]
  OBVIOUS
<1>2. Known(qs) = Known(rs) /\ Left(qs) \subseteq Left(rs) /\ StopsAsked(qs)
  BY <1>1 DEF Known, StopsAsked, Tally, Left, Finished
<1>3. EndsRight(qs, s)
  BY DEF EndsRight, NeverCut, NoMore
<1> QED
  BY <1>2, <1>3 DEF Tally, OneIsLeft, Bounded, DoneIsOver

(* A run-now collection begins with one pass, one with listed times with all of them. *)
LEMMA TallyStart ==
  ASSUME NEW rs, NEW s, NEW c, s # "done",
         Mode = "now" => \A i \in Rounds : rs[i] = IF i = 1 THEN "due" ELSE "none",
         Mode # "now" => \A i \in Rounds : rs[i] # "stopped"
  PROVE  Tally(rs, s, c)
<1>1. 1 \in Rounds
  BY SizeAssumption DEF Rounds
<1>2. CASE Mode = "now"
  <2>1. Known(rs) = {1} /\ Left(rs) = {1}
    BY <1>1, <1>2 DEF Known, Left, Finished
  <2>2. Cardinality({1}) = 1
    BY FS_Singleton
  <2> QED
    BY <1>2, <2>1, <2>2, ChoiceAssumption
       DEF Tally, OneIsLeft, Bounded, StopsAsked, DoneIsOver, EndsRight
<1>3. CASE Mode # "now"
  BY <1>3 DEF Tally, OneIsLeft, Bounded, StopsAsked, DoneIsOver, EndsRight, NoMore
<1> QED
  BY <1>2, <1>3

LEMMA TallyNone ==
  ASSUME NEW rs, NEW c, \A i \in Rounds : rs[i] = "none"
  PROVE  Tally(rs, "idle", c)
<1>1. Known(rs) = {} /\ Left(rs) = {}
  BY DEF Known, Left
<1>2. Cardinality({}) = 0
  BY FS_EmptySet
<1> QED
  BY <1>1, <1>2, ChoiceAssumption DEF Tally, OneIsLeft, Bounded, StopsAsked, DoneIsOver, EndsRight

(* No more passes have begun than there are. *)
LEMMA BegunBounded ==
  ASSUME NEW rs, Bounded(rs), Mode = "now", Repeat > 0, NEW B, B \subseteq Known(rs)
  PROVE  Cardinality(B) <= Repeat
<1>1. IsFiniteSet(Known(rs)) /\ Cardinality(Known(rs)) \in Nat
  BY KnownFinite
<1>2. IsFiniteSet(B) /\ Cardinality(B) \in Nat /\ Cardinality(B) <= Cardinality(Known(rs))
  BY <1>1, FS_Subset, FS_CardinalityType
<1> QED
  BY <1>1, <1>2, ChoiceAssumption DEF Bounded

-----------------------------------------------------------------------------
(* What a handler leaves alone, from one world to the next: a row that was sent and not sent in
   vain keeps its status, its request and its record, and the capture that is out is the same;
   the count of the passes stays right; and where nothing but the running pass is left, no row is
   taken up, or sent, that did not wait before.                                                *)
Lax == {"none", "queued", "not_sent", "sensor_error", "no_file"}
Drawn == {"queued", "submitting"}
Spares(w, v) ==
  /\ w.capture.phase # "idle" => v.capture = w.capture
  /\ \A t \in Keys : w.tasks[t] \notin Lax =>
       v.tasks[t] = w.tasks[t] /\ v.posts[t] = w.posts[t] /\ v.recordOf[t] = w.recordOf[t]
Draws(w, v) ==
  \A t \in Keys : v.tasks[t] \in Drawn \/ v.posts[t] # w.posts[t] => w.tasks[t] \in Drawn
Tallied(w) == Tally(w.rounds, w.state, w.checked)
GoesNoFurther(w, v) == Lasts(w.rounds) => Lasts(v.rounds) /\ Draws(w, v)
Strides(w, v) == Spares(w, v) /\ (Tallied(w) => Tallied(v)) /\ GoesNoFurther(w, v)

LEMMA StridesOn ==
  ASSUME NEW w, NEW v, NEW x, Strides(w, v), Strides(v, x)
  PROVE  Strides(w, x)
<1>1. Spares(w, x)
  BY DEF Strides, Spares
<1>2. Tallied(w) => Tallied(x)
  BY DEF Strides
<1>3. GoesNoFurther(w, x)
  BY DEF Strides, GoesNoFurther, Draws
<1> QED
  BY <1>1, <1>2, <1>3 DEF Strides

(* What the rows are, and what is known of them, is the same. *)
Same(w, v) ==
  v.tasks = w.tasks /\ v.posts = w.posts /\ v.recordOf = w.recordOf /\ v.capture = w.capture

LEMMA SameSpares ==
  ASSUME NEW w, NEW v, Same(w, v)
  PROVE  Spares(w, v) /\ Draws(w, v)
BY DEF Same, Spares, Draws

LEMMA StrideSame ==
  ASSUME NEW w, NEW v, Same(w, v), v.rounds = w.rounds, v.checked = w.checked,
         v.state = w.state \/ (w.state # "idle" /\ v.state \in Going)
  PROVE  Strides(w, v)
<1>1. Shifted(w.rounds, v.rounds)
  BY DEF Shifted
<1>2. w.state = "idle" => v.state = "idle"
  BY DEF Going
<1>3. v.state = "done" => w.state = "done"
  BY DEF Going
<1>4. Tallied(w) => Tallied(v)
  BY <1>1, <1>2, <1>3, TallyShifted DEF Tallied
<1> QED
  BY <1>4, SameSpares DEF Strides, GoesNoFurther

LEMMA StrideShifted ==
  ASSUME NEW w, NEW v, Same(w, v), v.checked = w.checked, v.state = w.state,
         Shifted(w.rounds, v.rounds),
         \A i \in Rounds : w.rounds[i] \in {"none", "running"} => v.rounds[i] = w.rounds[i]
  PROVE  Strides(w, v)
<1>1. Tallied(w) => Tallied(v)
  BY TallyShifted DEF Tallied
<1>2. Known(v.rounds) = Known(w.rounds)
  BY ShiftedSets
<1>3. ASSUME Lasts(w.rounds) PROVE Lasts(v.rounds)
  <2>1. \A i \in Rounds : v.rounds[i] \in Finished \cup {"none", "running"}
    BY <1>3 DEF Lasts, Shifted, Finished, Waiting, Open, Counted
  <2>2. NoMore(v.rounds)
    BY <1>2, <1>3 DEF Lasts, NoMore
  <2> QED
    BY <2>1, <2>2 DEF Lasts
<1> QED
  BY <1>1, <1>3, SameSpares DEF Strides, GoesNoFurther

LEMMA StrideSelf ==
  ASSUME NEW w
  PROVE  Strides(w, w)
BY StrideSame DEF Same

LEMMA SaveSame ==
  ASSUME NEW w \in Worlds
  PROVE  /\ Same(w, Save(w)) /\ Save(w) \in Worlds /\ Save(w).rounds = w.rounds
         /\ Save(w).state = w.state /\ Save(w).checked = w.checked /\ Save(w).current = w.current
         /\ Strides(w, Save(w))
<1>1. Alike(w, Save(w)) /\ Save(w) \in Worlds /\ Save(w).rounds = w.rounds
  BY SaveAlike
<1>2. Save(w).recordOf = w.recordOf
  BY DEF Save, Worlds
<1>3. Same(w, Save(w)) /\ Save(w).state = w.state /\ Save(w).checked = w.checked
  BY <1>1, <1>2 DEF Alike, Same
<1>4. Save(w).current = w.current
  BY <1>1 DEF Alike
<1>5. Strides(w, Save(w))
  BY <1>1, <1>3, StrideSame
<1> QED
  BY <1>1, <1>3, <1>4, <1>5

LEMMA StateStride ==
  ASSUME NEW w \in Worlds, w.state # "idle", NEW s \in Going
  PROVE  LET v == [w EXCEPT !.state = s]
         IN  /\ v \in Worlds /\ Same(w, v) /\ v.rounds = w.rounds /\ v.checked = w.checked
             /\ v.state = s /\ v.current = w.current
             /\ Strides(w, v) /\ Strides(w, Save(v))
<1> DEFINE v == [w EXCEPT !.state = s]
<1>1. /\ v \in Worlds /\ Same(w, v) /\ v.rounds = w.rounds /\ v.checked = w.checked
      /\ v.state = s /\ v.current = w.current
  BY DEF Worlds, Same, Going
<1> HIDE DEF v
<1>2. Strides(w, v)
  BY <1>1, StrideSame
<1>3. Strides(w, Save(v))
  BY <1>1, <1>2, SaveSame, StridesOn
<1> QED
  BY <1>1, <1>2, <1>3 DEF v

LEMMA PausedNowStride ==
  ASSUME NEW w \in Worlds, w.state # "idle"
  PROVE  Strides(w, PausedNow(w)) /\ Strides(w, BeginWait(w))
<1>1. "paused" \in Going /\ "waiting" \in Going
  BY DEF Going, States
<1> QED
  BY <1>1, StateStride DEF PausedNow, BeginWait

LEMMA ClassifyStride ==
  ASSUME NEW w \in Worlds, NEW busy
  PROVE  Strides(w, Classify(w, busy))
<1> DEFINE f == [i \in Rounds |-> Classified(w.rounds[i], clock[i], busy)]
           v == [w EXCEPT !.rounds = f]
<1>1. \A i \in Rounds : f[i] = w.rounds[i] \/ (w.rounds[i] \in Open /\ f[i] \in Open \cup {"missed"})
  BY DEF Classified, Open
<1>2. Classify(w, busy) = v
  BY DEF Classify
<1> HIDE DEF f
<1>3. Same(w, v) /\ v.rounds = f /\ v.checked = w.checked /\ v.state = w.state
  BY DEF Worlds, Same
<1> HIDE DEF v
<1>4. Shifted(w.rounds, v.rounds)
  BY <1>1, <1>3 DEF Shifted, Waiting, Open
<1>5. \A i \in Rounds : w.rounds[i] \in {"none", "running"} => v.rounds[i] = w.rounds[i]
  BY <1>1, <1>3 DEF Open
<1> QED
  BY <1>2, <1>3, <1>4, <1>5, StrideShifted

LEMMA MarkMissedStride ==
  ASSUME NEW w \in Worlds
  PROVE  Strides(w, MarkMissed(w))
<1> DEFINE f == [i \in Rounds |->
                   IF w.rounds[i] \in Open /\ clock[i] # "ahead" THEN "missed" ELSE w.rounds[i]]
           v == [w EXCEPT !.rounds = f]
<1>1. \A i \in Rounds : f[i] = w.rounds[i] \/ (w.rounds[i] \in Open /\ f[i] \in Open \cup {"missed"})
  BY DEF Open
<1>2. MarkMissed(w) = v
  BY DEF MarkMissed
<1> HIDE DEF f
<1>3. Same(w, v) /\ v.rounds = f /\ v.checked = w.checked /\ v.state = w.state
  BY DEF Worlds, Same
<1> HIDE DEF v
<1>4. Shifted(w.rounds, v.rounds)
  BY <1>1, <1>3 DEF Shifted, Waiting, Open
<1>5. \A i \in Rounds : w.rounds[i] \in {"none", "running"} => v.rounds[i] = w.rounds[i]
  BY <1>1, <1>3 DEF Open
<1> QED
  BY <1>2, <1>3, <1>4, <1>5, StrideShifted

LEMMA NextPassRounds ==
  ASSUME NEW w \in Worlds
  PROVE  LET v == NextPassAfter(w)
         IN  /\ v \in Worlds /\ Same(w, v) /\ v.state = w.state /\ v.checked = w.checked
             /\ v.current = w.current /\ v.rounds = Extended(w.rounds)
<1> DEFINE v == [w EXCEPT !.rounds[NextOf(w.rounds)] = "pending"]
           n == NextPassAfter(w)
<1>1. n = IF More(w.rounds) THEN v ELSE w
  BY DEF NextPassAfter, More, NextOf
<1>2. v.rounds = [w.rounds EXCEPT ![NextOf(w.rounds)] = "pending"] /\ Same(w, v)
      /\ v.state = w.state /\ v.checked = w.checked /\ v.current = w.current
  BY DEF Worlds, Same
<1>3. n \in Worlds
  BY NextPassAlike
<1> HIDE DEF v, n
<1>4. n.rounds = Extended(w.rounds)
  BY <1>1, <1>2 DEF Extended
<1>5. Same(w, n) /\ n.state = w.state /\ n.checked = w.checked /\ n.current = w.current
  BY <1>1, <1>2 DEF Same
<1> QED
  BY <1>3, <1>4, <1>5 DEF n

-----------------------------------------------------------------------------
(* From one pass to the next. *)

(* What the lemmas need of a world. *)
Plain(w) ==
  /\ w \in Worlds /\ RunningIsCurrent(w) /\ RowsOfBegun(w)
  /\ w.state = "stop_requested" => "stop" \in Commands

LEMMA LoosePlain ==
  ASSUME NEW w, Ordered(w, {}, FALSE), Loose(w)
  PROVE  Plain(w)
BY DEF Ordered, Passes, Loose, StatesFit, Plain

LEMMA FitPlain ==
  ASSUME NEW w, Fit(w)
  PROVE  Plain(w) /\ Ordered(w, {}, FALSE) /\ Loose(w) /\ w \in Worlds
BY LoosePlain DEF Fit, Neat, Conduct, Plain

LEMMA SavePlain ==
  ASSUME NEW w, Plain(w)
  PROVE  Plain(Save(w))
<1>1. /\ Same(w, Save(w)) /\ Save(w) \in Worlds /\ Save(w).rounds = w.rounds
      /\ Save(w).state = w.state /\ Save(w).current = w.current
  BY SaveSame DEF Plain
<1> HIDE DEF Save
<1> QED
  BY <1>1 DEF Plain, Same, RunningIsCurrent, RowsOfBegun

LEMMA FinishRoundStride ==
  ASSUME NEW w, NEW stopped \in BOOLEAN, Plain(w),
         w.state \in Going \/ (InPass(w) /\ w.state = "interrupted"),
         stopped => "stop" \in Commands
  PROVE  /\ Strides(w, FinishRound(w, stopped)) /\ FinishRound(w, stopped) \in Worlds
         /\ FinishRound(w, stopped).state \in Going
         /\ ~stopped => Plain(FinishRound(w, stopped))
<1> DEFINE end == IF stopped THEN "stopped" ELSE Verdict(w, w.current)
           v == [w EXCEPT !.rounds[w.current] = end, !.current = 0,
                          !.state = "waiting_schedule"]
           x == IF stopped THEN v ELSE NextPassAfter(v)
<1>1. CASE ~InPass(w)
  <2>1. FinishRound(w, stopped) = w
    BY <1>1 DEF FinishRound
  <2> QED
    BY <1>1, <2>1, StrideSelf DEF Plain
<1>2. CASE InPass(w)
  <2>1. /\ w.current \in Rounds /\ w.rounds[w.current] = "running"
        /\ w.rounds \in [Rounds -> RoundStates]
        /\ \A j \in Rounds : w.rounds[j] = "running" => j = w.current
    BY <1>2 DEF Plain, RunningIsCurrent, Worlds, InPass, Rounds
  <2>2. (stopped => end = "stopped") /\ (~stopped => end \in Counted)
    BY VerdictCounted
  <2>3. end \in Finished
    BY <2>2 DEF Counted, Finished
  <2> HIDE DEF end
  <2> DEFINE qs == [w.rounds EXCEPT ![w.current] = end]
  <2>4. qs \in [Rounds -> RoundStates]
    BY <2>1, <2>3 DEF RoundStates, Finished
  <2>5. /\ v \in Worlds /\ v.state = "waiting_schedule" /\ v.rounds = qs /\ Same(w, v)
        /\ v.current = 0
    <3>1. 0 \in 0 .. NRounds /\ "waiting_schedule" \in States
      BY SizeAssumption DEF States
    <3> QED
      BY <2>4, <3>1 DEF Worlds, Same, Plain
  <2>6. FinishRound(w, stopped) = Save(x)
    BY <1>2 DEF FinishRound, end
  <2> HIDE DEF v
  <2>7. /\ x \in Worlds /\ x.state = "waiting_schedule" /\ Same(w, x) /\ x.current = 0
        /\ x.rounds = IF stopped THEN qs ELSE Extended(qs)
    BY <2>5, NextPassRounds DEF Same
  <2>a. \A j \in Rounds :
          x.rounds[j] = qs[j] \/ (v.rounds[j] = "none" /\ x.rounds[j] = "pending")
    <3>1. \/ x.rounds = qs
          \/ \A j \in Rounds :
               x.rounds[j] = v.rounds[j] \/ (v.rounds[j] = "none" /\ x.rounds[j] = "pending")
      BY <2>5, NextPassAlike DEF x
    <3>2. v.rounds = qs
      BY <2>5
    <3> HIDE DEF x, qs
    <3> QED
      BY <3>1, <3>2
  <2> HIDE DEF x
  <2>8. "waiting_schedule" # "idle" /\ "waiting_schedule" \in Going /\ w.state # "idle"
    BY DEF Going, States
  <2>9. Tallied(w) => Tallied(x)
    <3>1. CASE stopped
      BY <2>1, <2>2, <2>7, <3>1, TallyStopped DEF Tallied
    <3>2. CASE ~stopped
      BY <2>1, <2>2, <2>7, <2>8, <3>2, TallyFinished DEF Tallied
    <3> QED
      BY <3>1, <3>2
  <2>10. Lasts(w.rounds) => Lasts(x.rounds)
    BY <2>1, <2>3, <2>7, LastsFinished
  <2>11. Strides(w, x)
    BY <2>7, <2>9, <2>10, SameSpares DEF Strides, GoesNoFurther
  <2>12. Strides(x, Save(x)) /\ Save(x) \in Worlds /\ Save(x).state = x.state
    BY <2>7, SaveSame
  <2>13. ~stopped => Plain(x)
    <3>1. SUFFICES ASSUME ~stopped PROVE RunningIsCurrent(x) /\ RowsOfBegun(x)
      BY <2>7 DEF Plain
    <3>2. \A j \in Rounds : qs[j] = IF j = w.current THEN end ELSE w.rounds[j]
      BY <2>1
    <3>3. end # "running" /\ end \notin Vacant
      BY <2>2, <3>1 DEF Counted, Vacant, Open
    <3>4. RunningIsCurrent(x)
      BY <2>1, <2>7, <2>a, <3>2, <3>3 DEF RunningIsCurrent, Rounds
    <3>5. \A j \in Rounds : x.rounds[j] \in Vacant => w.rounds[j] \in Vacant
      BY <2>5, <2>a, <3>2, <3>3 DEF Vacant
    <3>6. RowsOfBegun(x)
      BY <2>7, <3>5 DEF RowsOfBegun, Same, Plain
    <3> QED
      BY <3>4, <3>6
  <2> QED
    BY <2>6, <2>7, <2>8, <2>11, <2>12, <2>13, SavePlain, StridesOn
<1> QED
  BY <1>1, <1>2

LEMMA FinishSessionStride ==
  ASSUME NEW w \in Worlds, w.state # "idle", Left(w.rounds) = {} \/ "stop" \in Commands
  PROVE  Strides(w, FinishSession(w))
<1> DEFINE u == [w EXCEPT !.state = "done", !.timer = FALSE]
           v == [Save(u) EXCEPT !.owned = FALSE]
<1>1. u \in Worlds /\ u.state = "done" /\ Same(w, u) /\ u.rounds = w.rounds /\ u.checked = w.checked
  BY DEF Worlds, States, Same
<1> HIDE DEF u
<1>2. /\ Same(u, Save(u)) /\ Save(u) \in Worlds /\ Save(u).rounds = u.rounds
      /\ Save(u).state = u.state /\ Save(u).checked = u.checked
  BY <1>1, SaveSame
<1>3. /\ v.state = "done" /\ v.rounds = w.rounds /\ v.tasks = w.tasks /\ v.posts = w.posts
      /\ v.recordOf = w.recordOf /\ v.capture = w.capture
  BY <1>1, <1>2 DEF Worlds, Same
<1>4. FinishSession(w) = v
  BY DEF FinishSession, u
<1> HIDE DEF v
<1>5. Tallied(w) => Tallied(v)
  BY <1>3, TallyDone DEF Tallied
<1>6. Same(w, v)
  BY <1>3 DEF Same
<1> QED
  BY <1>3, <1>4, <1>5, <1>6, SameSpares DEF Strides, GoesNoFurther

LEMMA StoppedStride ==
  ASSUME NEW w, Plain(w), w.state \in Going, "stop" \in Commands
  PROVE  Strides(w, Stopped(w))
<1>1. /\ Strides(w, FinishRound(w, TRUE)) /\ FinishRound(w, TRUE) \in Worlds
      /\ FinishRound(w, TRUE).state \in Going
  BY FinishRoundStride
<1>2. FinishRound(w, TRUE).state # "idle"
  BY <1>1 DEF Going
<1>3. Strides(FinishRound(w, TRUE), FinishSession(FinishRound(w, TRUE)))
  BY <1>1, <1>2, FinishSessionStride
<1> QED
  BY <1>1, <1>3, StridesOn DEF Stopped

-----------------------------------------------------------------------------
(* From one request to the next. *)

LEMMA StartNextTaskStride ==
  ASSUME NEW w, NEW gate, Plain(w), w.state \in Going
  PROVE  Strides(w, StartNextTask(w, gate))
<1> DEFINE n == StartNextTask(w, gate)
           p == [w EXCEPT !.preflightPending = TRUE]
           h == Save([w EXCEPT !.state = "paused_backlog"])
           s == [w EXCEPT !.settlePending = TRUE]
           c == [w EXCEPT !.idleCheck = NextQueued(w)]
<1>1. w \in Worlds /\ w.state # "idle"
  BY DEF Plain, Going
<1>2. "paused_backlog" \in Going
  BY DEF Going, States
<1>3. Strides(w, h)
  BY <1>1, <1>2, StateStride
<1>4. Strides(w, p)
  <2>1. Same(w, p) /\ p.rounds = w.rounds /\ p.checked = w.checked /\ p.state = w.state
    BY <1>1 DEF Worlds, Same
  <2> HIDE DEF p
  <2> QED
    BY <2>1, StrideSame
<1>5. Strides(w, s)
  <2>1. Same(w, s) /\ s.rounds = w.rounds /\ s.checked = w.checked /\ s.state = w.state
    BY <1>1 DEF Worlds, Same
  <2> HIDE DEF s
  <2> QED
    BY <2>1, StrideSame
<1>6. Strides(w, c)
  <2>1. Same(w, c) /\ c.rounds = w.rounds /\ c.checked = w.checked /\ c.state = w.state
    BY <1>1 DEF Worlds, Same
  <2> HIDE DEF c
  <2> QED
    BY <2>1, StrideSame
<1>7. \/ n = w \/ n = p \/ n = h \/ n = s \/ n = c \/ n = PausedNow(w) \/ n = FinishRound(w, FALSE)
      \/ (w.state = "stop_requested" /\ n = Stopped(w))
  <2> HIDE DEF p, h, s, c
  <2>1. CASE w.inFlight
    BY <2>1 DEF StartNextTask
  <2>2. CASE ~w.inFlight
    <3>1. CASE w.state = "stop_requested"
      BY <2>2, <3>1 DEF StartNextTask
    <3>2. CASE w.state = "pause_requested"
      BY <2>2, <3>2 DEF StartNextTask
    <3>3. CASE w.state \notin {"stop_requested", "pause_requested"}
      BY <2>2, <3>3, Zenon DEF StartNextTask, p, h, s, c
    <3> QED
      BY <3>1, <3>2, <3>3
  <2> QED
    BY <2>1, <2>2
<1>8. Strides(w, FinishRound(w, FALSE))
  BY FinishRoundStride
<1>9. w.state = "stop_requested" => Strides(w, Stopped(w))
  BY StoppedStride DEF Plain
<1> HIDE DEF p, h, s, c, n
<1>10. Strides(w, n)
  BY <1>1, <1>3, <1>4, <1>5, <1>6, <1>7, <1>8, <1>9, StrideSelf, PausedNowStride
<1> QED
  BY <1>10 DEF n

LEMMA PlainState ==
  ASSUME NEW w, Plain(w), w.state # "idle", NEW s \in Going, s # "stop_requested"
  PROVE  Plain([w EXCEPT !.state = s])
<1> DEFINE v == [w EXCEPT !.state = s]
<1>1. /\ v \in Worlds /\ v.state = s /\ v.rounds = w.rounds /\ v.current = w.current
      /\ v.tasks = w.tasks
  BY DEF Worlds, Plain, Going
<1> HIDE DEF v
<1>2. RunningIsCurrent(v) /\ RowsOfBegun(v)
  BY <1>1 DEF Plain, RunningIsCurrent, RowsOfBegun, Going
<1> QED
  BY <1>1, <1>2 DEF Plain, v

LEMMA AfterTaskStride ==
  ASSUME NEW w, NEW gate, Plain(w), w.state \in Going
  PROVE  Strides(w, AfterTask(w, gate))
<1> DEFINE n == AfterTask(w, gate)
           v == [w EXCEPT !.state = "running"]
<1>1. w \in Worlds /\ w.state # "idle" /\ "running" \in Going
  BY DEF Plain, Going, States
<1>2. \/ (w.state = "stop_requested" /\ n = Stopped(w)) \/ n = PausedNow(w)
      \/ n = FinishRound(w, FALSE) \/ n = BeginWait(w) \/ n = StartNextTask(v, gate)
  <2> HIDE DEF v
  <2>1. CASE w.state = "stop_requested"
    BY <2>1 DEF AfterTask
  <2>2. CASE w.state = "pause_requested"
    BY <2>2 DEF AfterTask
  <2>3. CASE w.state \notin {"stop_requested", "pause_requested"}
    BY <2>3, Zenon DEF AfterTask, v
  <2> QED
    BY <2>1, <2>2, <2>3
<1>3. Strides(w, v) /\ v.state = "running"
  BY <1>1, StateStride
<1>4. Plain(v)
  BY <1>1, PlainState
<1> HIDE DEF n, v
<1>5. Strides(w, StartNextTask(v, gate))
  BY <1>1, <1>3, <1>4, StartNextTaskStride, StridesOn
<1>6. Strides(w, FinishRound(w, FALSE))
  BY FinishRoundStride
<1>7. w.state = "stop_requested" => Strides(w, Stopped(w))
  BY StoppedStride DEF Plain
<1>8. Strides(w, n)
  BY <1>1, <1>2, <1>5, <1>6, <1>7, PausedNowStride
<1> QED
  BY <1>8 DEF n

(* One row of the running pass gets another status, its request a number. *)
LEMMA RowStride ==
  ASSUME NEW w, Plain(w), NEW t \in Keys, w.tasks[t] = "queued",
         NEW s \in {"submitting", "not_sent"}, NEW v \in Worlds,
         v.tasks = [w.tasks EXCEPT ![t] = s], v.recordOf = w.recordOf, v.rounds = w.rounds,
         v.state = w.state, v.checked = w.checked, v.current = w.current,
         \A u \in Keys \ {t} : v.posts[u] = w.posts[u],
         w.capture.phase # "idle" => v.capture = w.capture
  PROVE  Strides(w, v) /\ Plain(v)
<1>1. w.tasks \in [Keys -> Statuses]
  BY DEF Plain, Worlds
<1>2. \A u \in Keys : v.tasks[u] = IF u = t THEN s ELSE w.tasks[u]
  BY <1>1
<1>3. Spares(w, v)
  <2>1. "queued" \in Lax
    BY DEF Lax
  <2> QED
    BY <1>2, <2>1 DEF Spares
<1>4. Draws(w, v)
  <2>1. "queued" \in Drawn
    BY DEF Drawn
  <2> QED
    BY <1>2, <2>1 DEF Draws
<1>5. Tallied(w) => Tallied(v)
  BY DEF Tallied
<1>6. RunningIsCurrent(v)
  BY DEF Plain, RunningIsCurrent
<1>7. RowsOfBegun(v)
  <2>1. w.rounds[t[1]] \notin Vacant /\ w.state # "idle"
    <3>1. t[1] \in Rounds /\ t[2] \in Rows /\ t = <<t[1], t[2]>>
      BY DEF Keys
    <3> QED
      BY <3>1 DEF Plain, RowsOfBegun
  <2>2. ASSUME NEW i \in Rounds, w.rounds[i] \in Vacant, NEW k \in Rows
        PROVE  v.tasks[<<i, k>>] = "none"
    <3>1. <<i, k>> \in Keys /\ <<i, k>>[1] = i
      BY DEF Keys
    <3>2. <<i, k>> # t
      BY <2>1, <2>2, <3>1
    <3> QED
      BY <1>2, <2>2, <3>1, <3>2 DEF Plain, RowsOfBegun
  <2> QED
    BY <2>1, <2>2 DEF RowsOfBegun
<1> QED
  BY <1>3, <1>4, <1>5, <1>6, <1>7 DEF Strides, GoesNoFurther, Plain

LEMMA SubmitStride ==
  ASSUME NEW w, NEW t \in Keys, NEW answer \in AllAnswers, NEW gate, Plain(w),
         w.state \in Going, w.tasks[t] = "queued", ~w.inFlight => w.capture.phase = "idle"
  PROVE  Strides(w, Submit(w, t, answer, gate))
<1> DEFINE n == Submit(w, t, answer, gate)
           h == Save([w EXCEPT !.state = "paused_backlog"])
           x == [w EXCEPT !.tasks[t] = "not_sent", !.attempts[t] = @ + 1]
           y == [w EXCEPT !.capture = [key |-> t, phase |-> "sent", outcome |-> "open"],
                          !.posts[t] = @ + 1,
                          !.inFlight = TRUE,
                          !.storageSettled = FALSE,
                          !.tasks[t] = "submitting",
                          !.attempts[t] = @ + 1]
<1>1. w \in Worlds /\ w.state # "idle" /\ "paused_backlog" \in Going
  BY DEF Plain, Going, States
<1>2. w.tasks \in [Keys -> Statuses] /\ w.attempts \in [Keys -> Nat] /\ w.posts \in [Keys -> Nat]
  BY <1>1 DEF Worlds
<1>a. /\ [w.attempts EXCEPT ![t] = @ + 1] \in [Keys -> Nat]
      /\ [w.posts EXCEPT ![t] = @ + 1] \in [Keys -> Nat]
      /\ [w.tasks EXCEPT ![t] = "not_sent"] \in [Keys -> Statuses]
      /\ [w.tasks EXCEPT ![t] = "submitting"] \in [Keys -> Statuses]
  BY <1>2 DEF Statuses
<1>b. [key |-> t, phase |-> "sent", outcome |-> "open"] \in CaptureType
  BY DEF CaptureType
<1>3. \/ n = w \/ n = h \/ n = PausedNow(w) \/ n = AfterTask(Save(x), gate)
      \/ (~w.inFlight /\ n = Save(y))
  <2> HIDE DEF h, x, y
  <2>1. CASE w.inFlight \/ HostBusy(w)
    BY <2>1 DEF Submit
  <2>2. CASE ~(w.inFlight \/ HostBusy(w))
    <3>1. CASE answer = "storage"
      BY <2>2, <3>1 DEF Submit, h
    <3>2. CASE answer = "invalid"
      BY <2>2, <3>2, Zenon DEF Submit, x
    <3>3. CASE answer = "other"
      BY <2>2, <3>3 DEF Submit
    <3>4. CASE answer = "started"
      BY <2>2, <3>4, Zenon DEF Submit, y
    <3> QED
      BY <3>1, <3>2, <3>3, <3>4 DEF AllAnswers
  <2> QED
    BY <2>1, <2>2
<1>4. /\ x \in Worlds /\ x.tasks = [w.tasks EXCEPT ![t] = "not_sent"] /\ x.recordOf = w.recordOf
      /\ x.rounds = w.rounds /\ x.state = w.state /\ x.checked = w.checked /\ x.current = w.current
      /\ x.posts = w.posts /\ x.capture = w.capture
  BY <1>1, <1>a DEF Worlds
<1>5. /\ y \in Worlds /\ y.tasks = [w.tasks EXCEPT ![t] = "submitting"] /\ y.recordOf = w.recordOf
      /\ y.rounds = w.rounds /\ y.state = w.state /\ y.checked = w.checked /\ y.current = w.current
      /\ y.posts = [w.posts EXCEPT ![t] = @ + 1]
  BY <1>1, <1>a, <1>b DEF Worlds
<1> HIDE DEF x, y, n
<1>6. Strides(w, x) /\ Plain(x)
  BY <1>4, RowStride
<1>7. ~w.inFlight => Strides(w, y)
  BY <1>2, <1>5, RowStride
<1>8. Strides(w, Save(x)) /\ Plain(Save(x)) /\ Save(x).state \in Going
  BY <1>4, <1>6, SaveSame, SavePlain, StridesOn
<1>9. Strides(w, AfterTask(Save(x), gate))
  BY <1>8, AfterTaskStride, StridesOn
<1>10. ~w.inFlight => Strides(w, Save(y))
  BY <1>5, <1>7, SaveSame, StridesOn
<1>11. Strides(w, h)
  BY <1>1, StateStride
<1> HIDE DEF h
<1>12. Strides(w, n)
  BY <1>1, <1>3, <1>9, <1>10, <1>11, StrideSelf, PausedNowStride
<1> QED
  BY <1>12 DEF n

LEMMA StartRoundStride ==
  ASSUME NEW w, NEW i \in Rounds, NEW gate, Plain(w), w.state \in Going, ~InPass(w),
         w.rounds[i] \in {"due", "delayed"}
  PROVE  Strides(w, StartRound(w, i, gate))
<1> DEFINE f == [t \in Keys |-> IF t[1] = i THEN "queued" ELSE w.tasks[t]]
           p == [t \in Keys |-> IF t[1] = i THEN w.permits[t] + 1 ELSE w.permits[t]]
           v == [w EXCEPT !.rounds[i] = "running",
                          !.current = i,
                          !.tasks = f,
                          !.permits = p,
                          !.state = "running",
                          !.preflightDue = TRUE,
                          !.checked = FALSE]
<1>1. w \in Worlds
  BY DEF Plain
<1>2. f \in [Keys -> Statuses] /\ p \in [Keys -> Nat]
  BY <1>1 DEF Worlds, Statuses
<1>3. \A t \in Keys : f[t] = IF t[1] = i THEN "queued" ELSE w.tasks[t]
  OBVIOUS
<1>4. [w.rounds EXCEPT ![i] = "running"] \in [Rounds -> RoundStates]
      /\ \A j \in Rounds : [w.rounds EXCEPT ![i] = "running"][j] = IF j = i THEN "running" ELSE w.rounds[j]
  BY <1>1 DEF Worlds, RoundStates
<1>5. StartRound(w, i, gate) = StartNextTask(Save(v), gate)
  BY DEF StartRound
<1> HIDE DEF f, p
<1>a. i \in 0 .. NRounds /\ "running" \in States
  BY SizeAssumption DEF Rounds, States
<1>6. /\ v \in Worlds /\ v.tasks = f /\ v.rounds = [w.rounds EXCEPT ![i] = "running"]
      /\ v.current = i /\ v.state = "running" /\ v.posts = w.posts /\ v.recordOf = w.recordOf
      /\ v.capture = w.capture
  BY <1>1, <1>2, <1>4, <1>a DEF Worlds
<1>7. ~(v.checked = TRUE)
  BY <1>1 DEF Worlds
<1> HIDE DEF v
<1>8. Spares(w, v)
  <2>1. ASSUME NEW t \in Keys, w.tasks[t] \notin Lax PROVE v.tasks[t] = w.tasks[t]
    <3>1. t[1] \in Rounds /\ t[2] \in Rows /\ t = <<t[1], t[2]>>
      BY DEF Keys
    <3>2. w.rounds[t[1]] \notin Vacant
      BY <2>1, <3>1 DEF Lax, Plain, RowsOfBegun
    <3>3. t[1] # i
      BY <3>2 DEF Vacant, Open
    <3> QED
      BY <1>3, <1>6, <3>3
  <2> QED
    BY <1>6, <2>1 DEF Spares
<1>9. Tallied(w) => Tallied(v)
  <2>1. Shifted(w.rounds, v.rounds)
    BY <1>4, <1>6 DEF Shifted, Waiting, Open
  <2>2. w.state # "idle" /\ v.state # "done"
    BY <1>6 DEF Going
  <2> QED
    BY <2>1, <2>2, TallyShifted DEF Tallied
<1>10. ~Lasts(w.rounds)
  BY DEF Lasts, Finished
<1>11. Strides(w, v)
  BY <1>8, <1>9, <1>10 DEF Strides, GoesNoFurther
<1>12. Plain(v)
  <2>1. RunningIsCurrent(v)
    <3>1. \A j \in Rounds : w.rounds[j] # "running"
      BY <1>1 DEF RunningIsCurrent, Plain, InPass, Rounds, Worlds
    <3> QED
      BY <1>4, <1>6, <3>1 DEF RunningIsCurrent
  <2>2. RowsOfBegun(v)
    <3>1. ASSUME NEW j \in Rounds, v.rounds[j] \in Vacant, NEW k \in Rows
          PROVE  v.tasks[<<j, k>>] = "none"
      <4>1. j # i /\ w.rounds[j] \in Vacant
        BY <1>4, <1>6, <3>1 DEF Vacant, Open
      <4>2. <<j, k>> \in Keys /\ <<j, k>>[1] = j
        BY DEF Keys
      <4> QED
        BY <1>3, <1>6, <4>1, <4>2 DEF Plain, RowsOfBegun
    <3> QED
      BY <1>6, <3>1 DEF RowsOfBegun
  <2> QED
    BY <1>6, <2>1, <2>2 DEF Plain
<1>13. Strides(w, Save(v)) /\ Plain(Save(v)) /\ Save(v).state \in Going
  <2>1. Strides(v, Save(v)) /\ Save(v).state = "running"
    BY <1>6, SaveSame
  <2> QED
    BY <1>11, <1>12, <2>1, SavePlain, StridesOn DEF Going, States
<1> QED
  BY <1>5, <1>13, StartNextTaskStride, StridesOn

LEMMA ClassifyPlain ==
  ASSUME NEW w, Plain(w), NEW busy
  PROVE  LET c == Classify(w, busy)
         IN  /\ Plain(c) /\ c.state = w.state /\ c.current = w.current /\ c.inFlight = w.inFlight
             /\ \A i \in Rounds : c.rounds[i] = Classified(w.rounds[i], clock[i], busy)
<1> DEFINE f == [i \in Rounds |-> Classified(w.rounds[i], clock[i], busy)]
           v == [w EXCEPT !.rounds = f]
<1>1. \A i \in Rounds : f[i] = w.rounds[i] \/ (w.rounds[i] \in Open /\ f[i] \in Open \cup {"missed"})
  BY DEF Classified, Open
<1>2. Classify(w, busy) = v
  BY DEF Classify
<1>3. \A i \in Rounds : f[i] = Classified(w.rounds[i], clock[i], busy)
  OBVIOUS
<1>4. f \in [Rounds -> RoundStates]
  <2>1. w.rounds \in [Rounds -> RoundStates]
    BY DEF Plain, Worlds
  <2> QED
    BY <1>1, <2>1 DEF Open, RoundStates
<1> HIDE DEF f
<1>5. /\ v \in Worlds /\ v.rounds = f /\ v.state = w.state /\ v.current = w.current
      /\ v.tasks = w.tasks /\ v.inFlight = w.inFlight
  BY <1>4 DEF Worlds, Plain
<1> HIDE DEF v
<1>6. RunningIsCurrent(v)
  BY <1>1, <1>5 DEF Plain, RunningIsCurrent, Open
<1>7. RowsOfBegun(v)
  BY <1>1, <1>5 DEF Plain, RowsOfBegun, Vacant
<1>8. Plain(v)
  BY <1>5, <1>6, <1>7 DEF Plain
<1> QED
  BY <1>2, <1>3, <1>5, <1>8

LEMMA TickBetweenPassesStride ==
  ASSUME NEW w, NEW gate, Plain(w), w.state \in Going, ~InPass(w)
  PROVE  Strides(w, TickBetweenPasses(w, gate))
<1> DEFINE c == Classify(w, FALSE)
           n == TickBetweenPasses(w, gate)
<1>1. /\ Plain(c) /\ c.state = w.state /\ c.current = w.current
      /\ \A i \in Rounds : c.rounds[i] = Classified(w.rounds[i], clock[i], FALSE)
  BY ClassifyPlain
<1>2. Strides(w, c)
  BY ClassifyStride DEF Plain
<1>3. n = CASE Due(c) # {} -> StartRound(c, NextDue(c), gate)
            [] Due(c) = {} /\ ~SomePending(c) /\ ~SomeMissed(c) -> FinishSession(c)
            [] OTHER -> [c EXCEPT !.state = "waiting_schedule"]
  BY DEF TickBetweenPasses
<1> HIDE DEF c, n
<1>4. c \in Worlds /\ c.state # "idle" /\ ~InPass(c) /\ "waiting_schedule" \in Going
  BY <1>1 DEF Plain, Going, States, InPass
<1>5. CASE Due(c) # {}
  <2>1. Due(c) \in SUBSET Nat
    BY DEF Due, Rounds
  <2>2. \E i \in Due(c) : \A j \in Due(c) : i <= j
    BY <1>5, <2>1, LeastExists
  <2>3. NextDue(c) \in Due(c)
    BY <2>2 DEF NextDue
  <2>4. NextDue(c) \in Rounds /\ c.rounds[NextDue(c)] \in {"due", "delayed"}
    BY <2>3 DEF Due
  <2>5. n = StartRound(c, NextDue(c), gate)
    BY <1>3, <1>5
  <2> HIDE DEF NextDue
  <2>6. Strides(c, n)
    BY <1>1, <1>4, <2>4, <2>5, StartRoundStride
  <2> QED
    BY <1>2, <2>6, StridesOn DEF n
<1>6. CASE Due(c) = {} /\ ~SomePending(c) /\ ~SomeMissed(c)
  <2>1. Left(c.rounds) = {}
    <3>1. SUFFICES ASSUME NEW i \in Left(c.rounds) PROVE FALSE
      OBVIOUS
    <3>2. i \in Rounds /\ c.rounds[i] \notin Finished \cup {"none"}
      BY <3>1 DEF Left
    <3>3. c.rounds[i] \in RoundStates
      BY <1>4, <3>2 DEF Worlds
    <3>4. c.rounds[i] # "running"
      BY <1>1, <1>4, <3>2 DEF Plain, RunningIsCurrent, InPass, Rounds
    <3>5. c.rounds[i] \notin {"due", "delayed", "missed"}
      BY <1>6, <3>2 DEF Due, SomeMissed
    <3>6. c.rounds[i] = "pending"
      BY <3>2, <3>3, <3>4, <3>5 DEF RoundStates, Finished
    <3>7. clock[i] = "ahead"
      BY <1>1, <3>2, <3>6 DEF Classified, Open
    <3> QED
      BY <1>6, <3>2, <3>6, <3>7 DEF SomePending
  <2>2. n = FinishSession(c)
    BY <1>3, <1>6
  <2>3. Strides(c, n)
    BY <1>4, <2>1, <2>2, FinishSessionStride
  <2> QED
    BY <1>2, <2>3, StridesOn DEF n
<1>7. CASE Due(c) = {} /\ ~(~SomePending(c) /\ ~SomeMissed(c))
  <2>1. n = [c EXCEPT !.state = "waiting_schedule"]
    BY <1>3, <1>7, Zenon
  <2>2. Strides(c, n)
    BY <1>4, <2>1, StateStride
  <2> QED
    BY <1>2, <2>2, StridesOn DEF n
<1> QED
  BY <1>5, <1>6, <1>7

LEMMA TickInPassStride ==
  ASSUME NEW w, NEW gate, NEW elapsed, Plain(w), w.state \in Going
  PROVE  Strides(w, TickInPass(w, gate, elapsed))
<1> DEFINE c == Classify(w, TRUE)
           n == TickInPass(w, gate, elapsed)
           v == [c EXCEPT !.state = "running"]
<1>1. Plain(c) /\ c.state = w.state
  BY ClassifyPlain
<1>2. Strides(w, c)
  BY ClassifyStride DEF Plain
<1>3. n = c \/ n = StartNextTask(v, gate) \/ n = StartNextTask(c, gate)
  <2> HIDE DEF v, c
  <2>1. n = CASE c.inFlight -> c
              [] ~c.inFlight /\ c.state = "waiting" -> IF elapsed THEN StartNextTask(v, gate) ELSE c
              [] ~c.inFlight /\ c.state \in {"running", "pause_requested", "stop_requested"} ->
                   StartNextTask(c, gate)
              [] OTHER -> c
    BY Zenon DEF TickInPass, c, v
  <2> HIDE DEF n
  <2>2. CASE c.inFlight
    BY <2>1, <2>2
  <2>3. CASE ~c.inFlight /\ c.state = "waiting"
    BY <2>1, <2>3, Zenon
  <2>4. CASE ~c.inFlight /\ c.state \in {"running", "pause_requested", "stop_requested"}
    BY <2>1, <2>4
  <2>5. CASE ~c.inFlight /\ c.state \notin {"waiting", "running", "pause_requested", "stop_requested"}
    BY <2>1, <2>5
  <2> QED
    BY <2>2, <2>3, <2>4, <2>5
<1> HIDE DEF c, n
<1>4. c \in Worlds /\ c.state # "idle" /\ "running" \in Going
  BY <1>1 DEF Plain, Going, States
<1>5. Strides(c, v) /\ v.state = "running"
  BY <1>4, StateStride
<1>6. Plain(v)
  BY <1>1, <1>4, PlainState
<1> HIDE DEF v
<1>7. Strides(c, StartNextTask(v, gate)) /\ Strides(c, StartNextTask(c, gate))
  BY <1>1, <1>4, <1>5, <1>6, StartNextTaskStride, StridesOn
<1>8. Strides(w, n)
  BY <1>2, <1>3, <1>7, StridesOn
<1> QED
  BY <1>8 DEF n

LEMMA TickStride ==
  ASSUME NEW w, NEW gate, NEW elapsed, Plain(w)
  PROVE  Strides(w, Tick(w, gate, elapsed))
<1> DEFINE caughtUp == [w EXCEPT !.state = IF InPass(w) THEN "running" ELSE "waiting_schedule"]
           v == IF w.state = "paused_backlog" THEN caughtUp ELSE w
           n == Tick(w, gate, elapsed)
<1>1. \/ n = w
      \/ /\ w.state \in Going
         /\ n = IF InPass(v) THEN TickInPass(v, gate, elapsed) ELSE TickBetweenPasses(v, gate)
  <2> HIDE DEF v
  <2>1. n = CASE w.state \in {"idle", "done", "interrupted", "paused", "closed"} -> w
              [] w.state = "paused_backlog" /\ Backlog(gate, FALSE) -> w
              [] OTHER -> IF InPass(v) THEN TickInPass(v, gate, elapsed) ELSE TickBetweenPasses(v, gate)
    BY Zenon DEF Tick, v
  <2> HIDE DEF n
  <2>2. w.state \in States
    BY DEF Plain, Worlds
  <2>3. CASE w.state \in {"idle", "done", "interrupted", "paused", "closed"}
    BY <2>1, <2>3
  <2>4. CASE w.state = "paused_backlog" /\ Backlog(gate, FALSE)
    BY <2>1, <2>4
  <2>5. CASE w.state \notin {"idle", "done", "interrupted", "paused", "closed"}
             /\ ~(w.state = "paused_backlog" /\ Backlog(gate, FALSE))
    <3>1. w.state \in Going
      BY <2>2, <2>5 DEF Going
    <3>2. n = IF InPass(v) THEN TickInPass(v, gate, elapsed) ELSE TickBetweenPasses(v, gate)
      BY <2>1, <2>5, Zenon
    <3> QED
      BY <3>1, <3>2
  <2> QED
    BY <2>3, <2>4, <2>5
<1>2. CASE w.state \in Going
  <2>1. Strides(w, v) /\ Plain(v) /\ v.state \in Going
    <3>1. CASE w.state = "paused_backlog"
      <4> DEFINE s == IF InPass(w) THEN "running" ELSE "waiting_schedule"
      <4>1. s \in Going /\ s # "stop_requested" /\ w.state # "idle"
        BY <3>1 DEF Going, States
      <4>2. v = [w EXCEPT !.state = s]
        BY <3>1
      <4> HIDE DEF s, v
      <4> QED
        BY <4>1, <4>2, StateStride, PlainState DEF Plain
    <3>2. CASE w.state # "paused_backlog"
      BY <1>2, <3>2, StrideSelf
    <3> QED
      BY <3>1, <3>2
  <2> HIDE DEF v, n
  <2>2. Strides(v, n) \/ n = w
    <3>1. CASE InPass(v)
      BY <1>1, <2>1, <3>1, TickInPassStride
    <3>2. CASE ~InPass(v)
      BY <1>1, <2>1, <3>2, TickBetweenPassesStride
    <3> QED
      BY <3>1, <3>2
  <2>3. Strides(w, n)
    BY <2>1, <2>2, StridesOn, StrideSelf
  <2> QED
    BY <2>3 DEF n
<1>3. CASE w.state \notin Going
  BY <1>1, <1>3, StrideSelf
<1> QED
  BY <1>2, <1>3

-----------------------------------------------------------------------------
(* The answers of the workers, one by one. *)

(* What a handler notes about its own business. *)
LEMMA AsideStride ==
  ASSUME NEW w, Plain(w), NEW v \in Worlds, Same(w, v), v.rounds = w.rounds,
         v.current = w.current,
         \/ v.state = w.state
         \/ (w.state # "idle" /\ v.state \in Going /\ v.state # "stop_requested"),
         v.checked = w.checked \/ v.state \in Going
  PROVE  Strides(w, v) /\ Plain(v)
<1>1. Shifted(w.rounds, v.rounds)
  BY DEF Shifted
<1>2. w.state = "idle" => v.state = "idle"
  BY DEF Going
<1>3. v.state = "done" /\ v.checked = TRUE => w.state = "done" /\ w.checked = TRUE
  BY DEF Going
<1>4. ASSUME Tallied(w) PROVE Tallied(v)
  <2>1. Tally(w.rounds, w.state, w.checked)
    BY <1>4 DEF Tallied
  <2> DEFINE rs == w.rounds
             s == w.state
             c == w.checked
             qs == v.rounds
             s2 == v.state
             c2 == v.checked
  <2>2. /\ Shifted(rs, qs) /\ Tally(rs, s, c) /\ (s = "idle" => s2 = "idle")
        /\ s2 = "done" /\ c2 = TRUE /\ "stop" \notin Commands => s = "done" /\ c = TRUE
    BY <1>1, <1>2, <1>3, <2>1, Zenon
  <2> HIDE DEF rs, s, c, qs, s2, c2
  <2>3. Tally(qs, s2, c2)
    BY <2>2, TallyShifted, Zenon
  <2> QED
    BY <2>3, Zenon DEF Tallied, qs, s2, c2
<1>5. Strides(w, v)
  BY <1>4, SameSpares DEF Strides, GoesNoFurther
<1>6. RunningIsCurrent(v) /\ RowsOfBegun(v)
  BY DEF Plain, Same, RunningIsCurrent, RowsOfBegun, Going
<1> QED
  BY <1>5, <1>6 DEF Plain

LEMMA OnPreflightStride ==
  ASSUME NEW w, NEW blocking, NEW gate, Fit(w), w.preflightPending
  PROVE  Strides(w, OnPreflight(w, blocking, gate))
<1> DEFINE n == OnPreflight(w, blocking, gate)
           a == [w EXCEPT !.preflightPending = FALSE]
           b == [a EXCEPT !.preflightDue = TRUE]
           p == [a EXCEPT !.preflightDue = FALSE, !.checked = TRUE]
<1>1. Plain(w) /\ w \in Worlds /\ w.state \in Going
  BY FitPlain DEF Loose, CheckIsDue
<1>2. n = PausedNow(b) \/ n = StartNextTask(Save(p), gate) \/ n = Save(p)
  BY DEF OnPreflight
<1> HIDE DEF n
<1>3. ASSUME NEW x \in {b, p}
      PROVE  x \in Worlds /\ Same(w, x) /\ x.rounds = w.rounds /\ x.current = w.current
             /\ x.state = w.state
  <2>1. CASE x = b
    BY <1>1, <2>1 DEF Worlds, Same
  <2>2. CASE x = p
    BY <1>1, <2>2 DEF Worlds, Same
  <2> QED
    BY <1>3, <2>1, <2>2
<1> HIDE DEF b, p
<1>4. ASSUME NEW x \in {b, p} PROVE Strides(w, x) /\ Plain(x) /\ x.state \in Going
  BY <1>1, <1>3, AsideStride
<1>5. Strides(w, PausedNow(b))
  <2>1. b \in Worlds /\ b.state # "idle" /\ Strides(w, b)
    BY <1>3, <1>4 DEF Going
  <2> QED
    BY <2>1, PausedNowStride, StridesOn
<1>6. Strides(w, Save(p)) /\ Plain(Save(p)) /\ Save(p).state \in Going
  <2>1. p \in Worlds /\ p.state \in Going /\ Plain(p) /\ Strides(w, p)
    BY <1>3, <1>4
  <2> QED
    BY <2>1, SaveSame, SavePlain, StridesOn
<1>7. Strides(w, StartNextTask(Save(p), gate))
  BY <1>6, StartNextTaskStride, StridesOn
<1>8. Strides(w, n)
  BY <1>2, <1>5, <1>6, <1>7
<1> QED
  BY <1>8 DEF n

LEMMA OnStorageSettledStride ==
  ASSUME NEW w, NEW gate, Fit(w)
  PROVE  LET n == OnStorageSettled(w, gate)
         IN  Strides(w, n) /\ (w.state \notin Going => Same(w, n))
<1> DEFINE n == OnStorageSettled(w, gate)
           v == [w EXCEPT !.settlePending = FALSE, !.storageSettled = TRUE]
<1>1. Plain(w) /\ w \in Worlds
  BY FitPlain
<1>2. n = IF MayGoOn(v) THEN StartNextTask(v, gate) ELSE v
  BY DEF OnStorageSettled
<1>3. /\ v \in Worlds /\ Same(w, v) /\ v.rounds = w.rounds /\ v.current = w.current
      /\ v.state = w.state /\ v.checked = w.checked
  BY <1>1 DEF Worlds, Same
<1> HIDE DEF v, n
<1>4. Strides(w, v) /\ Plain(v)
  BY <1>1, <1>3, AsideStride
<1>5. MayGoOn(v) => v.state \in Going
  BY DEF MayGoOn, Going, States
<1>6. MayGoOn(v) => Strides(w, StartNextTask(v, gate)) /\ w.state \in Going
  BY <1>3, <1>4, <1>5, StartNextTaskStride, StridesOn
<1>7. Strides(w, n) /\ (w.state \notin Going => Same(w, n))
  BY <1>2, <1>3, <1>4, <1>6
<1> QED
  BY <1>7 DEF n

LEMMA OnIdleResultStride ==
  ASSUME NEW w, NEW idle, NEW answer \in AllAnswers, NEW gate, Fit(w), w.idleCheck # None
  PROVE  LET n == OnIdleResult(w, idle, answer, gate)
         IN  Strides(w, n) /\ (w.state \notin Going => Same(w, n))
<1> DEFINE n == OnIdleResult(w, idle, answer, gate)
           t == w.idleCheck
           v == [w EXCEPT !.idleCheck = None]
           busy == [v EXCEPT !.idleRetries = @ + 1]
           free == [v EXCEPT !.idleRetries = 0]
           stale == v.inFlight \/ v.tasks[t] # "queued" \/ v.current # t[1]
<1>1. Plain(w) /\ w \in Worlds /\ Ordered(w, {}, FALSE)
  BY FitPlain
<1>t. t \in Keys
  BY <1>1 DEF Worlds
<1>2. /\ v \in Worlds /\ Same(w, v) /\ v.rounds = w.rounds /\ v.current = w.current
      /\ v.state = w.state /\ v.checked = w.checked /\ v.inFlight = w.inFlight
  BY <1>1 DEF Worlds, Same
<1>3. \/ n = v
      \/ MayGoOn(v) /\ n = StartNextTask(v, gate)
      \/ ~stale /\ MayGoOn(v) /\ n \in {PausedNow(busy), BeginWait(busy), Submit(free, t, answer, gate)}
  <2>1. CASE stale \/ ~MayGoOn(v)
    BY <2>1 DEF OnIdleResult, MayGoOn
  <2>2. CASE ~stale /\ MayGoOn(v) /\ v.state \in {"pause_requested", "stop_requested"}
    BY <2>2 DEF OnIdleResult
  <2>3. CASE ~stale /\ MayGoOn(v) /\ v.state \notin {"pause_requested", "stop_requested"}
    <3>1. v.state = "running"
      BY <2>3 DEF MayGoOn
    <3>2. CASE idle
      BY <2>3, <3>1, <3>2 DEF OnIdleResult
    <3>3. CASE ~idle
      <4>1. n = IF busy.idleRetries > IdleRetries THEN PausedNow(busy) ELSE BeginWait(busy)
        BY <2>3, <3>1, <3>3 DEF OnIdleResult
      <4> QED
        BY <2>3, <3>1, <4>1
    <3> QED
      BY <3>2, <3>3
  <2> QED
    BY <2>1, <2>2, <2>3
<1> HIDE DEF v, n
<1>4. v.idleRetries + 1 \in Nat
  BY <1>2 DEF Worlds
<1>5. ASSUME NEW x \in {busy, free}
      PROVE  /\ x \in Worlds /\ Same(v, x) /\ x.rounds = v.rounds /\ x.current = v.current
             /\ x.state = v.state /\ x.checked = v.checked /\ x.inFlight = v.inFlight
  <2>1. CASE x = busy
    BY <1>2, <1>4, <2>1 DEF Worlds, Same
  <2>2. CASE x = free
    BY <1>2, <2>2 DEF Worlds, Same
  <2> QED
    BY <1>5, <2>1, <2>2
<1> HIDE DEF busy, free
<1>6. Strides(w, v) /\ Plain(v)
  BY <1>1, <1>2, AsideStride
<1>7. ASSUME NEW x \in {busy, free} PROVE Strides(w, x) /\ Plain(x)
  BY <1>5, <1>6, AsideStride, StridesOn
<1>8. MayGoOn(v) => v.state \in Going
  BY DEF MayGoOn, Going, States
<1>9. n = v => Strides(w, n) /\ Same(w, n)
  BY <1>2, <1>6
<1>10. MayGoOn(v) /\ n = StartNextTask(v, gate) => Strides(w, n) /\ w.state \in Going
  BY <1>2, <1>6, <1>8, StartNextTaskStride, StridesOn
<1>11. ASSUME ~stale, MayGoOn(v), n \in {PausedNow(busy), BeginWait(busy), Submit(free, t, answer, gate)}
       PROVE  Strides(w, n) /\ w.state \in Going
  <2>1. v.state \in Going /\ w.state \in Going
    BY <1>2, <1>8, <1>11
  <2>2. busy \in Worlds /\ busy.state # "idle" /\ Strides(w, busy)
    BY <1>5, <1>7, <2>1 DEF Going
  <2>3. Strides(w, PausedNow(busy)) /\ Strides(w, BeginWait(busy))
    BY <2>2, PausedNowStride, StridesOn
  <2>4. /\ Plain(free) /\ Strides(w, free) /\ free.state \in Going /\ free.tasks[t] = "queued"
        /\ free.capture = w.capture /\ free.inFlight = w.inFlight
    BY <1>2, <1>5, <1>7, <1>11, <2>1 DEF Same
  <2>5. ~free.inFlight => free.capture.phase = "idle"
    BY <1>1, <2>4 DEF Ordered, Flight
  <2> HIDE DEF t
  <2>6. Strides(w, Submit(free, t, answer, gate))
    BY <1>t, <2>4, <2>5, SubmitStride, StridesOn
  <2> QED
    BY <1>11, <2>1, <2>3, <2>6
<1>12. Strides(w, n) /\ (w.state \notin Going => Same(w, n))
  BY <1>3, <1>9, <1>10, <1>11
<1> QED
  BY <1>12 DEF n

-----------------------------------------------------------------------------
(* The commands of the operator. *)

(* Rows and requests stay as they are, and no pass ends or begins. *)
LEMMA QuietStride ==
  ASSUME NEW w, NEW v, Same(w, v), Shifted(w.rounds, v.rounds),
         \A i \in Rounds : w.rounds[i] \in {"none", "running"} => v.rounds[i] = w.rounds[i],
         w.state = "idle" => v.state = "idle",
         v.state = "done" /\ v.checked = TRUE => w.state = "done" /\ w.checked = TRUE
  PROVE  Strides(w, v)
<1>1. ASSUME Tallied(w) PROVE Tallied(v)
  <2>1. Tally(w.rounds, w.state, w.checked)
    BY <1>1 DEF Tallied
  <2> DEFINE rs == w.rounds
             s == w.state
             c == w.checked
             qs == v.rounds
             s2 == v.state
             c2 == v.checked
  <2>2. /\ Shifted(rs, qs) /\ Tally(rs, s, c) /\ (s = "idle" => s2 = "idle")
        /\ s2 = "done" /\ c2 = TRUE /\ "stop" \notin Commands => s = "done" /\ c = TRUE
    BY <2>1, Zenon
  <2> HIDE DEF rs, s, c, qs, s2, c2
  <2>3. Tally(qs, s2, c2)
    BY <2>2, TallyShifted, Zenon
  <2> QED
    BY <2>3, Zenon DEF Tallied, qs, s2, c2
<1>2. Known(v.rounds) = Known(w.rounds)
  BY ShiftedSets
<1>3. ASSUME Lasts(w.rounds) PROVE Lasts(v.rounds)
  <2>1. \A i \in Rounds : v.rounds[i] \in Finished \cup {"none", "running"}
    BY <1>3 DEF Lasts, Shifted, Finished, Waiting, Open, Counted
  <2>2. NoMore(v.rounds)
    BY <1>2, <1>3 DEF Lasts, NoMore
  <2> QED
    BY <2>1, <2>2 DEF Lasts
<1> QED
  BY <1>1, <1>3, SameSpares DEF Strides, GoesNoFurther

LEMMA TickedStride ==
  ASSUME NEW w, NEW gate, NEW elapsed, Plain(w)
  PROVE  Strides(w, Tick(Save(w), gate, elapsed))
<1>1. Plain(Save(w)) /\ Strides(w, Save(w))
  BY SavePlain, SaveSame DEF Plain
<1>2. Strides(Save(w), Tick(Save(w), gate, elapsed))
  BY <1>1, TickStride
<1> QED
  BY <1>1, <1>2, StridesOn

LEMMA PauseStride ==
  ASSUME NEW w, Fit(w), w.state \in Willing
  PROVE  Strides(w, Pause(w))
<1>1. w \in Worlds /\ w.state # "idle" /\ "pause_requested" \in Going
  BY FitPlain DEF Willing, Going, States
<1>2. Pause(w) = Save([w EXCEPT !.state = "pause_requested"]) \/ Pause(w) = PausedNow(w)
  BY DEF Pause, Willing
<1> QED
  BY <1>1, <1>2, StateStride, PausedNowStride

LEMMA StopStride ==
  ASSUME NEW w, Fit(w), w.state \in Going, "stop" \in Commands
  PROVE  Strides(w, Stop(w))
<1>1. Plain(w) /\ w \in Worlds /\ w.state # "idle" /\ "stop_requested" \in Going
  BY FitPlain DEF Going, States
<1>2. Stop(w) = Save([w EXCEPT !.state = "stop_requested"]) \/ Stop(w) = Stopped(w)
  BY DEF Stop
<1> QED
  BY <1>1, <1>2, StateStride, StoppedStride

LEMMA ResumeStride ==
  ASSUME NEW w, NEW gate, NEW elapsed, Fit(w),
         w.state \in {"paused", "paused_backlog", "pause_requested"}
  PROVE  Strides(w, Resume(w, gate, elapsed))
<1> DEFINE n == Resume(w, gate, elapsed)
           begun == \E k \in Rows : InPass(w) /\ w.tasks[<<w.current, k>>] # "queued"
           s == CASE w.state = "pause_requested" -> "running"
                  [] w.state # "pause_requested" /\ ~InPass(w) -> "waiting_schedule"
                  [] w.state # "pause_requested" /\ InPass(w) /\ HasWait /\ begun -> "waiting"
                  [] OTHER -> "running"
           u == [w EXCEPT !.state = s]
<1>1. Plain(w) /\ w \in Worlds /\ w.state # "idle"
  BY FitPlain
<1>2. n = Tick(Save(u), gate, elapsed)
  <2>1. CASE w.state = "pause_requested"
    BY <2>1 DEF Resume
  <2>2. CASE w.state \in {"paused", "paused_backlog"}
    <3>1. s = CASE ~InPass(w) -> "waiting_schedule"
                [] InPass(w) /\ HasWait /\ begun -> "waiting"
                [] OTHER -> "running"
      BY <2>2
    <3> QED
      BY <2>2, <3>1 DEF Resume
  <2> QED
    BY <2>1, <2>2
<1>3. s \in Going /\ s # "stop_requested"
  <2>1. s \in {"running", "waiting", "waiting_schedule"}
    OBVIOUS
  <2> HIDE DEF s
  <2> QED
    BY <2>1 DEF Going, States
<1> HIDE DEF s
<1>4. Plain(u) /\ Strides(w, u)
  BY <1>1, <1>3, PlainState, StateStride
<1> HIDE DEF u, n
<1>5. Strides(w, n)
  BY <1>2, <1>4, TickedStride, StridesOn
<1> QED
  BY <1>5 DEF n

LEMMA MarkMissedPlain ==
  ASSUME NEW w, Plain(w)
  PROVE  Plain(MarkMissed(w))
<1> DEFINE f == [i \in Rounds |->
                   IF w.rounds[i] \in Open /\ clock[i] # "ahead" THEN "missed" ELSE w.rounds[i]]
           v == [w EXCEPT !.rounds = f]
<1>1. \A i \in Rounds : f[i] = w.rounds[i] \/ (w.rounds[i] \in Open /\ f[i] = "missed")
  OBVIOUS
<1>2. MarkMissed(w) = v
  BY DEF MarkMissed
<1>3. f \in [Rounds -> RoundStates]
  <2>1. w.rounds \in [Rounds -> RoundStates]
    BY DEF Plain, Worlds
  <2> QED
    BY <1>1, <2>1 DEF RoundStates
<1> HIDE DEF f
<1>4. /\ v \in Worlds /\ v.rounds = f /\ v.state = w.state /\ v.current = w.current
      /\ v.tasks = w.tasks
  BY <1>3 DEF Worlds, Plain
<1> HIDE DEF v
<1>5. RunningIsCurrent(v)
  BY <1>1, <1>4 DEF Plain, RunningIsCurrent, Open
<1>6. RowsOfBegun(v)
  BY <1>1, <1>4 DEF Plain, RowsOfBegun, Vacant
<1> QED
  BY <1>2, <1>4, <1>5, <1>6 DEF Plain

(* Continue, and the passes that were missed. *)
LEMMA ContinueStride ==
  ASSUME NEW w, NEW gate, NEW elapsed, Fit(w), w.state = "interrupted", CanContinue(w)
  PROVE  Strides(w, Continue(w, gate, elapsed))
<1> DEFINE n == Continue(w, gate, elapsed)
           held == [w EXCEPT !.owned = TRUE, !.timer = TRUE, !.inFlight = FALSE]
           marked == MarkMissed(held)
           s == IF InPass(w) THEN "running" ELSE "waiting_schedule"
           on == [marked EXCEPT !.state = s, !.preflightDue = InPass(w)]
           rest == [w EXCEPT !.downloadsOnly = FALSE, !.state = "done"]
<1>1. Plain(w) /\ w \in Worlds /\ Loose(w) /\ Halted(w)
  BY FitPlain DEF Halted
<1>2. ~w.checked
  BY <1>1 DEF Loose, Vouched
<1>3. ASSUME w.downloadsOnly PROVE Strides(w, n)
  <2>1. n = Save(rest)
    BY <1>3 DEF Continue
  <2>2. /\ rest \in Worlds /\ Same(w, rest) /\ rest.rounds = w.rounds
        /\ rest.checked = w.checked
    BY <1>1 DEF Worlds, States, Same
  <2> HIDE DEF rest, n
  <2>3. Shifted(w.rounds, rest.rounds)
    BY <2>2 DEF Shifted
  <2>4. ~(rest.checked = TRUE)
    BY <1>2, <2>2
  <2>5. Strides(w, rest)
    BY <2>2, <2>3, <2>4, QuietStride
  <2> QED
    BY <2>1, <2>2, <2>5, SaveSame, StridesOn
<1>4. ASSUME ~w.downloadsOnly PROVE Strides(w, n)
  <2>a. n = IF InPass(w) /\ QueuedRows(w) = {}
              THEN Tick(Save(FinishRound(marked, FALSE)), gate, elapsed)
              ELSE Tick(Save(on), gate, elapsed)
    BY <1>4 DEF Continue
  <2>1. /\ held \in Worlds /\ Same(w, held) /\ held.rounds = w.rounds /\ held.state = w.state
        /\ held.current = w.current /\ held.tasks = w.tasks /\ held.checked = w.checked
    BY <1>1 DEF Worlds, Same
  <2> HIDE DEF held, n
  <2>2. Plain(held)
    BY <1>1, <2>1 DEF Plain, RunningIsCurrent, RowsOfBegun
  <2>3. Strides(w, held)
    BY <2>1, StrideSame
  <2>4. Strides(w, marked) /\ Plain(marked)
    BY <2>1, <2>2, <2>3, MarkMissedStride, MarkMissedPlain, StridesOn
  <2>5. marked.state = w.state /\ marked.current = w.current
    BY <2>1 DEF MarkMissed, Worlds
  <2> HIDE DEF marked
  <2>6. CASE InPass(w) /\ QueuedRows(w) = {}
    <3> DEFINE r == FinishRound(marked, FALSE)
    <3>1. InPass(marked) /\ marked.state = "interrupted"
      BY <2>5, <2>6 DEF InPass
    <3>2. Strides(marked, r) /\ Plain(r)
      BY <2>4, <3>1, FinishRoundStride
    <3>3. n = Tick(Save(r), gate, elapsed)
      BY <2>a, <2>6
    <3> HIDE DEF r
    <3> QED
      BY <2>4, <3>2, <3>3, TickedStride, StridesOn
  <2>7. CASE ~(InPass(w) /\ QueuedRows(w) = {})
    <3>1. n = Tick(Save(on), gate, elapsed)
      BY <2>a, <2>7
    <3>2. s \in Going /\ s \in States /\ s # "stop_requested" /\ InPass(w) \in BOOLEAN
      BY DEF Going, States, InPass
    <3> HIDE DEF s
    <3>3. /\ on \in Worlds /\ Same(marked, on) /\ on.rounds = marked.rounds /\ on.state = s
          /\ on.current = marked.current /\ on.checked = marked.checked
      BY <2>4, <3>2 DEF Plain, Worlds, Same
    <3> HIDE DEF on
    <3>4. Strides(marked, on) /\ Plain(on)
      BY <2>4, <2>5, <3>2, <3>3, AsideStride
    <3> QED
      BY <2>4, <3>1, <3>4, TickedStride, StridesOn
  <2> QED
    BY <2>6, <2>7
<1>5. Strides(w, n)
  BY <1>3, <1>4
<1> QED
  BY <1>5 DEF n

LEMMA TallyDue ==
  ASSUME NEW rs \in [Rounds -> RoundStates], NEW s, NEW c, Tally(rs, s, c), NEW i \in Rounds,
         rs[i] = "missed", NEW s2, NEW c2, s2 # "done"
  PROVE  Tally([rs EXCEPT ![i] = "due"], s2, c2)
<1> DEFINE qs == [rs EXCEPT ![i] = "due"]
<1>1. Shifted(rs, qs) /\ qs[i] = "due"
  BY DEF Shifted, Waiting, Open
<1> HIDE DEF qs
<1>2. Left(qs) = Left(rs) /\ Known(qs) = Known(rs) /\ (StopsAsked(rs) => StopsAsked(qs))
  BY <1>1, ShiftedSets
<1>3. OneIsLeft(qs) /\ Bounded(qs) /\ StopsAsked(qs) /\ DoneIsOver(qs, s2, c2)
  BY <1>2 DEF Tally, OneIsLeft, Bounded, DoneIsOver
<1>4. i \in Left(qs)
  BY <1>1 DEF Left, Finished
<1>5. EndsRight(qs, s2)
  BY <1>4 DEF EndsRight
<1>6. Tally(qs, s2, c2)
  BY <1>3, <1>5 DEF Tally
<1> QED
  BY <1>6 DEF qs

LEMMA RunMissedStride ==
  ASSUME NEW w, NEW i \in Rounds, NEW gate, NEW elapsed, Fit(w), w.rounds[i] = "missed",
         w.state # "closed", w.state = "interrupted" => CanContinue(w)
  PROVE  Strides(w, RunMissed(w, i, gate, elapsed))
<1> DEFINE n == RunMissed(w, i, gate, elapsed)
           c == IF w.state = "interrupted" THEN Continue(w, gate, elapsed) ELSE w
           rested == c.state \in {"done", "idle"}
           s == IF rested THEN "waiting_schedule" ELSE c.state
           holds == c.owned \/ rested
           ticks == c.timer \/ rested
           v == [c EXCEPT !.rounds[i] = "due", !.owned = holds, !.timer = ticks, !.state = s]
<1>1. Strides(w, c) /\ Fit(c) /\ c.rounds[i] = "missed" /\ (c.state \in Going \/ rested)
  <2>1. CASE w.state = "interrupted"
    <3>1. c = Continue(w, gate, elapsed)
      BY <2>1
    <3>2. Strides(w, c) /\ Fit(c) /\ Renews(w, c)
      BY <2>1, <3>1, ContinueStride, ContinueFit
    <3> HIDE DEF c
    <3> QED
      BY <3>2 DEF Renews, Goes, LeavesMissed
  <2>2. CASE w.state # "interrupted"
    <3>1. c = w
      BY <2>2
    <3>2. w \in Worlds
      BY FitPlain
    <3>3. w.state \in States
      BY <3>2 DEF Worlds
    <3> HIDE DEF c
    <3> QED
      BY <2>2, <3>1, <3>3, StrideSelf DEF Going
  <2> QED
    BY <2>1, <2>2
<1>2. n = IF rested /\ ~CanReserve THEN c ELSE Tick(Save(v), gate, elapsed)
  BY DEF RunMissed
<1> HIDE DEF c, n
<1>3. Plain(c) /\ c \in Worlds
  BY <1>1, FitPlain
<1>4. s \in Going /\ s \in States /\ holds \in BOOLEAN /\ ticks \in BOOLEAN
  BY <1>1, <1>3 DEF Worlds, Going, States
<1>5. s = "stop_requested" => s = c.state
  OBVIOUS
<1> HIDE DEF s, holds, ticks
<1>6. /\ v \in Worlds /\ Same(c, v) /\ v.current = c.current /\ v.state = s
      /\ v.rounds = [c.rounds EXCEPT ![i] = "due"] /\ v.tasks = c.tasks
  <2>1. [c.rounds EXCEPT ![i] = "due"] \in [Rounds -> RoundStates]
    BY <1>3 DEF Worlds, RoundStates
  <2> QED
    BY <1>3, <1>4, <2>1 DEF Worlds, Same
<1> HIDE DEF v
<1>7. c.rounds \in [Rounds -> RoundStates]
  BY <1>3 DEF Worlds
<1>8. Strides(c, v)
  <2>1. Spares(c, v)
    BY <1>6, SameSpares
  <2>2. Tallied(c) => Tallied(v)
    BY <1>1, <1>4, <1>6, <1>7, TallyDue DEF Tallied, Going
  <2>3. ~Lasts(c.rounds)
    BY <1>1 DEF Lasts, Finished
  <2> QED
    BY <2>1, <2>2, <2>3 DEF Strides, GoesNoFurther
<1>9. Plain(v)
  <2>1. RunningIsCurrent(v)
    BY <1>1, <1>3, <1>6, <1>7 DEF Plain, RunningIsCurrent
  <2>2. RowsOfBegun(v)
    BY <1>1, <1>3, <1>4, <1>6, <1>7 DEF Plain, RowsOfBegun, Vacant, Open, Going
  <2> QED
    BY <1>3, <1>5, <1>6, <2>1, <2>2 DEF Plain
<1>10. Strides(w, Tick(Save(v), gate, elapsed))
  BY <1>1, <1>8, <1>9, TickedStride, StridesOn
<1>11. Strides(w, n)
  BY <1>1, <1>2, <1>10
<1> QED
  BY <1>11 DEF n

LEMMA SkipMissedStride ==
  ASSUME NEW w, NEW i \in Rounds, Fit(w), w.rounds[i] = "missed", "skip_missed" \in Commands
  PROVE  Strides(w, SkipMissed(w, i)) /\ Same(w, SkipMissed(w, i))
<1> DEFINE v == [w EXCEPT !.rounds[i] = "skipped"]
<1>1. w \in Worlds
  BY FitPlain
<1>2. w.rounds \in [Rounds -> RoundStates]
  BY <1>1 DEF Worlds
<1>3. [w.rounds EXCEPT ![i] = "skipped"] \in [Rounds -> RoundStates]
  BY <1>2 DEF RoundStates
<1>4. /\ v \in Worlds /\ Same(w, v) /\ v.rounds = [w.rounds EXCEPT ![i] = "skipped"]
      /\ v.state = w.state /\ v.checked = w.checked
  BY <1>1, <1>3 DEF Worlds, Same
<1>5. SkipMissed(w, i) = Save(v)
  BY DEF SkipMissed
<1> HIDE DEF v
<1>6. Tallied(w) => Tallied(v)
  BY <1>2, <1>4, TallySkipped DEF Tallied
<1>7. ~Lasts(w.rounds)
  BY DEF Lasts, Finished
<1>8. Strides(w, v)
  BY <1>4, <1>6, <1>7, SameSpares DEF Strides, GoesNoFurther
<1>9. Strides(v, Save(v)) /\ Same(v, Save(v))
  BY <1>4, SaveSame
<1> QED
  BY <1>4, <1>5, <1>8, <1>9, StridesOn DEF Same

LEMMA LoadedStride ==
  ASSUME NEW w, NEW unfinished \in BOOLEAN, Fit(w), w.state = "closed"
  PROVE  Strides(w, Loaded(w, unfinished)) /\ Same(w, Loaded(w, unfinished))
<1> DEFINE done == w.disk.state = "done"
           s == IF done /\ ~unfinished THEN "done" ELSE "interrupted"
           only == done /\ unfinished
           v == [w EXCEPT !.state = s, !.downloadsOnly = only]
           n == Loaded(w, unfinished)
<1>1. w \in Worlds /\ Loose(w) /\ Halted(w)
  BY FitPlain DEF Halted
<1>2. ~w.checked
  BY <1>1 DEF Loose, Vouched
<1>3. s \in States /\ only \in BOOLEAN
  BY DEF States
<1>4. n = v \/ n = MarkMissed(v)
  BY DEF Loaded
<1> HIDE DEF s, only, n
<1>5. v \in Worlds /\ Same(w, v) /\ v.rounds = w.rounds /\ v.checked = w.checked
  BY <1>1, <1>3 DEF Worlds, Same
<1> HIDE DEF v
<1>6. Shifted(w.rounds, v.rounds)
  BY <1>5 DEF Shifted
<1>7. ~(v.checked = TRUE)
  BY <1>2, <1>5
<1>8. Strides(w, v)
  BY <1>5, <1>6, <1>7, QuietStride
<1>9. Strides(v, MarkMissed(v)) /\ Same(v, MarkMissed(v))
  BY <1>5, MarkMissedStride DEF MarkMissed, Worlds, Same
<1>10. Strides(w, n) /\ Same(w, n)
  BY <1>4, <1>5, <1>8, <1>9, StridesOn DEF Same
<1> QED
  BY <1>10 DEF n

(* A collection begins; and rows of its last pass are taken up again when it is done. *)
LEMMA SparesOn ==
  ASSUME NEW w, NEW v, NEW x, Spares(w, v), Spares(v, x)
  PROVE  Spares(w, x)
BY DEF Spares

LEMMA StartSessionStride ==
  ASSUME NEW w, NEW gate, NEW elapsed, Fit(w), w.state = "idle"
  PROVE  LET n == StartSession(w, gate, elapsed)
         IN  Spares(w, n) /\ Tallied(n)
<1> DEFINE n == StartSession(w, gate, elapsed)
           first == [i \in Rounds |-> CASE Mode = "times" -> "pending"
                                        [] Mode = "now" /\ i = 1 -> "due"
                                        [] OTHER -> "none"]
           v == [w EXCEPT !.rounds = first, !.owned = TRUE, !.timer = TRUE,
                          !.state = "waiting_schedule"]
           c == Classify(v, FALSE)
<1>1. Plain(w) /\ w \in Worlds /\ Loose(w) /\ Ordered(w, {}, FALSE)
  BY FitPlain
<1>2. ~InPass(w)
  BY <1>1 DEF Ordered, Steady
<1>3. /\ first \in [Rounds -> RoundStates]
      /\ \A i \in Rounds : first[i] \in Vacant /\ first[i] \notin {"running", "stopped"}
      /\ Mode = "now" => \A i \in Rounds : first[i] = IF i = 1 THEN "due" ELSE "none"
  BY DEF RoundStates, Vacant, Open
<1>4. n = Tick(Save(IF Mode = "times" THEN c ELSE v), gate, elapsed)
  BY DEF StartSession
<1> HIDE DEF first, n
<1>5. /\ v \in Worlds /\ Same(w, v) /\ v.rounds = first /\ v.current = w.current
      /\ v.state = "waiting_schedule"
  BY <1>1, <1>3 DEF Worlds, States, Same
<1> HIDE DEF v
<1>6. \A t \in Keys : w.tasks[t] = "none"
  BY <1>1 DEF Loose, RowsOfBegun
<1>7. Plain(v)
  <2>1. RunningIsCurrent(v)
    BY <1>2, <1>3, <1>5 DEF RunningIsCurrent, InPass, Rounds
  <2>2. RowsOfBegun(v)
    <3>1. \A i \in Rounds, k \in Rows : <<i, k>> \in Keys
      BY DEF Keys
    <3> QED
      BY <1>5, <1>6, <3>1 DEF Same, RowsOfBegun
  <2> QED
    BY <1>5, <2>1, <2>2 DEF Plain
<1>8. Tallied(v)
  BY <1>3, <1>5, TallyStart DEF Tallied
<1>9. Spares(w, v)
  BY <1>5, SameSpares
<1>10. Plain(c) /\ Strides(v, c)
  BY <1>5, <1>7, ClassifyPlain, ClassifyStride
<1> HIDE DEF c
<1>11. ASSUME NEW x \in {c, v}
       PROVE  Spares(w, Tick(Save(x), gate, elapsed)) /\ Tallied(Tick(Save(x), gate, elapsed))
  <2> DEFINE y == Tick(Save(x), gate, elapsed)
  <2>1. Plain(x) /\ Strides(v, x)
    BY <1>7, <1>10, <1>11, StrideSelf
  <2>2. Strides(x, y)
    BY <2>1, TickedStride
  <2> HIDE DEF y
  <2>3. Strides(v, y)
    BY <2>1, <2>2, StridesOn
  <2>4. Spares(w, y) /\ Tallied(y)
    BY <1>8, <1>9, <2>3, SparesOn DEF Strides
  <2> QED
    BY <2>4 DEF y
<1>12. Spares(w, n) /\ Tallied(n)
  BY <1>4, <1>11
<1> QED
  BY <1>12 DEF n

(* Nothing waits in a collection that was checked and is done. *)
LEMMA NothingWaits ==
  ASSUME NEW w, Fit(w), w.state = "done", w.checked = TRUE, "stop" \notin Commands, Tallied(w)
  PROVE  \A t \in Keys : w.tasks[t] \notin Drawn
<1>1. Plain(w) /\ w \in Worlds /\ Loose(w) /\ Ordered(w, {}, FALSE)
  BY FitPlain
<1>2. Tally(w.rounds, w.state, w.checked)
  BY DEF Tallied
<1>3. Left(w.rounds) = {} /\ StopsAsked(w.rounds)
  BY <1>2 DEF Tally, DoneIsOver
<1> SUFFICES ASSUME NEW t \in Keys PROVE w.tasks[t] \notin Drawn
  OBVIOUS
<1>4. PICK i \in Rounds, k \in Rows : t = <<i, k>>
  BY DEF Keys
<1>5. w.rounds[i] \in Counted \cup {"skipped", "none"}
  BY <1>3 DEF Left, StopsAsked, Finished, Counted
<1>6. CASE w.rounds[i] \in Counted
  BY <1>1, <1>4, <1>6 DEF Ordered, Passes, CountedIsComplete, Unsettled, Drawn
<1>7. CASE w.rounds[i] \in {"skipped", "none"}
  BY <1>1, <1>4, <1>7 DEF Loose, RowsOfBegun, Vacant, Drawn
<1> QED
  BY <1>5, <1>6, <1>7

LEMMA RetryStride ==
  ASSUME NEW w, NEW i \in Rounds, NEW gate, NEW elapsed, Fit(w), w.state = "done",
         w.checked, "stop" \notin Commands, ~RetryRefused(w, i), Tallied(w)
  PROVE  LET n == Retry(w, i, gate, elapsed)
         IN  /\ Spares(w, n) /\ Tallied(n)
             /\ NeverCut => /\ Lasts(n.rounds)
                            /\ \A t \in Keys : n.tasks[t] \in Drawn => t \in RetryableKeys(w, i)
<1> DEFINE n == Retry(w, i, gate, elapsed)
           keys == RetryableKeys(w, i)
           newTasks == [t \in Keys |-> IF t \in keys THEN "queued" ELSE w.tasks[t]]
           newPermits == [t \in Keys |-> IF t \in keys THEN w.permits[t] + 1 ELSE w.permits[t]]
           status == IF InPass(w) THEN w.rounds[i] ELSE "running"
           holds == w.owned \/ AtRest(w)
           ticks == w.timer \/ AtRest(w)
           s == IF AtRest(w) THEN "running" ELSE w.state
           v == [w EXCEPT !.tasks = newTasks, !.permits = newPermits, !.rounds[i] = status,
                          !.current = i, !.owned = holds, !.timer = ticks, !.state = s]
<1>1. /\ w \in Worlds /\ Ordered(w, {}, FALSE) /\ Loose(w) /\ Plain(w)
  BY FitPlain
<1>2. ~InPass(w) /\ AtRest(w) /\ keys # {}
  BY <1>1 DEF Ordered, Steady, AtRest, RetryRefused
<1>3. w.checked = TRUE
  BY <1>1 DEF Worlds
<1>4. \A t \in keys : t \in Keys /\ w.tasks[t] \in Retryable /\ t[1] = i
  BY DEF RetryableKeys
<1>5. newTasks \in [Keys -> Statuses] /\ newPermits \in [Keys -> Nat]
  BY <1>1 DEF Worlds, Statuses
<1>6. \A t \in Keys : newTasks[t] = IF t \in keys THEN "queued" ELSE w.tasks[t]
  OBVIOUS
<1>7. n = Tick(Save(v), gate, elapsed)
  BY DEF Retry
<1>8. status = "running" /\ s = "running" /\ holds \in BOOLEAN /\ ticks \in BOOLEAN
  BY <1>2
<1> HIDE DEF keys, newTasks, newPermits, status, holds, ticks, s, n
<1>9. [w.rounds EXCEPT ![i] = status] \in [Rounds -> RoundStates]
  BY <1>1, <1>8 DEF Worlds, RoundStates
<1>10. i \in 0 .. NRounds /\ i # 0 /\ s \in States
  BY <1>8, SizeAssumption DEF Rounds, States
<1>11. /\ v \in Worlds /\ v.tasks = newTasks /\ v.rounds = [w.rounds EXCEPT ![i] = "running"]
       /\ v.current = i /\ v.state = "running" /\ v.capture = w.capture
       /\ v.posts = w.posts /\ v.recordOf = w.recordOf
  BY <1>1, <1>5, <1>8, <1>9, <1>10 DEF Worlds
<1> HIDE DEF v
<1>12. w.rounds \in [Rounds -> RoundStates]
  BY <1>1 DEF Worlds
<1>13. \A j \in Rounds : v.rounds[j] = IF j = i THEN "running" ELSE w.rounds[j]
  BY <1>11, <1>12
<1>14. w.rounds[i] \notin Vacant
  <2>1. PICK t \in keys : TRUE
    BY <1>2
  <2>2. PICK k \in Rows : t = <<i, k>>
    BY <1>4, <2>1 DEF Keys
  <2> QED
    BY <1>1, <1>4, <2>1, <2>2 DEF Loose, RowsOfBegun, Retryable
<1>15. Plain(v)
  <2>1. RunningIsCurrent(v)
    BY <1>1, <1>2, <1>10, <1>11, <1>13 DEF Plain, RunningIsCurrent, InPass, Rounds
  <2>2. RowsOfBegun(v)
    <3>1. ASSUME NEW j \in Rounds, v.rounds[j] \in Vacant, NEW k \in Rows
          PROVE  v.tasks[<<j, k>>] = "none"
      <4>1. j # i /\ w.rounds[j] \in Vacant /\ <<j, k>> \in Keys
        BY <1>13, <3>1 DEF Vacant, Open, Keys
      <4> QED
        BY <1>1, <1>4, <1>6, <1>11, <4>1 DEF Loose, RowsOfBegun
    <3> QED
      BY <1>11, <3>1 DEF RowsOfBegun
  <2> QED
    BY <1>11, <2>1, <2>2 DEF Plain
<1>16. Strides(v, n)
  BY <1>7, <1>15, TickedStride
<1>17. Spares(w, v)
  BY <1>4, <1>6, <1>11 DEF Spares, Retryable, Lax
<1>18. Tally(w.rounds, "done", w.checked)
  BY DEF Tallied
<1>19. Tallied(v) /\ (NeverCut => Lasts(v.rounds))
  <2>1. w.rounds[i] # "none"
    BY <1>14 DEF Vacant
  <2> DEFINE c == w.checked
  <2>2. Tally(w.rounds, "done", c) /\ c = TRUE
    BY <1>3, <1>18, Zenon
  <2> HIDE DEF c
  <2>3. Tally([w.rounds EXCEPT ![i] = "running"], "running", v.checked)
    BY <1>12, <2>1, <2>2, TallyRetried
  <2>4. NeverCut => Lasts([w.rounds EXCEPT ![i] = "running"])
    BY <1>12, <2>1, <2>2, LastsRetried
  <2> QED
    BY <1>11, <2>3, <2>4, Zenon DEF Tallied
<1>20. \A t \in Keys : v.tasks[t] \in Drawn => t \in keys
  BY <1>3, <1>6, <1>11, NothingWaits
<1>21. Spares(w, n) /\ Tallied(n)
  BY <1>16, <1>17, <1>19, SparesOn DEF Strides
<1>22. NeverCut => Lasts(n.rounds) /\ \A t \in Keys : n.tasks[t] \in Drawn => t \in keys
  BY <1>16, <1>19, <1>20 DEF Strides, GoesNoFurther, Draws
<1> QED
  BY <1>21, <1>22 DEF n, keys

-----------------------------------------------------------------------------
(* What the program knows of the recordings r the sensor holds: of a row with one it has
   counted it, or has its request on record, or is about to.                            *)
JustReported(w, r, t) ==
  /\ w.tasks[t] = "submitting" /\ w.capture.key = t /\ w.capture.phase = "reported"
  /\ w.capture.outcome \in {"confirmed", "partial", "unknown"} /\ w.posts[t] \in r[t]
KeptIn(w, r) ==
  \A t \in Keys : \/ r[t] = {}
                  \/ w.tasks[t] \in {"confirmed", "partial", "skipped"}
                  \/ w.tasks[t] = "unknown" /\ w.recordOf[t] \in r[t]
                  \/ JustReported(w, r, t)

LEMMA SparesKept ==
  ASSUME NEW w, NEW v, NEW r, Spares(w, v), KeptIn(w, r)
  PROVE  KeptIn(v, r)
<1> SUFFICES ASSUME NEW t \in Keys, r[t] # {}
             PROVE  \/ v.tasks[t] \in {"confirmed", "partial", "skipped"}
                    \/ v.tasks[t] = "unknown" /\ v.recordOf[t] \in r[t]
                    \/ JustReported(v, r, t)
  BY DEF KeptIn
<1>1. \/ w.tasks[t] \in {"confirmed", "partial", "skipped"}
      \/ w.tasks[t] = "unknown" /\ w.recordOf[t] \in r[t]
      \/ JustReported(w, r, t)
  BY DEF KeptIn
<1>2. /\ v.tasks[t] = w.tasks[t] /\ v.posts[t] = w.posts[t] /\ v.recordOf[t] = w.recordOf[t]
  BY <1>1 DEF Spares, Lax, JustReported
<1>3. JustReported(w, r, t) => v.capture = w.capture
  BY DEF Spares, JustReported
<1> QED
  BY <1>1, <1>2, <1>3 DEF JustReported

LEMMA OnCaptureFinishedStride ==
  ASSUME NEW w, NEW gate, Fit(w), w.capture.phase = "reported"
  PROVE  LET n == OnCaptureFinished(w, gate)
         IN  /\ (Tallied(w) => Tallied(n)) /\ GoesNoFurther(w, n)
             /\ \A r : KeptIn(w, r) => KeptIn(n, r)
<1> DEFINE n == OnCaptureFinished(w, gate)
           k == w.capture.key
           o == w.capture.outcome
           record == IF o = "not_sent" THEN w.recordOf[k] ELSE w.posts[k]
           status == StatusAfter(o, w.attempts[k])
           v == [w EXCEPT !.inFlight = FALSE, !.capture = NoCapture,
                          !.recordOf[k] = record, !.tasks[k] = status]
<1>1. Plain(w) /\ w \in Worlds /\ Ordered(w, {}, FALSE) /\ Loose(w)
  BY FitPlain
<1>2. w.inFlight /\ w.state \in Going /\ k \in Keys /\ k[1] = w.current /\ InPass(w)
  BY <1>1 DEF Ordered, Flight
<1>3. w.tasks[k] = "submitting"
  BY <1>1, <1>2 DEF Loose, SentIsMarked
<1>4. \A t \in Keys : w.tasks[t] = "submitting" => t = k
  BY <1>1, <1>2 DEF Ordered, Flight, Halted, Going
<1>5. NoCapture \in CaptureType
  BY DEF NoCapture, CaptureType
<1>6. status \in Statuses /\ status \notin {"none", "submitting"}
  BY DEF StatusAfter, Statuses, Confirmed
<1>7. o \in {"confirmed", "partial", "unknown"} => status = o /\ record = w.posts[k]
  BY DEF StatusAfter, Confirmed
<1>8. record \in Nat
  BY <1>1, <1>2 DEF Worlds
<1>9. n = AfterTask(Save(v), gate)
  BY DEF OnCaptureFinished
<1> HIDE DEF status, record, n
<1>10. [w.tasks EXCEPT ![k] = status] \in [Keys -> Statuses]
  BY <1>1, <1>6 DEF Worlds
<1>11. [w.recordOf EXCEPT ![k] = record] \in [Keys -> Nat]
  BY <1>1, <1>8 DEF Worlds
<1>12. /\ v \in Worlds /\ v.tasks = [w.tasks EXCEPT ![k] = status]
       /\ v.recordOf = [w.recordOf EXCEPT ![k] = record]
       /\ v.rounds = w.rounds /\ v.current = w.current /\ v.state = w.state
       /\ v.checked = w.checked /\ v.posts = w.posts
  BY <1>1, <1>5, <1>10, <1>11 DEF Worlds
<1> HIDE DEF v
<1>13. /\ \A t \in Keys : v.tasks[t] = IF t = k THEN status ELSE w.tasks[t]
       /\ \A t \in Keys : v.recordOf[t] = IF t = k THEN record ELSE w.recordOf[t]
  <2>1. w.tasks \in [Keys -> Statuses] /\ w.recordOf \in [Keys -> Nat]
    BY <1>1 DEF Worlds
  <2> QED
    BY <1>12, <2>1
<1>14. Plain(v)
  <2>1. RunningIsCurrent(v)
    BY <1>1, <1>12 DEF Plain, RunningIsCurrent
  <2>2. w.rounds[w.current] = "running" /\ w.current \in Rounds
    <3>1. w.current \in Rounds
      BY <1>2 DEF Keys
    <3> QED
      BY <1>1, <3>1 DEF Plain, RunningIsCurrent
  <2>3. ASSUME NEW i \in Rounds, v.rounds[i] \in Vacant, NEW l \in Rows
        PROVE  v.tasks[<<i, l>>] = "none"
    <3>1. i # w.current /\ <<i, l>> \in Keys /\ <<i, l>> # k
      BY <1>2, <1>12, <2>2, <2>3 DEF Vacant, Open, Keys
    <3>2. w.tasks[<<i, l>>] = "none"
      BY <1>1, <1>12, <2>3 DEF Plain, RowsOfBegun
    <3> QED
      BY <1>13, <3>1, <3>2
  <2>4. RowsOfBegun(v)
    BY <1>2, <1>12, <2>3 DEF RowsOfBegun, Going
  <2> QED
    BY <1>1, <1>12, <2>1, <2>4 DEF Plain
<1>15. Plain(Save(v)) /\ Save(v).state \in Going /\ Strides(v, Save(v))
  BY <1>2, <1>12, <1>14, SavePlain, SaveSame
<1>16. Strides(v, n)
  BY <1>9, <1>15, AfterTaskStride, StridesOn
<1>17. Tallied(w) => Tallied(n)
  BY <1>12, <1>16 DEF Tallied, Strides
<1>18. GoesNoFurther(w, n)
  <2>1. Draws(w, v)
    BY <1>3, <1>12, <1>13 DEF Draws, Drawn
  <2> QED
    BY <1>12, <1>16, <2>1 DEF Strides, GoesNoFurther, Draws
<1>19. ASSUME NEW r, KeptIn(w, r) PROVE KeptIn(n, r)
  <2>1. ASSUME NEW t \in Keys, r[t] # {}
        PROVE  \/ v.tasks[t] \in {"confirmed", "partial", "skipped"}
               \/ v.tasks[t] = "unknown" /\ v.recordOf[t] \in r[t]
    <3>1. \/ w.tasks[t] \in {"confirmed", "partial", "skipped"}
          \/ w.tasks[t] = "unknown" /\ w.recordOf[t] \in r[t]
          \/ JustReported(w, r, t)
      BY <1>19, <2>1 DEF KeptIn
    <3>2. CASE t = k
      BY <1>3, <1>7, <1>13, <3>1, <3>2 DEF JustReported
    <3>3. CASE t # k
      BY <1>13, <3>1, <3>3 DEF JustReported
    <3> QED
      BY <3>2, <3>3
  <2>2. KeptIn(v, r)
    BY <2>1 DEF KeptIn
  <2> QED
    BY <1>16, <2>2, SparesKept DEF Strides
<1>20. \A r : KeptIn(w, r) => KeptIn(n, r)
  BY <1>19
<1> QED
  BY <1>17, <1>18, <1>20 DEF n

(* A file check or "Skip": nothing waits that did not, and passes that ended have ended. *)
LEMMA RevisedStride ==
  ASSUME NEW w, NEW v, Revises(w, v),
         \A t \in Keys : v.tasks[t] = w.tasks[t] \/ v.tasks[t] \notin Drawn
  PROVE  (Tallied(w) => Tallied(v)) /\ GoesNoFurther(w, v)
<1>1. Shifted(w.rounds, v.rounds) /\ v.state = w.state /\ v.checked = w.checked
      /\ v.posts = w.posts
  BY DEF Revises, Recounts, Shifted
<1>2. Tallied(w) => Tallied(v)
  BY <1>1, TallyShifted DEF Tallied
<1>3. Draws(w, v)
  BY <1>1 DEF Draws
<1>4. Known(v.rounds) = Known(w.rounds)
  BY <1>1, ShiftedSets
<1>5. ASSUME Lasts(w.rounds) PROVE Lasts(v.rounds)
  <2>1. \A i \in Rounds : v.rounds[i] = w.rounds[i] \/ {v.rounds[i], w.rounds[i]} \subseteq Counted
    BY DEF Revises, Recounts
  <2>2. \A i \in Rounds : v.rounds[i] \in Finished \cup {"none", "running"}
    BY <1>5, <2>1 DEF Lasts, Finished, Counted
  <2> QED
    BY <1>4, <1>5, <2>2 DEF Lasts, NoMore
<1> QED
  BY <1>2, <1>3, <1>5 DEF GoesNoFurther

LEMMA OnFilesCheckedStride ==
  ASSUME NEW w, NEW wanted, NEW verdict \in Confirmed, Fit(w),
         w.state \in {"interrupted", "done"}
  PROVE  LET n == OnFilesChecked(w, wanted, verdict)
         IN  /\ (Tallied(w) => Tallied(n)) /\ GoesNoFurther(w, n)
             /\ /\ KeptIn(w, recorded)
                /\ \A t \in UncertainKeys(w) : <<t, w.recordOf[t]>> \in wanted
                => KeptIn(n, recorded)
<1> DEFINE found(t) == \E n \in recorded[t] : <<t, n>> \in wanted
           f == [t \in Keys |-> CASE t \notin UncertainKeys(w) -> w.tasks[t]
                                  [] t \in UncertainKeys(w) /\ found(t) -> verdict
                                  [] OTHER -> "no_file"]
           v == [w EXCEPT !.tasks = f]
           counts == [i \in Rounds |->
                        IF i # v.current /\ v.rounds[i] \in {"done", "partial", "failed"}
                          THEN Verdict(v, i) ELSE v.rounds[i]]
           u == [v EXCEPT !.rounds = counts]
           n == OnFilesChecked(w, wanted, verdict)
<1>1. w \in Worlds /\ Ordered(w, {}, FALSE)
  BY FitPlain
<1>2. w.capture.phase = "idle"
  BY <1>1 DEF Ordered, Flight, Going
<1>3. \A t \in Keys : /\ t \notin UncertainKeys(w) => f[t] = w.tasks[t]
                      /\ t \in UncertainKeys(w) /\ found(t) => f[t] = verdict
                      /\ t \in UncertainKeys(w) /\ ~found(t) => f[t] = "no_file"
  OBVIOUS
<1>4. n = Save(u)
  BY DEF OnFilesChecked, Recount
<1> HIDE DEF f, counts
<1>5. v.recordOf = w.recordOf /\ v.tasks = f /\ DOMAIN v = DOMAIN w
  BY <1>1 DEF Worlds
<1> HIDE DEF v
<1>6. u.recordOf = w.recordOf /\ u.tasks = f /\ DOMAIN u = DOMAIN w
  BY <1>1, <1>5 DEF Worlds
<1> HIDE DEF u
<1>7. n.tasks = f /\ n.recordOf = w.recordOf
  BY <1>1, <1>4, <1>6 DEF Save, Worlds
<1>8. Revises(w, n)
  BY OnFilesCheckedFit
<1> HIDE DEF n
<1>9. (Tallied(w) => Tallied(n)) /\ GoesNoFurther(w, n)
  <2>1. \A t \in Keys : n.tasks[t] = w.tasks[t] \/ n.tasks[t] \notin Drawn
    BY <1>3, <1>7 DEF Drawn, Confirmed
  <2> QED
    BY <1>8, <2>1, RevisedStride
<1>10. ASSUME KeptIn(w, recorded), \A t \in UncertainKeys(w) : <<t, w.recordOf[t]>> \in wanted
       PROVE  KeptIn(n, recorded)
  <2>1. ASSUME NEW t \in Keys, recorded[t] # {}
        PROVE  \/ n.tasks[t] \in {"confirmed", "partial", "skipped"}
               \/ n.tasks[t] = "unknown" /\ n.recordOf[t] \in recorded[t]
    <3>1. \/ w.tasks[t] \in {"confirmed", "partial", "skipped"}
          \/ w.tasks[t] = "unknown" /\ w.recordOf[t] \in recorded[t]
      BY <1>2, <1>10, <2>1 DEF KeptIn, JustReported
    <3>2. CASE t \notin UncertainKeys(w)
      BY <1>3, <1>7, <3>1, <3>2
    <3>3. CASE t \in UncertainKeys(w)
      <4>1. w.tasks[t] \in Uncertain
        BY <3>3 DEF UncertainKeys
      <4>2. w.recordOf[t] \in recorded[t] /\ <<t, w.recordOf[t]>> \in wanted
        BY <1>10, <3>1, <3>3, <4>1 DEF Uncertain
      <4>3. found(t)
        BY <4>2
      <4> QED
        BY <1>3, <1>7, <3>3, <4>3 DEF Confirmed
    <3> QED
      BY <3>2, <3>3
  <2> QED
    BY <2>1 DEF KeptIn
<1> QED
  BY <1>9, <1>10 DEF n

LEMMA SkipUncertainStride ==
  ASSUME NEW w, Fit(w), w.state = "interrupted"
  PROVE  LET n == SkipUncertain(w)
         IN  /\ (Tallied(w) => Tallied(n)) /\ GoesNoFurther(w, n)
             /\ \A r : KeptIn(w, r) => KeptIn(n, r)
<1> DEFINE meant == {IF InPass(w) THEN <<w.current, t[2]>> ELSE t : t \in UncertainKeys(w)}
           skipped == {t \in meant : w.tasks[t] \notin Confirmed \cup {"none"}}
           f == [t \in Keys |-> IF t \in skipped THEN "skipped" ELSE w.tasks[t]]
           v == [w EXCEPT !.tasks = f]
           n == SkipUncertain(w)
<1>1. w \in Worlds
  BY FitPlain
<1>2. n = IF skipped = {} THEN w ELSE Save(v)
  BY DEF SkipUncertain
<1>3. Revises(w, n)
  BY SkipUncertainFit
<1> HIDE DEF skipped, n
<1>4. \A t \in Keys : f[t] = w.tasks[t] \/ f[t] = "skipped"
  OBVIOUS
<1> HIDE DEF f
<1>5. v.tasks = f /\ v.recordOf = w.recordOf /\ v.capture = w.capture /\ v.posts = w.posts
      /\ DOMAIN v = DOMAIN w
  BY <1>1 DEF Worlds
<1> HIDE DEF v
<1>6. /\ Save(v).tasks = f /\ Save(v).recordOf = w.recordOf /\ Save(v).capture = w.capture
      /\ Save(v).posts = w.posts
  BY <1>1, <1>5 DEF Save, Worlds
<1>7. /\ n.recordOf = w.recordOf /\ n.capture = w.capture /\ n.posts = w.posts
      /\ \A t \in Keys : n.tasks[t] = w.tasks[t] \/ n.tasks[t] = "skipped"
  BY <1>2, <1>4, <1>6
<1>8. (Tallied(w) => Tallied(n)) /\ GoesNoFurther(w, n)
  BY <1>3, <1>7, RevisedStride DEF Drawn
<1>9. ASSUME NEW r, KeptIn(w, r) PROVE KeptIn(n, r)
  BY <1>7, <1>9 DEF KeptIn, JustReported
<1>10. \A r : KeptIn(w, r) => KeptIn(n, r)
  BY <1>9
<1> QED
  BY <1>8, <1>10 DEF n

(* The application ends: what is left is the session file. *)
LEMMA ClosedStride ==
  ASSUME NEW w, Neat(w, {}, FALSE), w.state # "idle"
  PROVE  /\ (Tallied(w) => Tallied(Closed(w)))
         /\ w.capture.phase = "idle" => \A r : KeptIn(w, r) => KeptIn(Closed(w), r)
<1> DEFINE n == Closed(w)
<1>1. w \in Worlds /\ w.disk.tasks = w.tasks /\ SameRounds(w, w.disk)
      /\ w.disk.recordOf = w.recordOf
  BY DEF Neat, Ordered, Filed
<1>2. /\ n.tasks = w.tasks /\ n.rounds = w.disk.rounds /\ n.recordOf = w.recordOf
      /\ n.state = "closed"
  BY <1>1, ClosedFields
<1> HIDE DEF n
<1>3. Shifted(w.rounds, n.rounds)
  BY <1>1, <1>2 DEF SameRounds, Shifted, Waiting
<1>4. ASSUME Tallied(w) PROVE Tallied(n)
  <2> DEFINE c == w.checked
             c2 == n.checked
  <2>1. Tally(w.rounds, w.state, c)
    BY <1>4 DEF Tallied
  <2> HIDE DEF c, c2
  <2>2. Tally(n.rounds, "closed", c2)
    BY <1>3, <2>1, TallyShifted
  <2> QED
    BY <1>2, <2>2 DEF Tallied, c2
<1>5. ASSUME w.capture.phase = "idle", NEW r, KeptIn(w, r) PROVE KeptIn(n, r)
  BY <1>2, <1>5 DEF KeptIn, JustReported
<1>6. w.capture.phase = "idle" => \A r : KeptIn(w, r) => KeptIn(n, r)
  BY <1>5
<1> QED
  BY <1>4, <1>6 DEF n

-----------------------------------------------------------------------------
(***************************************************************************)
(* The inductive invariant of the passes and of the recordings.            *)
(***************************************************************************)

(* The application does not end while a request of the collection is out. *)
QuietEnds == {"recording", "submit"} \cap CrashPoints = {}

(* After "Retry failed rows" only rows that were asked for wait. *)
RetryFine(w) ==
  wish = "retry" =>
    /\ "stop" \notin Commands
    /\ NeverCut => Lasts(w.rounds) /\ \A t \in Keys : w.tasks[t] \in Drawn => t \in asked

(* A listing of the sensor's files looks for every row that is uncertain. *)
Wanted(w) ==
  \A c \in Outstanding : checks[c].phase = "files" =>
    \A t \in UncertainKeys(w) : <<t, w.recordOf[t]>> \in checks[c].wanted

Regular(w) ==
  /\ Tallied(w) /\ RetryFine(w) /\ Wanted(w)
  /\ QuietEnds => KeptIn(w, recorded)
StrideInv == ConductInv /\ Regular(World)

(* No row is sent again that the sensor recorded, and in a retry none that was not asked for. *)
Prudent ==
  \A t \in Keys : posts'[t] # posts[t] =>
    /\ QuietEnds => recorded[t] = {}
    /\ NeverCut /\ wish = "retry" => t \in asked

LEMMA SameWanted ==
  ASSUME Wanted(World), UNCHANGED checks, Same(World, World')
  PROVE  Wanted(World)'
BY DEF Wanted, Outstanding, Same, UncertainKeys

LEMMA Strode ==
  ASSUME StrideInv, ConductInv', NEW n, World' = n, Strides(World, n), recorded' = recorded,
         wish' # "retry" \/ UNCHANGED <<wish, asked>>,
         Outstanding' = {} \/ (UNCHANGED checks /\ Same(World, n))
  PROVE  StrideInv' /\ Prudent
<1>1. /\ Tallied(World) /\ RetryFine(World) /\ Wanted(World)
      /\ QuietEnds => KeptIn(World, recorded)
  BY DEF StrideInv, Regular
<1>2. Tallied(n)
  BY <1>1 DEF Strides
<1>3. RetryFine(World)'
  BY <1>1 DEF RetryFine, Strides, GoesNoFurther, Draws
<1>4. Wanted(World)'
  <2>1. CASE Outstanding' = {}
    BY <2>1 DEF Wanted
  <2>2. CASE UNCHANGED checks /\ Same(World, n)
    BY <1>1, <2>2, SameWanted
  <2> QED
    BY <2>1, <2>2
<1>5. QuietEnds => KeptIn(n, recorded)
  BY <1>1, SparesKept DEF Strides
<1>6. StrideInv'
  BY <1>2, <1>3, <1>4, <1>5 DEF StrideInv, Regular, QuietEnds
<1>7. ASSUME NEW t \in Keys, posts'[t] # posts[t]
      PROVE  /\ QuietEnds => recorded[t] = {}
             /\ NeverCut /\ wish = "retry" => t \in asked
  <2>1. World.posts = posts /\ n.posts = posts'
    BY DEF World
  <2>2. World.tasks[t] \in Lax
    BY <1>7, <2>1 DEF Strides, Spares
  <2>3. QuietEnds => recorded[t] = {}
    BY <1>1, <2>2 DEF KeptIn, JustReported, Lax
  <2>4. NeverCut /\ wish = "retry" => t \in asked
    BY <1>1, <1>7, <2>1 DEF RetryFine, Strides, GoesNoFurther, Draws
  <2> QED
    BY <2>3, <2>4
<1> QED
  BY <1>6, <1>7 DEF Prudent

(* ... or the program notes how a request ended. *)
LEMMA Noted ==
  ASSUME StrideInv, ConductInv', NEW n, World' = n, posts' = posts,
         Tallied(World) => Tallied(n), GoesNoFurther(World, n), Outstanding' = {},
         KeptIn(World, recorded) => KeptIn(n, recorded), recorded' = recorded,
         UNCHANGED <<wish, asked>>
  PROVE  StrideInv' /\ Prudent
<1>1. /\ Tallied(World) /\ RetryFine(World) /\ Wanted(World)
      /\ QuietEnds => KeptIn(World, recorded)
  BY DEF StrideInv, Regular
<1>2. RetryFine(World)'
  BY <1>1 DEF RetryFine, GoesNoFurther, Draws
<1>3. Wanted(World)'
  BY DEF Wanted
<1> QED
  BY <1>1, <1>2, <1>3 DEF StrideInv, Regular, QuietEnds, Prudent

(* The answers of the workers, the timer and the capture. *)
LEMMA WorkersStride ==
  ASSUME StrideInv, ConductInv', NEW gate, NEW elapsed \in BOOLEAN, NEW idle \in BOOLEAN,
         NEW blocking \in BOOLEAN, NEW answer \in AllAnswers,
         \/ TimerTick(gate, elapsed)
         \/ PreflightAnswered(blocking, gate)
         \/ StorageSettleAnswered(gate)
         \/ IdleCheckAnswered(idle, answer, gate)
         \/ CaptureFinished(gate)
  PROVE  StrideInv' /\ Prudent
<1>1. Fit(World) /\ ConductInv /\ Plain(World)
  BY InvFit, FitPlain DEF StrideInv
<1>2. UNCHANGED <<recorded, wish, asked, checks>>
  BY DEF TimerTick, PreflightAnswered, StorageSettleAnswered, IdleCheckAnswered,
     CaptureFinished, outside, history
<1>3. World.state \in Going => Outstanding' = {}
  BY <1>1, <1>2, Quiet, ChecksStay DEF Going
<1>4. ASSUME NEW n, Fit(n), Become(n), Strides(World, n),
             World.state \notin Going => Same(World, n)
      PROVE  StrideInv' /\ Prudent
  <2>1. World' = n
    BY <1>4, Became
  <2> QED
    BY <1>2, <1>3, <1>4, <2>1, Strode
<1>5. CASE TimerTick(gate, elapsed)
  <2> DEFINE n == Tick(World, gate, elapsed)
  <2>1. /\ Fit(n) /\ Strides(World, n)
        /\ World.state \notin Going => n = World
    BY <1>1, TickFit, TickStride
  <2>2. Become(n)
    BY <1>5 DEF TimerTick
  <2> HIDE DEF n
  <2>3. World.state \notin Going => Same(World, n)
    BY <2>1 DEF Same
  <2> QED
    BY <1>4, <2>1, <2>2, <2>3
<1>6. CASE PreflightAnswered(blocking, gate)
  <2> DEFINE n == OnPreflight(World, blocking, gate)
  <2>1. World.preflightPending /\ Become(n)
    BY <1>6, Fields DEF PreflightAnswered
  <2>2. Fit(n) /\ Strides(World, n) /\ World.state \in Going
    BY <1>1, <2>1, OnPreflightFit, OnPreflightStride
  <2> HIDE DEF n
  <2> QED
    BY <1>4, <2>1, <2>2
<1>7. CASE StorageSettleAnswered(gate)
  <2> DEFINE n == OnStorageSettled(World, gate)
  <2>1. Become(n)
    BY <1>7 DEF StorageSettleAnswered
  <2>2. Fit(n) /\ Strides(World, n) /\ (World.state \notin Going => Same(World, n))
    BY <1>1, OnStorageSettledFit, OnStorageSettledStride
  <2> HIDE DEF n
  <2> QED
    BY <1>4, <2>1, <2>2
<1>8. CASE IdleCheckAnswered(idle, answer, gate)
  <2> DEFINE n == OnIdleResult(World, idle, answer, gate)
  <2>1. World.idleCheck # None /\ Become(n)
    BY <1>8, Fields DEF IdleCheckAnswered
  <2>2. Fit(n) /\ Strides(World, n) /\ (World.state \notin Going => Same(World, n))
    BY <1>1, <2>1, OnIdleResultFit, OnIdleResultStride
  <2> HIDE DEF n
  <2> QED
    BY <1>4, <2>1, <2>2
<1>9. CASE CaptureFinished(gate)
  <2> DEFINE n == OnCaptureFinished(World, gate)
  <2>1. World.capture.phase = "reported" /\ Become(n)
    BY <1>9, Fields DEF CaptureFinished
  <2>2. /\ Fit(n) /\ Obeys(World, n) /\ World.state \in Going
        /\ (Tallied(World) => Tallied(n)) /\ GoesNoFurther(World, n)
        /\ KeptIn(World, recorded) => KeptIn(n, recorded)
    BY <1>1, <2>1, OnCaptureFinishedFit, OnCaptureFinishedStride
  <2> HIDE DEF n
  <2>3. World' = n /\ posts' = posts
    BY <2>1, <2>2, Became, Fields DEF Obeys
  <2> QED
    BY <1>2, <1>3, <2>2, <2>3, Noted
<1> QED
  BY <1>5, <1>6, <1>7, <1>8, <1>9

(* The sensor receives the request, or the main window reports how the capture ended. *)
LEMMA SensorStride ==
  ASSUME StrideInv, ConductInv', NEW outcome, NEW file \in BOOLEAN,
         RequestReaches \/ CaptureReports(outcome, file)
  PROVE  StrideInv' /\ Prudent
<1> DEFINE k == capture.key
<1>1. /\ Tallied(World) /\ RetryFine(World) /\ Wanted(World)
      /\ QuietEnds => KeptIn(World, recorded)
      /\ World \in Worlds /\ Loose(World) /\ Ordered(World, {}, FALSE)
      /\ recorded \in [Keys -> SUBSET Nat]
  BY InvFit DEF StrideInv, Regular, ConductInv, OrderInv, IInv, Surroundings
<1>2. capture \in CaptureType
  BY <1>1 DEF World, Worlds
<1>3. /\ capture.phase \in {"sent", "reached"}
      /\ UNCHANGED <<session, attributes, history, checks, posts, checked>>
  BY DEF RequestReaches, CaptureReports
<1>4. /\ World.tasks[k] = "submitting" /\ k \in Keys
      /\ \A t \in Keys : World.tasks[t] = "submitting" => t = k
  <2>1. World.inFlight /\ k \in Keys /\ World.state \in Going
    BY <1>1, <1>3, Fields DEF Ordered, Flight
  <2> QED
    BY <1>1, <2>1, Fields DEF Loose, SentIsMarked, Ordered, Flight, Halted, Going
<1>5. /\ World'.rounds = World.rounds /\ World'.state = World.state
      /\ World'.checked = World.checked /\ World'.tasks = World.tasks
      /\ World'.recordOf = World.recordOf /\ World'.posts = World.posts
      /\ World'.capture = capture'
  BY <1>3 DEF World, session
<1>6. Tallied(World')
  BY <1>1, <1>5 DEF Tallied
<1>7. RetryFine(World)' /\ Wanted(World)'
  BY <1>1, <1>3, <1>5 DEF RetryFine, Wanted, Outstanding, UncertainKeys, history
<1>8. ASSUME KeptIn(World, recorded) PROVE KeptIn(World', recorded')
  <2>1. ASSUME NEW t \in Keys
        PROVE  \/ recorded[t] = {}
               \/ World.tasks[t] \in {"confirmed", "partial", "skipped"}
               \/ World.tasks[t] = "unknown" /\ World.recordOf[t] \in recorded[t]
    BY <1>3, <1>8, Fields DEF KeptIn, JustReported
  <2>2. CASE recorded' = recorded
    BY <1>5, <2>1, <2>2 DEF KeptIn
  <2>3. CASE CaptureReports(outcome, file) /\ file
    <3>1. /\ outcome \in {"confirmed", "partial", "unknown"}
          /\ capture' = [capture EXCEPT !.phase = "reported", !.outcome = outcome]
          /\ recorded' = [recorded EXCEPT ![k] = @ \cup {posts[k]}]
      BY <2>3 DEF CaptureReports, Confirmed
    <3>2. capture'.key = k /\ capture'.phase = "reported" /\ capture'.outcome = outcome
      BY <1>2, <3>1 DEF CaptureType
    <3>3. posts[k] \in recorded'[k] /\ \A t \in Keys : t # k => recorded'[t] = recorded[t]
      BY <1>1, <1>4, <3>1
    <3> HIDE DEF k
    <3>4. JustReported(World', recorded', k)
      BY <1>4, <1>5, <3>1, <3>2, <3>3, Fields DEF JustReported
    <3> QED
      BY <1>5, <2>1, <3>3, <3>4 DEF KeptIn
  <2>4. recorded' = recorded \/ (CaptureReports(outcome, file) /\ file)
    <3>1. RequestReaches => recorded' = recorded
      BY DEF RequestReaches
    <3>2. CaptureReports(outcome, file) /\ ~file => recorded' = recorded
      BY <1>1, <1>4 DEF CaptureReports
    <3> QED
      BY <3>1, <3>2
  <2> QED
    BY <2>2, <2>3, <2>4
<1>9. KeptIn(World', recorded') = KeptIn(World, recorded)'
  OBVIOUS
<1>10. StrideInv'
  BY <1>1, <1>6, <1>7, <1>8, <1>9 DEF StrideInv, Regular, QuietEnds
<1> QED
  BY <1>3, <1>10 DEF Prudent

-----------------------------------------------------------------------------
(* The operator's commands. *)
LEMMA OperatorStride ==
  ASSUME Orderly, StrideInv, ConductInv', NEW gate, NEW elapsed \in BOOLEAN,
         Start(gate, elapsed) \/ ResumeCommand(gate, elapsed) \/ PauseCommand \/ StopCommand
  PROVE  StrideInv' /\ Prudent
<1>1. Fit(World) /\ World \in Worlds /\ ConductInv
  BY InvFit DEF StrideInv
<1>2. UNCHANGED <<recorded, asked, checks>>
  BY DEF Start, ResumeCommand, PauseCommand, StopCommand, Command, outside
<1>3. ASSUME NEW n, Fit(n), Become(n), Strides(World, n),
             World.state \notin {"interrupted", "done"}, wish' # "retry"
      PROVE  StrideInv' /\ Prudent
  <2>1. World' = n /\ Outstanding' = {}
    BY <1>1, <1>2, <1>3, Became, Quiet, ChecksStay
  <2> QED
    BY <1>2, <1>3, <2>1, Strode
<1>4. CASE Start(gate, elapsed)
  <2> DEFINE n == StartSession(World, gate, elapsed)
  <2>1. World.state = "idle" /\ CanReserve /\ Become(n) /\ wish' = "go"
    BY <1>4, Fields DEF Start
  <2>2. Fit(n) /\ n.posts = World.posts
    BY <1>1, <2>1, StartSessionFit
  <2>3. Spares(World, n) /\ Tallied(n)
    BY <1>1, <2>1, StartSessionStride
  <2> HIDE DEF n
  <2>4. World' = n /\ posts' = posts /\ Outstanding' = {}
    BY <1>1, <1>2, <2>1, <2>2, Became, Fields, Quiet, ChecksStay
  <2>5. RetryFine(World)' /\ Wanted(World)'
    BY <2>1, <2>4 DEF RetryFine, Wanted
  <2>6. QuietEnds => KeptIn(n, recorded)
    BY <2>3, SparesKept DEF StrideInv, Regular
  <2> QED
    BY <1>2, <2>3, <2>4, <2>5, <2>6 DEF StrideInv, Regular, QuietEnds, Prudent
<1>5. CASE ResumeCommand(gate, elapsed)
  <2> DEFINE n == Resume(World, gate, elapsed)
  <2>1. /\ World.state \in {"paused", "paused_backlog", "pause_requested"}
        /\ Become(n) /\ wish' = "go"
    BY <1>5, Fields DEF ResumeCommand
  <2>2. Fit(n) /\ Strides(World, n)
    BY <1>1, <2>1, ResumeFit, ResumeStride
  <2> HIDE DEF n
  <2> QED
    BY <1>3, <2>1, <2>2
<1>6. CASE PauseCommand
  <2> DEFINE n == Pause(World)
  <2>1. World.state \in Willing /\ Become(n) /\ wish' = "halt"
    BY <1>6, Fields DEF PauseCommand, Willing, Command
  <2>2. Fit(n) /\ Strides(World, n)
    BY <1>1, <2>1, PauseFit, PauseStride
  <2> HIDE DEF n
  <2> QED
    BY <1>3, <2>1, <2>2 DEF Willing
<1>7. CASE StopCommand
  <2> DEFINE n == Stop(World)
  <2>1. World.state \in Going /\ Become(n)
    BY <1>1, <1>7 DEF StopCommand, Active, Going, Worlds
  <2>2. "stop" \in Commands /\ ~World.preflightPending /\ wish' = "halt"
    BY <1>7, Fields DEF StopCommand, Command, Orderly
  <2>3. Fit(n) /\ Strides(World, n)
    BY <1>1, <2>1, <2>2, StopFit, StopStride
  <2> HIDE DEF n
  <2> QED
    BY <1>3, <2>1, <2>2, <2>3 DEF Going
<1> QED
  BY <1>4, <1>5, <1>6, <1>7

(* "Retry failed rows" that is carried out, at once or when its file check ended. *)
LEMMA RetriedStride ==
  ASSUME StrideInv, ConductInv', NEW w, Fit(w), Revises(World, w),
         Tallied(World) => Tallied(w), GoesNoFurther(World, w),
         KeptIn(World, recorded) => KeptIn(w, recorded), w.state \in {"interrupted", "done"},
         w.checked, "stop" \notin Commands, Outstanding' = {}, recorded' = recorded,
         NEW i \in Rounds, NEW gate, NEW elapsed, Retried(w, i, gate, elapsed)
  PROVE  StrideInv' /\ Prudent
<1> DEFINE n == Retry(w, i, gate, elapsed)
<1>1. Tallied(w) /\ (QuietEnds => KeptIn(w, recorded))
  BY DEF StrideInv, Regular
<1>2. w.state = "done"
  BY DEF Fit, Conduct, Loose, Vouched, Halted
<1>3. Become(n)
  BY DEF Retried
<1>4. /\ RetryRefused(w, i) => n = w
      /\ ~RetryRefused(w, i) => Fit(n) /\ Renews(w, n)
  BY <1>2, RetryFit DEF Retry
<1>5. ~RetryRefused(w, i) =>
        /\ Spares(w, n) /\ Tallied(n)
        /\ NeverCut => /\ Lasts(n.rounds)
                       /\ \A t \in Keys : n.tasks[t] \in Drawn => t \in RetryableKeys(w, i)
  BY <1>1, <1>2, RetryStride
<1> HIDE DEF n
<1>6. CASE RetryRefused(w, i)
  <2>1. World' = w /\ posts' = w.posts /\ UNCHANGED <<wish, asked>>
    BY <1>3, <1>4, <1>6, Became DEF Retried
  <2>2. posts' = posts
    BY <2>1, Fields DEF Revises
  <2> QED
    BY <2>1, <2>2, Noted
<1>7. CASE ~RetryRefused(w, i)
  <2>1. wish' = "retry" /\ asked' = RetryableKeys(w, i)
    BY <1>2, <1>7 DEF Retried, AtRest
  <2>2. World' = n /\ posts' = n.posts /\ n.posts = w.posts
    BY <1>3, <1>4, <1>7, Became DEF Renews
  <2>3. posts' = posts
    BY <2>2, Fields DEF Revises
  <2>4. RetryFine(World)'
    BY <1>5, <1>7, <2>1, <2>2 DEF RetryFine
  <2>5. Wanted(World)'
    BY DEF Wanted
  <2>6. Spares(w, n)
    BY <1>5, <1>7
  <2>7. QuietEnds => KeptIn(n, recorded)
    BY <1>1, <2>6, SparesKept
  <2> QED
    BY <1>5, <1>7, <2>2, <2>3, <2>4, <2>5, <2>7 DEF StrideInv, Regular, QuietEnds, Prudent
<1> QED
  BY <1>6, <1>7

(* File checks, and the rows that are retried after one. *)
LEMMA AfterCheckStride ==
  ASSUME StrideInv, ConductInv', NEW w, Fit(w), Revises(World, w),
         Tallied(World) => Tallied(w), GoesNoFurther(World, w),
         KeptIn(World, recorded) => KeptIn(w, recorded), NEW c \in Outstanding, Clear(c),
         recorded' = recorded, NEW gate, NEW elapsed, AfterCheck(checks[c], w, gate, elapsed)
  PROVE  StrideInv' /\ Prudent
<1>1. ConductInv
  BY DEF StrideInv
<1>2. /\ Around(World) /\ World.state \in {"interrupted", "done"} /\ Outstanding' = {}
      /\ checks[c] \in CheckType
  BY <1>1, InvFit, CheckEnds DEF Around, OneCheck, Outstanding, ConductInv, OrderInv, IInv,
     Surroundings
<1>3. CASE checks[c].retry = 0
  <2>1. Become(w) /\ UNCHANGED <<wish, asked>>
    BY <1>3 DEF AfterCheck, history
  <2>2. World' = w /\ posts' = w.posts
    BY <2>1, Became
  <2>3. posts' = posts
    BY <2>2, Fields DEF Revises
  <2> QED
    BY <1>2, <2>1, <2>2, <2>3, Noted
<1>4. CASE checks[c].retry # 0
  <2>1. checks[c].retry \in Rounds
    BY <1>2, <1>4, SizeAssumption DEF CheckType, Rounds
  <2>2. w.checked
    BY <1>2, <1>4 DEF Around, OneCheck, Revises
  <2>3. "stop" \notin Commands
    BY <1>2, <1>4 DEF Around, OneCheck
  <2>4. w.state \in {"interrupted", "done"}
    BY <1>2 DEF Revises
  <2>5. Retried(w, checks[c].retry, gate, elapsed)
    BY <1>4 DEF AfterCheck
  <2> QED
    BY <1>2, <2>1, <2>2, <2>3, <2>4, <2>5, RetriedStride
<1> QED
  BY <1>3, <1>4

LEMMA SelfStride ==
  /\ Revises(World, World) /\ (Tallied(World) => Tallied(World)) /\ GoesNoFurther(World, World)
  /\ KeptIn(World, recorded) => KeptIn(World, recorded)
BY RevisesSelf, StrideSelf DEF Strides

LEMMA ChecksStride ==
  ASSUME StrideInv, ConductInv', NEW c \in 1 .. MaxChecks, NEW idle \in BOOLEAN, NEW gate,
         NEW elapsed \in BOOLEAN, NEW answer \in Confirmed \cup {"failed"},
         MissionListRead(c, idle, gate, elapsed) \/ FilesListed(c, answer, gate, elapsed)
  PROVE  StrideInv' /\ Prudent
<1>1. checks \in [1 .. MaxChecks -> CheckType] /\ Fit(World) /\ Around(World) /\ ConductInv
  BY InvFit DEF StrideInv, ConductInv, OrderInv, IInv, Surroundings
<1>2. recorded' = recorded
  BY DEF MissionListRead, FilesListed, outside
<1>3. c \in Outstanding /\ World.state \in {"interrupted", "done"}
  <2>1. checks[c].phase # "none"
    BY DEF MissionListRead, FilesListed
  <2> QED
    BY <1>1, <2>1 DEF Outstanding, NoCheck, Around, OneCheck
<1>4. CASE MissionListRead(c, idle, gate, elapsed)
  <2> DEFINE wanted == {<<t, recordOf[t]>> : t \in UncertainKeys(World)}
  <2>1. CASE idle /\ wanted # {}
    <3>1. /\ checks' = [checks EXCEPT ![c].phase = "files", ![c].wanted = wanted]
          /\ Become(World) /\ UNCHANGED <<wish, asked>>
      BY <1>4, <2>1 DEF MissionListRead, history
    <3>2. \A t \in UncertainKeys(World) : <<t, World.recordOf[t]>> \in wanted
      BY DEF World
    <3> HIDE DEF wanted
    <3>3. World' = World /\ posts' = posts
      BY <1>1, <3>1, Became, Fields
    <3>4. /\ checks'[c].wanted = wanted
          /\ \A d \in (1 .. MaxChecks) \ {c} : checks'[d] = checks[d]
      BY <1>1, <3>1 DEF CheckType
    <3>5. \A d \in Outstanding' : d = c
      BY <1>1, <1>3, <3>4 DEF Around, OneCheck, Outstanding
    <3>6. Wanted(World)'
      BY <3>2, <3>3, <3>4, <3>5 DEF Wanted
    <3>7. RetryFine(World)'
      BY <3>1, <3>3 DEF StrideInv, Regular, RetryFine
    <3> QED
      BY <1>2, <3>3, <3>6, <3>7 DEF StrideInv, Regular, QuietEnds, Prudent
  <2>2. CASE ~(idle /\ wanted # {})
    <3>1. Clear(c) /\ AfterCheck(checks[c], World, gate, elapsed)
      BY <1>4, <2>2 DEF MissionListRead
    <3> QED
      BY <1>1, <1>2, <1>3, <3>1, SelfStride, AfterCheckStride
  <2> QED
    BY <2>1, <2>2
<1>5. CASE FilesListed(c, answer, gate, elapsed)
  <2> DEFINE w == IF answer = "failed" THEN World
                  ELSE OnFilesChecked(World, checks[c].wanted, answer)
  <2>1. Clear(c) /\ AfterCheck(checks[c], w, gate, elapsed) /\ checks[c].phase = "files"
    BY <1>5 DEF FilesListed
  <2>2. \A t \in UncertainKeys(World) : <<t, World.recordOf[t]>> \in checks[c].wanted
    BY <1>3, <2>1 DEF StrideInv, Regular, Wanted
  <2>3. /\ Fit(w) /\ Revises(World, w) /\ (Tallied(World) => Tallied(w)) /\ GoesNoFurther(World, w)
        /\ KeptIn(World, recorded) => KeptIn(w, recorded)
    <3>1. CASE answer = "failed"
      BY <1>1, <3>1, SelfStride
    <3>2. CASE answer # "failed"
      <4> DEFINE q == checks[c].wanted
                 n == OnFilesChecked(World, q, answer)
      <4>1. answer \in Confirmed /\ w = n
        BY <3>2
      <4>2. Fit(n) /\ Revises(World, n)
        BY <1>1, <1>3, <4>1, OnFilesCheckedFit
      <4>3. /\ (Tallied(World) => Tallied(n)) /\ GoesNoFurther(World, n)
            /\ KeptIn(World, recorded) => KeptIn(n, recorded)
        BY <1>1, <1>3, <2>2, <4>1, OnFilesCheckedStride
      <4> HIDE DEF n, w
      <4> QED
        BY <4>1, <4>2, <4>3
    <3> QED
      BY <3>1, <3>2
  <2> HIDE DEF w
  <2> QED
    BY <1>2, <1>3, <2>1, <2>3, AfterCheckStride
<1> QED
  BY <1>4, <1>5

(* A file check begins; or rows are retried for which none is needed. *)
LEMMA CheckingStride ==
  ASSUME Orderly, StrideInv, ConductInv', NEW gate, NEW elapsed \in BOOLEAN,
         CheckWithSensor \/ RetryFailed(gate, elapsed)
  PROVE  StrideInv' /\ Prudent
<1>1. Fit(World) /\ World \in Worlds /\ Outstanding = {} /\ ConductInv
  BY InvFit, NoneOutstanding DEF CheckWithSensor, RetryFailed, StrideInv
<1>2. /\ recorded' = recorded
      /\ checks \in [1 .. MaxChecks -> CheckType]
  BY <1>1 DEF CheckWithSensor, RetryFailed, Command, outside, ConductInv, OrderInv, IInv,
     Surroundings
<1>3. ASSUME NEW i, BeginCheck(i), Become(World), UNCHANGED <<wish, asked>>
      PROVE  StrideInv' /\ Prudent
  <2>1. World' = World /\ posts' = posts
    BY <1>1, <1>3, Became, Fields
  <2>2. PICK c \in 1 .. MaxChecks :
          checks' = [checks EXCEPT ![c] = [NoCheck EXCEPT !.phase = "mission", !.retry = i]]
    BY <1>3 DEF BeginCheck
  <2> DEFINE job == [NoCheck EXCEPT !.phase = "mission", !.retry = i]
  <2>3. job.phase = "mission"
    BY DEF NoCheck
  <2> HIDE DEF job
  <2>4. /\ checks'[c] = job
        /\ \A d \in (1 .. MaxChecks) \ {c} : checks'[d] = checks[d]
    BY <1>2, <2>2 DEF job
  <2>5. \A d \in Outstanding' : checks'[d].phase # "files"
    BY <1>1, <2>3, <2>4 DEF Outstanding
  <2>6. Wanted(World)'
    BY <2>5 DEF Wanted
  <2>7. RetryFine(World)'
    BY <1>3, <2>1 DEF StrideInv, Regular, RetryFine
  <2> QED
    BY <1>2, <2>1, <2>6, <2>7 DEF StrideInv, Regular, QuietEnds, Prudent
<1>4. CASE CheckWithSensor
  BY <1>3, <1>4 DEF CheckWithSensor, Command
<1>5. CASE RetryFailed(gate, elapsed)
  <2> DEFINE k == LastRound(World)
  <2>1. k \in Rounds /\ ~Active(World) /\ state # "closed" /\ ~InPass(World)
    BY <1>1, <1>5, LastRoundType DEF RetryFailed, Up
  <2>2. World.checked /\ "stop" \notin Commands
    BY <1>5, Fields DEF RetryFailed, Orderly
  <2>3. World.state # "idle"
    <3>1. ASSUME World.state = "idle" PROVE FALSE
      <4>1. \A t \in Keys : World.tasks[t] = "none"
        BY <1>1, <3>1 DEF Fit, Conduct, Loose, RowsOfBegun
      <4>2. \A i \in Rounds : <<i, 1>> \in Keys
        BY SizeAssumption DEF Keys, Rows
      <4>3. k = 0
        BY <2>1, <4>1, <4>2 DEF LastRound
      <4> QED
        BY <2>1, <4>3 DEF Rounds
    <3> QED
      BY <3>1
  <2>4. World.state = "done"
    BY <1>1, <2>1, <2>2, <2>3, Fields DEF Fit, Conduct, Loose, Vouched, Halted, Active
  <2>5. CASE \E t \in UncertainKeys(World) : t[1] = k
    <3>1. BeginCheck(k) /\ Become(World) /\ UNCHANGED <<wish, asked>>
      BY <1>5, <2>5 DEF RetryFailed, history
    <3> HIDE DEF k
    <3> QED
      BY <1>3, <3>1
  <2>6. CASE ~ \E t \in UncertainKeys(World) : t[1] = k
    <3>1. Retried(World, k, gate, elapsed) /\ UNCHANGED checks
      BY <1>5, <2>6 DEF RetryFailed
    <3> HIDE DEF k
    <3>2. Outstanding' = {}
      BY <1>1, <3>1, ChecksStay
    <3> QED
      BY <1>1, <1>2, <2>1, <2>2, <2>4, <3>1, <3>2, SelfStride, RetriedStride
  <2> QED
    BY <2>5, <2>6
<1> QED
  BY <1>4, <1>5

(* Rows and passes are taken up again, or skipped. *)
LEMMA ContinuedStride ==
  ASSUME Orderly, StrideInv, ConductInv', NEW gate, NEW elapsed \in BOOLEAN,
         ContinueCommand(gate, elapsed)
  PROVE  StrideInv' /\ Prudent
<1> DEFINE n == Continue(World, gate, elapsed)
<1>1. Fit(World) /\ World \in Worlds
  BY InvFit DEF StrideInv
<1>2. /\ World.state = "interrupted" /\ CanContinue(World) /\ NoCheckRuns
      /\ UNCHANGED <<recorded, asked, checks>>
      /\ wish' = IF World.downloadsOnly THEN wish ELSE "go"
      /\ Become(Continue([World EXCEPT !.checked = FALSE], gate, elapsed))
  BY Fields DEF ContinueCommand, outside
<1>3. World.checked = FALSE
  <2>1. World.checked \in BOOLEAN
    BY <1>1 DEF Worlds
  <2>2. ~World.checked
    BY <1>1, <1>2 DEF Fit, Conduct, Loose, Vouched, Halted
  <2> QED
    BY <2>1, <2>2
<1>4. [World EXCEPT !.checked = FALSE] = World
  BY <1>1, <1>3 DEF Worlds
<1>5. Become(n)
  BY <1>2, <1>4
<1>6. Fit(n) /\ Strides(World, n)
  BY <1>1, <1>2, ContinueFit, ContinueStride
<1> HIDE DEF n
<1>7. World' = n /\ Outstanding' = {}
  BY <1>2, <1>5, <1>6, Became, NoneOutstanding, ChecksStay
<1>8. wish' # "retry" \/ UNCHANGED <<wish, asked>>
  BY <1>2
<1> QED
  BY <1>2, <1>6, <1>7, <1>8, Strode

LEMMA RunMissedAgainStride ==
  ASSUME Orderly, StrideInv, ConductInv', NEW i \in Rounds, NEW gate, NEW elapsed \in BOOLEAN,
         RunMissedCommand(i, gate, elapsed)
  PROVE  StrideInv' /\ Prudent
<1> DEFINE n == RunMissed(World, i, gate, elapsed)
<1>1. Fit(World)
  BY InvFit DEF StrideInv
<1>2. /\ World.rounds[i] = "missed" /\ World.state # "closed" /\ NoCheckRuns
      /\ World.state = "interrupted" => CanContinue(World)
      /\ World.state \in {"done", "idle"} => CanReserve
      /\ Become(n) /\ UNCHANGED <<recorded, asked, checks>>
      /\ wish' = IF World.state \in {"paused", "pause_requested", "stop_requested"}
                   THEN wish ELSE "go"
  BY Fields DEF RunMissedCommand, Command, Up, outside
<1>3. Fit(n) /\ Strides(World, n)
  BY <1>1, <1>2, RunMissedFit, RunMissedStride
<1> HIDE DEF n
<1>4. World' = n /\ Outstanding' = {}
  BY <1>2, <1>3, Became, NoneOutstanding, ChecksStay
<1>5. wish' # "retry" \/ UNCHANGED <<wish, asked>>
  BY <1>2
<1> QED
  BY <1>2, <1>3, <1>4, <1>5, Strode

LEMMA SkippedStride ==
  ASSUME Orderly, StrideInv, ConductInv', NEW i \in Rounds,
         SkipUncertainCommand \/ SkipMissedCommand(i)
  PROVE  StrideInv' /\ Prudent
<1>1. /\ Fit(World) /\ World \in Worlds /\ UNCHANGED <<recorded, wish, asked, checks>>
  BY InvFit DEF StrideInv, SkipUncertainCommand, SkipMissedCommand, Command, outside
<1>2. CASE SkipUncertainCommand
  <2> DEFINE n == SkipUncertain(World)
  <2>1. World.state = "interrupted" /\ NoCheckRuns /\ Become(n)
    BY <1>2, Fields DEF SkipUncertainCommand
  <2>2. Fit(n) /\ Revises(World, n)
    BY <1>1, <2>1, SkipUncertainFit
  <2>3. /\ (Tallied(World) => Tallied(n)) /\ GoesNoFurther(World, n)
        /\ KeptIn(World, recorded) => KeptIn(n, recorded)
    BY <1>1, <2>1, SkipUncertainStride
  <2> HIDE DEF n
  <2>4. World' = n /\ posts' = posts /\ Outstanding' = {}
    BY <1>1, <2>1, <2>2, Became, Fields, NoneOutstanding, ChecksStay DEF Revises
  <2> QED
    BY <1>1, <2>3, <2>4, Noted
<1>3. CASE SkipMissedCommand(i)
  <2> DEFINE n == SkipMissed(World, i)
  <2>1. /\ World.rounds[i] = "missed" /\ World.state # "closed" /\ Become(n)
        /\ "skip_missed" \in Commands
    BY <1>3, Fields DEF SkipMissedCommand, Command, Up
  <2>2. Fit(n) /\ Strides(World, n) /\ Same(World, n)
    BY <1>1, <2>1, SkipMissedFit, SkipMissedStride
  <2> HIDE DEF n
  <2>3. World' = n
    BY <2>1, <2>2, Became
  <2> QED
    BY <1>1, <2>2, <2>3, Strode
<1> QED
  BY <1>2, <1>3

(* The application ends and starts again. *)
LEMMA EndStride ==
  ASSUME StrideInv, ConductInv', NEW arrives \in BOOLEAN, NEW file \in BOOLEAN,
         Close(arrives, file) \/ CrashInSubmit(arrives, file)
  PROVE  StrideInv' /\ Prudent
<1>1. /\ Neat(World, {}, FALSE) /\ World \in Worlds /\ ConductInv
      /\ Tallied(World) /\ RetryFine(World) /\ (QuietEnds => KeptIn(World, recorded))
  BY InvFit DEF StrideInv, Regular, Fit
<1>2. wish' = "halt" /\ Outstanding' = {}
  BY DEF Close, CrashInSubmit, Ended, Outstanding
<1>3. ASSUME NEW n, World' = n, Tallied(n), QuietEnds => KeptIn(n, recorded')
      PROVE  StrideInv'
  <2>1. RetryFine(World)' /\ Wanted(World)'
    BY <1>2 DEF RetryFine, Wanted
  <2> QED
    BY <1>3, <2>1 DEF StrideInv, Regular, QuietEnds
<1>4. CASE Close(arrives, file)
  <2> DEFINE n == Closed(World)
  <2>1. /\ Become(n) /\ World.state # "idle"
        /\ QuietEnds => ~World.inFlight
        /\ LeftBehind(capture.key, capture.phase, arrives, file)
    BY <1>4, Fields DEF Close, QuietEnds
  <2>2. /\ Tallied(World) => Tallied(n)
        /\ World.capture.phase = "idle" => \A r : KeptIn(World, r) => KeptIn(n, r)
    BY <1>1, <2>1, ClosedStride
  <2>3. Fit(n) /\ n.posts = World.posts
    <3>1. RowsOfBegun(World) /\ SameRounds(World, World.disk)
      BY <1>1, InvFit DEF Fit, Neat, Conduct, Loose, Filed
    <3> QED
      BY <1>1, <3>1, ClosedFit, ClosedFields, ClosedMore
  <2> HIDE DEF n
  <2>4. World' = n /\ posts' = posts
    BY <2>1, <2>3, Became, Fields
  <2>5. QuietEnds => World.capture.phase = "idle"
    BY <1>1, <2>1 DEF Neat, Ordered, Flight
  <2>6. QuietEnds => recorded' = recorded
    BY <2>1, <2>5, Fields DEF LeftBehind
  <2>7. QuietEnds => KeptIn(n, recorded')
    BY <1>1, <2>2, <2>5, <2>6
  <2> QED
    BY <1>1, <1>3, <2>2, <2>4, <2>7 DEF Prudent
<1>5. CASE CrashInSubmit(arrives, file)
  <2> DEFINE k == idleCheck
             more == [World.posts EXCEPT ![k] = @ + 1]
             w == [World EXCEPT !.posts = more]
             n == Closed(w)
  <2>1. /\ k \in Keys /\ Become(Closed([World EXCEPT !.posts[k] = @ + 1]))
        /\ ~QuietEnds /\ World.state = "running" /\ World.tasks[k] = "queued"
    <3>1. /\ k # None /\ Become(Closed([World EXCEPT !.posts[k] = @ + 1]))
          /\ ~QuietEnds /\ World.state = "running" /\ tasks[k] = "queued"
      BY <1>5, Fields DEF CrashInSubmit, QuietEnds
    <3>2. k \in Keys
      BY <1>1, <3>1, Fields DEF Worlds
    <3> QED
      BY <3>1, <3>2 DEF World
  <2>2. more \in [Keys -> Nat] /\ [World EXCEPT !.posts[k] = @ + 1] = w
    BY <1>1, <2>1 DEF Worlds
  <2>3. \A t \in Keys : more[t] # World.posts[t] => t = k
    BY <1>1 DEF Worlds
  <2> HIDE DEF more, k
  <2>4. /\ w \in Worlds /\ w.tasks = World.tasks /\ w.rounds = World.rounds
        /\ w.current = World.current /\ w.capture = World.capture
        /\ w.inFlight = World.inFlight /\ w.downloadsOnly = World.downloadsOnly
        /\ w.preflightPending = World.preflightPending /\ w.state = World.state
        /\ w.disk = World.disk /\ w.attempts = World.attempts /\ w.recordOf = World.recordOf
        /\ w.checked = World.checked /\ w.posts = more
    BY <1>1, <2>2 DEF Worlds
  <2> HIDE DEF w
  <2>5. Neat(w, {}, FALSE)
    BY <1>1, <2>4, Aside DEF Neat
  <2>6. Tallied(n)
    <3>1. Tallied(w)
      BY <1>1, <2>4 DEF Tallied
    <3> QED
      BY <2>1, <2>4, <2>5, <3>1, ClosedStride
  <2>7. Fit(n) /\ n.posts = more
    <3>1. RowsOfBegun(w) /\ SameRounds(w, w.disk)
      BY <1>1, <2>4, <2>5, InvFit DEF Fit, Neat, Conduct, Loose, Filed, RowsOfBegun
    <3> QED
      BY <2>4, <2>5, <3>1, ClosedFit, ClosedFields, ClosedMore
  <2>8. Become(n)
    BY <2>1, <2>2
  <2> HIDE DEF n
  <2>9. World' = n /\ posts' = more
    BY <2>7, <2>8, Became
  <2>10. Prudent
    BY <1>1, <2>1, <2>3, <2>9, Fields DEF Prudent, RetryFine, Drawn
  <2> QED
    BY <1>3, <2>1, <2>6, <2>9, <2>10
<1> QED
  BY <1>4, <1>5

LEMMA RestartStride ==
  ASSUME StrideInv, ConductInv', NEW unfinished \in BOOLEAN, Restart(unfinished)
  PROVE  StrideInv' /\ Prudent
<1> DEFINE n == Loaded(World, unfinished)
<1>1. World.state = "closed" /\ Become(n) /\ UNCHANGED <<recorded, wish, asked, checks>>
  BY Fields DEF Restart, outside, history
<1>2. Fit(n) /\ Strides(World, n) /\ Same(World, n)
  BY <1>1, InvFit, LoadedFit, LoadedStride DEF StrideInv
<1> HIDE DEF n
<1>3. World' = n
  BY <1>1, <1>2, Became
<1> QED
  BY <1>1, <1>2, <1>3, Strode

(* The world outside: a manual recording begins or ends, a pass's time comes, or nothing. *)
LEMMA OutsideStride ==
  ASSUME StrideInv, ConductInv', NEW i \in Rounds,
         ManualRecording \/ TimePasses(i) \/ UNCHANGED vars
  PROVE  StrideInv' /\ Prudent
<1>1. World' = World
  <2>1. CASE ManualRecording \/ TimePasses(i)
    BY <2>1, InvFit, Became DEF StrideInv, ManualRecording, TimePasses
  <2>2. CASE UNCHANGED vars
    BY <2>2 DEF vars, World
  <2> QED
    BY <2>1, <2>2
<1>2. UNCHANGED <<recorded, wish, asked, checks>>
  BY DEF ManualRecording, TimePasses, history, vars
<1> QED
  BY <1>1, <1>2, StrideSelf, Strode DEF Same

-----------------------------------------------------------------------------
LEMMA InitStride == Init => StrideInv
<1> SUFFICES ASSUME Init PROVE StrideInv
  OBVIOUS
<1>1. ConductInv
  BY InitConduct
<1>2. /\ World.state = "idle" /\ World.rounds = [i \in Rounds |-> "none"]
      /\ recorded = [t \in Keys |-> {}]
  BY DEF Init, World, NoSession
<1>3. wish = "halt" /\ Outstanding = {}
  BY DEF Init, Outstanding
<1>4. Tallied(World)
  BY <1>2, TallyNone DEF Tallied
<1>5. RetryFine(World) /\ Wanted(World) /\ KeptIn(World, recorded)
  BY <1>2, <1>3 DEF RetryFine, Wanted, KeptIn
<1> QED
  BY <1>1, <1>4, <1>5 DEF StrideInv, Regular

LEMMA NextStride ==
  ASSUME Orderly
  PROVE  StrideInv /\ [Next]_vars => StrideInv' /\ Prudent
<1> SUFFICES ASSUME StrideInv, [Next]_vars PROVE StrideInv' /\ Prudent
  OBVIOUS
<1>0. ConductInv'
  BY NextConduct DEF StrideInv
<1>1. Answers \subseteq AllAnswers /\ 1 \in Rounds
  BY ChoiceAssumption, SizeAssumption DEF Rounds
<1>2. ASSUME NEW gate \in Gates, NEW elapsed \in BOOLEAN, TimerTick(gate, elapsed)
      PROVE  StrideInv' /\ Prudent
  BY <1>0, <1>2, WorkersStride DEF AllAnswers
<1>3. ASSUME NEW gate \in Gates, NEW blocking \in BOOLEAN, PreflightAnswered(blocking, gate)
      PROVE  StrideInv' /\ Prudent
  BY <1>0, <1>3, WorkersStride DEF AllAnswers
<1>4. ASSUME NEW gate \in Gates, StorageSettleAnswered(gate) \/ CaptureFinished(gate)
      PROVE  StrideInv' /\ Prudent
  BY <1>0, <1>4, WorkersStride DEF AllAnswers
<1>5. ASSUME NEW gate \in Gates, NEW idle \in BOOLEAN, NEW answer \in Answers,
             IdleCheckAnswered(idle, answer, gate)
      PROVE  StrideInv' /\ Prudent
  BY <1>0, <1>1, <1>5, WorkersStride
<1>6. ASSUME NEW gate \in Gates, NEW elapsed \in BOOLEAN, NEW c \in 1 .. MaxChecks,
             NEW idle \in BOOLEAN, MissionListRead(c, idle, gate, elapsed)
      PROVE  StrideInv' /\ Prudent
  BY <1>0, <1>6, ChecksStride
<1>7. ASSUME NEW gate \in Gates, NEW elapsed \in BOOLEAN, NEW c \in 1 .. MaxChecks,
             NEW answer \in (Outcomes \cap Confirmed) \cup {"failed"},
             FilesListed(c, answer, gate, elapsed)
      PROVE  StrideInv' /\ Prudent
  BY <1>0, <1>7, ChecksStride
<1>8. ASSUME NEW gate \in Gates, NEW elapsed \in BOOLEAN,
             Start(gate, elapsed) \/ ResumeCommand(gate, elapsed)
      PROVE  StrideInv' /\ Prudent
  BY <1>0, <1>8, OperatorStride
<1>9. PauseCommand \/ StopCommand => StrideInv' /\ Prudent
  BY <1>0, OperatorStride
<1>10. ASSUME NEW gate \in Gates, NEW elapsed \in BOOLEAN, RetryFailed(gate, elapsed)
       PROVE  StrideInv' /\ Prudent
  BY <1>0, <1>10, CheckingStride
<1>11. ASSUME NEW gate \in Gates, NEW elapsed \in BOOLEAN, ContinueCommand(gate, elapsed)
       PROVE  StrideInv' /\ Prudent
  BY <1>0, <1>11, ContinuedStride
<1>12. ASSUME NEW gate \in Gates, NEW elapsed \in BOOLEAN, NEW i \in Rounds,
              RunMissedCommand(i, gate, elapsed)
       PROVE  StrideInv' /\ Prudent
  BY <1>0, <1>12, RunMissedAgainStride
<1>13. CheckWithSensor => StrideInv' /\ Prudent
  BY <1>0, CheckingStride
<1>14. ASSUME NEW i \in Rounds, SkipMissedCommand(i) \/ SkipUncertainCommand
       PROVE  StrideInv' /\ Prudent
  BY <1>0, <1>14, SkippedStride
<1>15. ASSUME RequestReaches PROVE StrideInv' /\ Prudent
  BY <1>0, <1>15, SensorStride
<1>16. ASSUME NEW outcome \in Outcomes, NEW file \in BOOLEAN, CaptureReports(outcome, file)
       PROVE  StrideInv' /\ Prudent
  BY <1>0, <1>16, SensorStride
<1>17. ASSUME NEW arrives \in BOOLEAN, NEW file \in BOOLEAN,
              Close(arrives, file) \/ CrashInSubmit(arrives, file)
       PROVE  StrideInv' /\ Prudent
  BY <1>0, <1>17, EndStride
<1>18. ASSUME NEW unfinished \in BOOLEAN, Restart(unfinished) PROVE StrideInv' /\ Prudent
  BY <1>0, <1>18, RestartStride
<1>19. ASSUME NEW i \in Rounds, ManualRecording \/ TimePasses(i) \/ UNCHANGED vars
       PROVE  StrideInv' /\ Prudent
  BY <1>0, <1>19, OutsideStride
<1>20. Terminating => UNCHANGED vars
  BY DEF Terminating
<1> QED
  BY <1>1, <1>2, <1>3, <1>4, <1>5, <1>6, <1>7, <1>8, <1>9, <1>10, <1>11, <1>12, <1>13, <1>14,
     <1>15, <1>16, <1>17, <1>18, <1>19, <1>20 DEF Next

LEMMA AlwaysStride ==
  ASSUME Orderly
  PROVE  Spec => []StrideInv
<1>1. Init => StrideInv
  BY InitStride
<1>2. StrideInv /\ [Next]_vars => StrideInv'
  BY NextStride
<1> QED
  BY <1>1, <1>2, PTL DEF Spec

(* A run-now collection with a repeat count begins no more passes than that, whatever fails, is
   paused, continued or taken up again after a restart.                                        *)
THEOREM RepeatKept ==
  ASSUME Orderly
  PROVE  Spec => []RepeatHonoured
<1>1. StrideInv => RepeatHonoured
  <2> SUFFICES ASSUME StrideInv, Mode = "now", Repeat > 0
               PROVE  Cardinality({i \in Rounds : tasks[<<i, 1>>] # "none"}) <= Repeat
    BY DEF RepeatHonoured
  <2> DEFINE begun == {i \in Rounds : tasks[<<i, 1>>] # "none"}
  <2>1. RowsOfBegun(World) /\ Bounded(rounds) /\ World.tasks = tasks /\ World.rounds = rounds
    BY InvFit DEF StrideInv, Regular, Tallied, Tally, Fit, Conduct, Loose, World
  <2>2. 1 \in Rows
    BY SizeAssumption DEF Rows
  <2>3. begun \subseteq Known(rounds)
    BY <2>1, <2>2 DEF RowsOfBegun, Known, Vacant, Keys
  <2> HIDE DEF begun
  <2>4. Cardinality(begun) <= Repeat
    BY <2>1, <2>3, BegunBounded
  <2> QED
    BY <2>4 DEF begun
<1> QED
  BY <1>1, AlwaysStride, PTL

(* A row that a file check says has no file on the sensor, and that may be retried for it, has
   no recording there, however many requests it took.                                         *)
THEOREM FilesFound ==
  ASSUME Orderly, QuietEnds
  PROVE  Spec => []NoFileMeansNoRecording
<1>1. StrideInv => NoFileMeansNoRecording
  BY DEF StrideInv, Regular, KeptIn, JustReported, NoFileMeansNoRecording, World
<1> QED
  BY <1>1, AlwaysStride, PTL

(* A row of which the sensor holds a recording is never sent again, and "Retry failed rows"
   sends the rows it was asked for and no other.                                          *)
THEOREM RetrySafe ==
  ASSUME Orderly, QuietEnds, Mode = "now" => "skip_missed" \notin Commands
  PROVE  Spec => RetryIsSafe
<1>1. StrideInv /\ [Next]_vars =>
        [\A t \in Keys : posts'[t] # posts[t] => recorded[t] = {}]_vars
  BY NextStride DEF Prudent
<1>2. StrideInv /\ [Next]_vars =>
        [\A t \in Keys : posts'[t] # posts[t] /\ wish = "retry" => t \in asked]_vars
  <2> SUFFICES ASSUME StrideInv, [Next]_vars, NEW t \in Keys, posts'[t] # posts[t], wish = "retry"
               PROVE  t \in asked
    OBVIOUS
  <2>1. NeverCut
    BY DEF StrideInv, Regular, RetryFine, NeverCut
  <2> QED
    BY <2>1, NextStride DEF Prudent
<1> QED
  BY <1>1, <1>2, AlwaysStride, PTL
     DEF Spec, RetryIsSafe, RecordedRowNotSentAgain, RetrySendsOnlyFailedRows
=============================================================================
