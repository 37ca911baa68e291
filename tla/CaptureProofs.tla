----------------------------- MODULE CaptureProofs -----------------------------
(***************************************************************************)
(* Theorems about the recordings of the main window (CaptureWindow), for   *)
(* any files, listings, signals, ends of the request and of the stream,    *)
(* and any number of recordings:                                           *)
(*                                                                         *)
(*   ConfirmedWhole   a confirmed recording is whole, and the sensor has   *)
(*                    one user at a time;                                  *)
(*   CapturesSafe     all that is reported is true of the sensor;          *)
(*   OneAfterAnother  no recording starts before the one before it is      *)
(*                    reported, nor after Pause or Stop;                   *)
(*   TurnsTaken       besides, none is cut off while it is written.        *)
(***************************************************************************)
EXTENDS CaptureWindow, TLAPS

(* A request that a reset cut off did not reach the sensor. *)
ResetsAreEarly == "reset" \notin Outcomes

NoStream == {"not sent", "rejected", "no reply", "reset"}
Over == Ended \cup {"sensor error"} \cup NoStream
Events == {"part", "finished", "error"}
Running(s) == s.st \in {"posting", "open"}

(* What the stream's thread tells: its parts in any order, the end of the mission once and after
   them, and last of all how it ended itself.  fin is what the window has heard of the end.       *)
Orderly(m, s, fin) ==
  \A i \in 1 .. Len(m) :
    /\ m[i].kind \in Over => i = Len(m) /\ ~Running(s)
    /\ m[i].kind \in Events => ~fin /\ \A j \in 1 .. i - 1 : m[j].kind # "finished"
    /\ m[i].kind = "part" => m[i].file \in s.parts
    /\ m[i].kind = "finished" => s.finished
    /\ m[i].kind \in NoStream => s.parts = {} /\ ~s.finished

(* Of the files the sensor has named, those the window does not know of are in the mail. *)
Heard(m, s, n) ==
  /\ n \subseteq s.parts
  /\ \A p \in s.parts \ n : \E i \in 1 .. Len(m) : m[i].kind = "part" /\ m[i].file = p

Mailbox ==
  /\ Orderly(mail, stream, finished)
  /\ Heard(mail, stream, named)
  /\ finished => stream.finished
  /\ ~http => mail = <<>> /\ ~Running(stream)

(* The sensor works for the stream. *)
Radio ==
  /\ radio # "off" => stream.st = "open"
  /\ radio = "on" => ~stream.finished
  /\ stream.st = "posting" => stream.parts = {} /\ ~stream.finished
  /\ \A p \in Parts : disk[p] = "open" => stream.st = "open" /\ p \in stream.parts

(* A recording is made, watched or read until it is reported, and one of them only. *)
Stages ==
  /\ ~reported <=> active \/ watching \/ measuring
  /\ ~(active /\ watching) /\ ~(active /\ measuring) /\ ~(watching /\ measuring)
  /\ request # "none" <=> ~reported
  /\ listing = "current" => watching
  /\ Running(stream) => client /\ ~reported
  /\ http /\ ~reported => client
  /\ measuring \/ reported => finished \/ ~http

(* A series goes on between its recordings in one way at a time. *)
SeriesInv ==
  /\ series.on => owner = "none"
  /\ queued => series.on /\ reported /\ ~waiting /\ ~series.paused
  /\ waiting => series.on /\ reported /\ ~series.pause /\ ~series.paused
  /\ series.paused => series.on /\ reported /\ ~series.pause

(* What is known of the files when the headers are read. *)
Watched ==
  measuring =>
    /\ named # {} => Final(watch) \cap Neighbour = {}
    /\ finished => quiet = 2 \/ named \subseteq Final(watch)

(* What was said of a request that was not sent, and what may still be. *)
Unsent ==
  /\ \A i \in 1 .. Len(mail) :
       (mail[i].kind = "not sent" => ~got) /\ (mail[i].kind = "reset" => ~ResetsAreEarly)
  /\ ResetsAreEarly => NotSentIsTrue

(* The type invariant in parts. *)
FlagTypes ==
  /\ active \in BOOLEAN /\ http \in BOOLEAN /\ client \in BOOLEAN /\ watching \in BOOLEAN /\ measuring \in BOOLEAN
  /\ finished \in BOOLEAN /\ error \in BOOLEAN /\ lost \in BOOLEAN
  /\ waiting \in BOOLEAN /\ queued \in BOOLEAN /\ got \in BOOLEAN /\ reported \in BOOLEAN
WordTypes ==
  /\ phase \in Phases /\ pin \in {"none", "own", "neighbour"} /\ listing \in {"none", "current", "stale"}
  /\ owner \in {"none", "collection"} /\ request \in {"none", "manual", "external"}
  /\ radio \in {"off", "on", "done"}
  /\ outcome \in {"none", "confirmed", "partial", "unknown", "failed", "not sent", "rejected"}
FileTypes ==
  /\ named \subseteq Parts /\ fresh \subseteq Files
  /\ watch \in [Files -> {"unseen", "empty", "seen", "final"}]
  /\ disk \in [Files -> {"absent", "open", "full", "short"}]
CountTypes == quiet \in 0 .. 2 /\ since \in 0 .. 2 /\ captures \in 0 .. Captures /\ faults \in 0 .. Faults
StreamType == [st : {"none", "posting", "open", "ended"}, parts : SUBSET Parts, finished : BOOLEAN, error : BOOLEAN]
SeriesType == [on : BOOLEAN, left : Nat, stop : BOOLEAN, pause : BOOLEAN, paused : BOOLEAN]
Types ==
  /\ FlagTypes /\ WordTypes /\ FileTypes /\ CountTypes
  /\ series \in SeriesType /\ mail \in Seq(Signals) /\ stream \in StreamType

CaptureInv ==
  /\ Types /\ Mailbox /\ Radio /\ Stages /\ SeriesInv /\ Watched /\ Unsent
  /\ ConfirmedIsWhole /\ OneUserAtATime

-----------------------------------------------------------------------------
LEMMA Typed == Types => TypeOK
BY Zenon DEF TypeOK, Types, FlagTypes, WordTypes, FileTypes, CountTypes, SeriesType, StreamType

LEMMA Typings ==
  CaptureInv => /\ FlagTypes /\ WordTypes /\ FileTypes /\ CountTypes
                /\ series \in SeriesType /\ mail \in Seq(Signals) /\ stream \in StreamType
BY Zenon DEF CaptureInv, Types

LEMMA Amounts == Captures \in Nat /\ Faults \in Nat /\ Rounds \subseteq Nat
BY Zenon, CaptureAssumption

LEMMA Apart == Parts \cap Neighbour = {}
BY Zenon, CaptureAssumption

(* The oldest signal and those behind it. *)
LEMMA Taken ==
  ASSUME NEW m \in Seq(Signals), m # <<>>
  PROVE  /\ Tail(m) \in Seq(Signals) /\ Head(m) \in Signals
         /\ Len(m) \in Nat \ {0} /\ Head(m) = m[1] /\ Len(Tail(m)) = Len(m) - 1
         /\ \A i \in 1 .. Len(m) - 1 : Tail(m)[i] = m[i + 1]
<1>1. Len(m) \in Nat \ {0} /\ Head(m) = m[1] /\ Head(m) \in Signals
  OBVIOUS
<1>2. Tail(m) \in Seq(Signals) /\ Len(Tail(m)) = Len(m) - 1 /\ \A i \in 1 .. Len(m) - 1 : Tail(m)[i] = m[i + 1]
  OBVIOUS
<1> QED
  BY <1>1, <1>2

LEMMA TailOf ==
  ASSUME NEW m \in Seq(Signals), m # <<>>
  PROVE  \A i \in 1 .. Len(Tail(m)) : \E j \in 1 .. Len(m) : Tail(m)[i] = m[j]
<1> DEFINE t == Tail(m)
<1>1. Len(m) \in Nat \ {0} /\ Len(t) = Len(m) - 1 /\ \A i \in 1 .. Len(m) - 1 : t[i] = m[i + 1]
  BY Taken
<1> HIDE DEF t
<1> SUFFICES ASSUME NEW i \in 1 .. Len(t) PROVE \E j \in 1 .. Len(m) : t[i] = m[j]
  BY DEF t
<1>2. i + 1 \in 1 .. Len(m) /\ t[i] = m[i + 1]
  BY <1>1
<1> QED
  BY <1>2

(* One more signal. *)
LEMMA Sent ==
  ASSUME NEW m \in Seq(Signals), NEW x \in Signals
  PROVE  /\ Append(m, x) \in Seq(Signals) /\ Append(m, x) # m
         /\ Len(m) \in Nat /\ Len(Append(m, x)) = Len(m) + 1 /\ Append(m, x)[Len(m) + 1] = x
         /\ \A i \in 1 .. Len(m) : Append(m, x)[i] = m[i]
<1>1. /\ Append(m, x) \in Seq(Signals) /\ Len(m) \in Nat /\ Len(Append(m, x)) = Len(m) + 1
      /\ Append(m, x)[Len(m) + 1] = x /\ \A i \in 1 .. Len(m) : Append(m, x)[i] = m[i]
  OBVIOUS
<1>2. Append(m, x) # m
  BY <1>1
<1> QED
  BY <1>1, <1>2

LEMMA Kinds ==
  ASSUME NEW x \in Signals
  PROVE  /\ x.kind \in Over \cup Events
         /\ x.kind = "part" => x.file \in Parts
         /\ x.kind \in Over <=> x.kind \notin Events
BY DEF Signals, Over, Events, Ended, NoStream

(* The mail stays in order when its oldest signal is handled, ... *)
LEMMA OrderlyTail ==
  ASSUME NEW m \in Seq(Signals), m # <<>>, NEW s, NEW fin, Orderly(m, s, fin)
  PROVE  Orderly(Tail(m), s, fin)
<1> DEFINE t == Tail(m)
<1>1. Len(m) \in Nat \ {0} /\ Len(t) = Len(m) - 1 /\ \A i \in 1 .. Len(m) - 1 : t[i] = m[i + 1]
  BY Taken
<1> HIDE DEF t
<1> SUFFICES ASSUME NEW i \in 1 .. Len(t)
             PROVE  /\ t[i].kind \in Over => i = Len(t) /\ ~Running(s)
                    /\ t[i].kind \in Events => ~fin /\ \A j \in 1 .. i - 1 : t[j].kind # "finished"
                    /\ t[i].kind = "part" => t[i].file \in s.parts
                    /\ t[i].kind = "finished" => s.finished
                    /\ t[i].kind \in NoStream => s.parts = {} /\ ~s.finished
  BY DEF Orderly, t
<1>2. i + 1 \in 1 .. Len(m) /\ t[i] = m[i + 1]
  BY <1>1
<1>3. /\ t[i].kind \in Over => i + 1 = Len(m) /\ ~Running(s)
      /\ t[i].kind \in Events => ~fin /\ \A j \in 1 .. i : m[j].kind # "finished"
      /\ t[i].kind = "part" => t[i].file \in s.parts
      /\ t[i].kind = "finished" => s.finished
      /\ t[i].kind \in NoStream => s.parts = {} /\ ~s.finished
  <2> HIDE DEF Running, Over, Events, NoStream
  <2>1. (i + 1) - 1 = i
    OBVIOUS
  <2> QED
    BY <1>2, <2>1 DEF Orderly
<1>4. \A j \in 1 .. i - 1 : j + 1 \in 1 .. i /\ t[j] = m[j + 1]
  BY <1>1
<1>5. i + 1 = Len(m) => i = Len(t)
  BY <1>1
<1> QED
  BY <1>3, <1>4, <1>5

(* ... which is the end of the mission once, with no file or error after it, ... *)
LEMMA OrderlyFinish ==
  ASSUME NEW m \in Seq(Signals), m # <<>>, NEW s, NEW fin, Orderly(m, s, fin), Head(m).kind = "finished"
  PROVE  Orderly(Tail(m), s, TRUE)
<1> DEFINE t == Tail(m)
<1>1. Len(m) \in Nat \ {0} /\ Len(t) = Len(m) - 1 /\ (\A i \in 1 .. Len(m) - 1 : t[i] = m[i + 1]) /\ m[1].kind = "finished"
  BY Taken
<1>2. Orderly(t, s, fin)
  BY OrderlyTail
<1> HIDE DEF t
<1>3. \A i \in 1 .. Len(t) : t[i].kind \notin Events
  <2> SUFFICES ASSUME NEW i \in 1 .. Len(t), t[i].kind \in Events PROVE FALSE
    OBVIOUS
  <2>1. i + 1 \in 1 .. Len(m) /\ t[i] = m[i + 1] /\ 1 \in 1 .. (i + 1) - 1
    BY <1>1
  <2> QED
    BY <1>1, <2>1 DEF Orderly
<1> QED
  BY <1>2, <1>3 DEF Orderly, t

(* ... or how the stream ended, and then there is no other. *)
LEMMA OrderlyOver ==
  ASSUME NEW m \in Seq(Signals), m # <<>>, NEW s, NEW fin, Orderly(m, s, fin), Head(m).kind \in Over
  PROVE  Tail(m) = <<>> /\ Len(m) = 1 /\ ~Running(s)
<1>1. Len(m) \in Nat \ {0} /\ Tail(m) \in Seq(Signals) /\ Len(Tail(m)) = Len(m) - 1 /\ m[1].kind \in Over
  BY Taken
<1>2. 1 \in 1 .. Len(m)
  BY <1>1
<1>3. 1 = Len(m) /\ ~Running(s)
  BY <1>1, <1>2 DEF Orderly
<1>4. Len(Tail(m)) = 0
  <2>1. Len(m) = 1 /\ Len(Tail(m)) = Len(m) - 1
    BY <1>1, <1>3
  <2> QED
    BY <2>1
<1>5. \A t \in Seq(Signals) : Len(t) = 0 => t = <<>>
  OBVIOUS
<1> QED
  BY <1>1, <1>3, <1>4, <1>5

(* What the oldest signal says is so. *)
LEMMA OrderlyHead ==
  ASSUME NEW m \in Seq(Signals), m # <<>>, NEW s, NEW fin, Orderly(m, s, fin)
  PROVE  /\ Head(m).kind \in Events => ~fin
         /\ Head(m).kind = "part" => Head(m).file \in s.parts
         /\ Head(m).kind = "finished" => s.finished
         /\ Head(m).kind \in NoStream => s.parts = {} /\ ~s.finished
<1>1. Len(m) \in Nat \ {0} /\ Head(m) = m[1] /\ 1 \in 1 .. Len(m)
  BY Taken
<1> QED
  BY <1>1 DEF Orderly

(* A running stream has not told how it ended. *)
LEMMA RunningTellsNoEnd ==
  ASSUME NEW m \in Seq(Signals), NEW s, NEW fin, Orderly(m, s, fin), Running(s)
  PROVE  \A i \in 1 .. Len(m) : m[i].kind \in Events
<1> SUFFICES ASSUME NEW i \in 1 .. Len(m) PROVE m[i].kind \in Events
  OBVIOUS
<1>1. m[i] \in Signals
  OBVIOUS
<1> QED
  BY <1>1, Kinds DEF Orderly

(* It may tell more, as long as the mission is not over, ... *)
LEMMA OrderlyAppend ==
  ASSUME NEW m \in Seq(Signals), NEW s, NEW r, NEW fin, Orderly(m, s, fin), NEW x \in Signals,
         Running(s), ~s.finished, fin => s.finished, s.parts \subseteq r.parts,
         x.kind \in Events,
         x.kind = "part" => x.file \in r.parts, x.kind = "finished" => r.finished
  PROVE  Orderly(Append(m, x), r, fin)
<1> DEFINE t == Append(m, x)
<1>1. /\ Len(m) \in Nat /\ Len(t) = Len(m) + 1 /\ t[Len(m) + 1] = x
      /\ \A i \in 1 .. Len(m) : t[i] = m[i]
  BY Sent
<1> HIDE DEF t
<1>2. \A i \in 1 .. Len(m) : m[i].kind \in Events
  BY RunningTellsNoEnd
<1>3. x.kind \notin Over /\ \A i \in 1 .. Len(m) : m[i].kind \notin Over
  BY <1>2, Kinds
<1>4. \A i \in 1 .. Len(m) : m[i].kind # "finished" /\ (m[i].kind = "part" => m[i].file \in r.parts)
  BY DEF Orderly
<1>5. ~fin /\ NoStream \subseteq Over
  BY DEF Over
<1>6. \A i \in 1 .. Len(t) : t[i] = x \/ (i \in 1 .. Len(m) /\ t[i] = m[i])
  BY <1>1
<1>7. \A i \in 1 .. Len(t) : \A j \in 1 .. i - 1 : t[j].kind # "finished"
  <2> SUFFICES ASSUME NEW i \in 1 .. Len(t), NEW j \in 1 .. i - 1 PROVE t[j].kind # "finished"
    OBVIOUS
  <2>1. j \in 1 .. Len(m)
    BY <1>1
  <2> QED
    BY <2>1, <1>1, <1>4
<1> SUFFICES ASSUME NEW i \in 1 .. Len(t)
             PROVE  /\ t[i].kind \notin Over /\ ~fin /\ \A j \in 1 .. i - 1 : t[j].kind # "finished"
                    /\ t[i].kind = "part" => t[i].file \in r.parts
                    /\ t[i].kind = "finished" => r.finished
                    /\ t[i].kind \notin NoStream
  BY <1>5 DEF Orderly, t
<1>8. t[i].kind \notin Over /\ ~fin /\ t[i].kind \notin NoStream
  BY <1>3, <1>5, <1>6
<1>9. (t[i].kind = "part" => t[i].file \in r.parts) /\ (t[i].kind = "finished" => r.finished)
  BY <1>4, <1>6
<1> QED
  BY <1>7, <1>8, <1>9

(* ... and at last it tells how it ended. *)
LEMMA OrderlyEnd ==
  ASSUME NEW m \in Seq(Signals), NEW s, NEW r, NEW fin, Orderly(m, s, fin), NEW x \in Signals,
         Running(s), ~Running(r), s.parts = r.parts, s.finished = r.finished,
         x.kind \in Over, x.kind \in NoStream => r.parts = {} /\ ~r.finished
  PROVE  Orderly(Append(m, x), r, fin)
<1> DEFINE t == Append(m, x)
<1>1. /\ Len(m) \in Nat /\ Len(t) = Len(m) + 1 /\ t[Len(m) + 1] = x
      /\ \A i \in 1 .. Len(m) : t[i] = m[i]
  BY Sent
<1> HIDE DEF t
<1>2. \A i \in 1 .. Len(m) : m[i].kind \in Events
  BY RunningTellsNoEnd
<1>3. x.kind \notin Events /\ \A i \in 1 .. Len(m) : m[i].kind \notin Over
  BY <1>2, Kinds
<1>4. x.kind # "part" /\ x.kind # "finished" /\ NoStream \subseteq Over
  BY <1>3 DEF Events, Over
<1> SUFFICES ASSUME NEW i \in 1 .. Len(t)
             PROVE  /\ t[i].kind \in Over => i = Len(t) /\ ~Running(r)
                    /\ t[i].kind \in Events => ~fin /\ \A j \in 1 .. i - 1 : t[j].kind # "finished"
                    /\ t[i].kind = "part" => t[i].file \in r.parts
                    /\ t[i].kind = "finished" => r.finished
                    /\ t[i].kind \in NoStream => r.parts = {} /\ ~r.finished
  BY DEF Orderly, t
<1>5. CASE i = Len(m) + 1
  BY <1>1, <1>3, <1>4, <1>5
<1>6. CASE i # Len(m) + 1
  <2>1. i \in 1 .. Len(m) /\ t[i] = m[i] /\ \A j \in 1 .. i - 1 : t[j] = m[j]
    BY <1>1, <1>6
  <2>2. t[i].kind \notin Over /\ t[i].kind \notin NoStream
    BY <2>1, <1>3, <1>4
  <2>3. /\ m[i].kind \in Events => ~fin /\ \A j \in 1 .. i - 1 : m[j].kind # "finished"
        /\ m[i].kind = "part" => m[i].file \in s.parts
        /\ m[i].kind = "finished" => s.finished
    BY <2>1 DEF Orderly
  <2> QED
    BY <2>1, <2>2, <2>3
<1> QED
  BY <1>5, <1>6

LEMMA OrderlyNothing == ASSUME NEW s, NEW fin PROVE Orderly(<<>>, s, fin)
BY DEF Orderly

LEMMA OrderlySame ==
  ASSUME NEW m, NEW s, NEW r, NEW fin, Orderly(m, s, fin),
         Running(r) => Running(s), s.parts = r.parts, s.finished = r.finished
  PROVE  Orderly(m, r, fin)
BY DEF Orderly

-----------------------------------------------------------------------------
(* A file the sensor named is known when its signal is handled, ... *)
LEMMA HeardTail ==
  ASSUME NEW m \in Seq(Signals), m # <<>>, NEW s, NEW n, NEW k, Heard(m, s, n), n \subseteq k, k \subseteq s.parts,
         Head(m).kind = "part" => Head(m).file \in k
  PROVE  Heard(Tail(m), s, k)
<1> DEFINE t == Tail(m)
<1>1. /\ Len(m) \in Nat \ {0} /\ Head(m) = m[1] /\ Len(t) = Len(m) - 1
      /\ \A i \in 1 .. Len(m) - 1 : t[i] = m[i + 1]
  BY Taken
<1> HIDE DEF t
<1> SUFFICES ASSUME NEW p \in s.parts \ k PROVE \E i \in 1 .. Len(t) : t[i].kind = "part" /\ t[i].file = p
  BY DEF Heard, t
<1>2. PICK i \in 1 .. Len(m) : m[i].kind = "part" /\ m[i].file = p
  BY DEF Heard
<1>3. i # 1
  BY <1>1, <1>2
<1>4. i - 1 \in 1 .. Len(t) /\ t[i - 1] = m[i]
  BY <1>1, <1>3
<1> QED
  BY <1>2, <1>4

(* ... and a new one is in the mail. *)
LEMMA HeardAppend ==
  ASSUME NEW m \in Seq(Signals), NEW s, NEW r, NEW n, NEW x \in Signals, Heard(m, s, n),
         s.parts \subseteq r.parts, \A p \in r.parts \ s.parts : x.kind = "part" /\ x.file = p
  PROVE  Heard(Append(m, x), r, n)
<1> DEFINE t == Append(m, x)
<1>1. /\ Len(m) \in Nat /\ Len(t) = Len(m) + 1 /\ t[Len(m) + 1] = x
      /\ \A i \in 1 .. Len(m) : t[i] = m[i]
  BY Sent
<1> HIDE DEF t
<1> SUFFICES ASSUME NEW p \in r.parts \ n PROVE \E i \in 1 .. Len(t) : t[i].kind = "part" /\ t[i].file = p
  BY DEF Heard, t
<1>2. CASE p \in s.parts
  <2>1. PICK i \in 1 .. Len(m) : m[i].kind = "part" /\ m[i].file = p
    BY <1>2 DEF Heard
  <2> QED
    BY <2>1, <1>1
<1>3. CASE p \notin s.parts
  <2>1. Len(m) + 1 \in 1 .. Len(t)
    BY <1>1
  <2> QED
    BY <2>1, <1>1, <1>3
<1> QED
  BY <1>2, <1>3

(* Once the end of the mission is known, so are the files. *)
LEMMA AllHeard ==
  ASSUME NEW m \in Seq(Signals), NEW s, NEW n, Orderly(m, s, TRUE), Heard(m, s, n)
  PROVE  n = s.parts /\ \A i \in 1 .. Len(m) : m[i].kind \in Over
<1>1. \A i \in 1 .. Len(m) : m[i].kind \notin Events
  BY DEF Orderly
<1>2. \A i \in 1 .. Len(m) : m[i].kind \in Over
  <2> SUFFICES ASSUME NEW i \in 1 .. Len(m) PROVE m[i].kind \in Over
    OBVIOUS
  <2>1. m[i] \in Signals
    OBVIOUS
  <2> QED
    BY <1>1, <2>1, Kinds
<1>3. s.parts \subseteq n
  BY <1>1 DEF Heard, Events
<1> QED
  BY <1>2, <1>3 DEF Heard

(* The last signal comes when every file is known. *)
LEMMA OverHeard ==
  ASSUME NEW m \in Seq(Signals), m # <<>>, NEW s, NEW n, NEW fin, Orderly(m, s, fin), Heard(m, s, n), Head(m).kind \in Over
  PROVE  n = s.parts
<1>1. Len(m) = 1 /\ Head(m) = m[1]
  BY OrderlyOver, Taken
<1>2. Head(m).kind # "part"
  BY Kinds, Taken DEF Events
<1>3. s.parts \subseteq n
  BY <1>1, <1>2 DEF Heard
<1> QED
  BY <1>3 DEF Heard

-----------------------------------------------------------------------------
(* What a step may never do. *)
TakesItsTurn == Launched => reported /\ radio = "off"
PostsUnlessHeld == queued' /\ ~queued => ~series.stop /\ ~series.pause /\ (series.paused => ~series'.paused)
CutsNothingShort ==
  \A f \in Parts : disk[f] = "open" /\ disk'[f] = "short" =>
    stream.st = "open" /\ (quiet = 2 \/ since = 2 \/ (mail' # mail /\ reported' = reported))
Conduct == TakesItsTurn /\ PostsUnlessHeld /\ (~HeaderFaults => CutsNothingShort)

(* While a file is open, or the stream runs, the recording is not reported and its stream is held. *)
LEMMA Streaming ==
  ASSUME CaptureInv, Running(stream)
  PROVE  client /\ http /\ ~reported
BY DEF CaptureInv, Stages, Mailbox

LEMMA OpenFile ==
  ASSUME CaptureInv, NEW f \in Parts, disk[f] = "open"
  PROVE  stream.st = "open" /\ f \in stream.parts /\ Running(stream)
BY DEF CaptureInv, Radio, Running

(* At the end of a capture the stream is given up: what the sensor still wrote is cut short. *)
LEMMA AbortDone ==
  ASSUME CaptureInv, Abort(mail), finished \/ ~http
  PROVE  /\ client' \in BOOLEAN /\ ~client'
         /\ stream' \in StreamType
         /\ ~Running(stream') /\ (stream.finished => stream'.finished) /\ stream'.st # "open" /\ stream'.st # "posting"
         /\ mail' \in Seq(Signals) /\ Orderly(mail', stream', finished) /\ Heard(mail', stream', named)
         /\ ~http => mail' = <<>>
         /\ \A i \in 1 .. Len(mail') : mail'[i].kind \notin {"not sent", "reset"} \/ (i \in 1 .. Len(mail) /\ mail'[i] = mail[i])
         /\ radio' = "off"
         /\ disk' \in [Files -> {"absent", "open", "full", "short"}]
         /\ \A f \in Parts : disk'[f] # "open"
         /\ \A f \in Files : disk[f] = "full" => disk'[f] = "full"
<1> USE Amounts, Apart
<1>t. Mailbox /\ Radio /\ Stages
  BY Zenon DEF CaptureInv
<1>0. mail \in Seq(Signals) /\ Orderly(mail, stream, finished) /\ Heard(mail, stream, named) /\ Len(mail) \in Nat
  BY Typings, <1>t DEF Mailbox
<1>1. CASE client /\ Running(stream)
  <2> DEFINE x == [kind |-> "cancelled"]
  <2>1. /\ client' = FALSE /\ radio' = "off" /\ disk' = Disconnected(disk)
        /\ stream' = [stream EXCEPT !.st = "ended"] /\ mail' = Append(mail, x)
    BY <1>1 DEF Abort, Running
  <2>2. x \in Signals /\ x.kind = "cancelled" /\ x.kind \in Over /\ x.kind \notin NoStream
    BY DEF Signals, Over, Ended, NoStream
  <2> HIDE DEF x
  <2>3. /\ stream' \in StreamType
        /\ stream'.st = "ended" /\ stream'.parts = stream.parts /\ stream'.finished = stream.finished
    BY Typings, <1>t, <2>1 DEF StreamType
  <2>4. ~Running(stream')
    BY <2>3 DEF Running
  <2>5. Orderly(mail', stream', finished)
    BY <1>0, <1>1, <2>1, <2>2, <2>3, <2>4, OrderlyEnd
  <2>6. Heard(mail', stream', named)
    BY <1>0, <2>1, <2>2, <2>3, HeardAppend
  <2>7. http
    BY <1>1, Streaming
  <2>8. /\ mail' \in Seq(Signals)
        /\ Len(mail') = Len(mail) + 1 /\ mail'[Len(mail) + 1] = x /\ \A i \in 1 .. Len(mail) : mail'[i] = mail[i]
    BY <1>0, <2>1, <2>2, Sent
  <2>9. \A i \in 1 .. Len(mail') : mail'[i].kind \notin {"not sent", "reset"} \/ (i \in 1 .. Len(mail) /\ mail'[i] = mail[i])
    <3> SUFFICES ASSUME NEW i \in 1 .. Len(mail'), i \notin 1 .. Len(mail) PROVE mail'[i].kind = "cancelled"
      BY <2>8
    <3>1. i = Len(mail) + 1
      BY <1>0, <2>8
    <3> QED
      BY <3>1, <2>2, <2>8
  <2>10. /\ disk' \in [Files -> {"absent", "open", "full", "short"}]
         /\ \A f \in Parts : disk'[f] # "open"
         /\ \A f \in Files : disk[f] = "full" => disk'[f] = "full"
    BY Typings, <1>t, <2>1 DEF FileTypes, Disconnected, Files
  <2> QED
    BY <2>1, <2>3, <2>4, <2>5, <2>6, <2>7, <2>8, <2>9, <2>10
<1>2. CASE ~(client /\ Running(stream))
  <2>1. client' = FALSE /\ radio' = radio /\ disk' = disk /\ stream' = stream /\ mail' = mail
    BY <1>2 DEF Abort, Running
  <2>2. ~Running(stream)
    BY <1>2, Streaming
  <2>3. stream.st # "open" /\ stream.st # "posting"
    BY <2>2 DEF Running
  <2>4. radio = "off" /\ \A f \in Parts : disk[f] # "open"
    BY <1>t, <2>3 DEF Radio
  <2>5. ~http => mail = <<>>
    BY <1>t DEF Mailbox
  <2>6. ~Running(stream') /\ Orderly(mail', stream', finished) /\ Heard(mail', stream', named)
    BY <1>0, <2>1, <2>2
  <2> QED
    BY Typings, <1>0, <1>t, <2>1, <2>3, <2>4, <2>5, <2>6 DEF FileTypes
<1> QED
  BY <1>1, <1>2

(* Between two recordings of a series: the next is posted, waited for or held back, or it was the last. *)
LEMMA NextOrNot ==
  ASSUME CaptureInv, ~reported, NEW wait \in BOOLEAN, MaybeStartNext(wait), reported' = TRUE, owner' = owner
  PROVE  /\ series' \in SeriesType
         /\ waiting' \in BOOLEAN /\ queued' \in BOOLEAN
         /\ SeriesInv' /\ PostsUnlessHeld
         /\ series'.on => series.on
         /\ queued' => series.on
<1>t. SeriesInv
  BY Zenon DEF CaptureInv
<1>1. ~queued /\ ~waiting /\ ~series.paused
  BY <1>t DEF SeriesInv
<1>2. ASSUME SeriesEnded
      PROVE  series' = NoSeries /\ waiting' = FALSE /\ queued' = FALSE
  BY Typings, <1>2, <1>1, <1>t DEF SeriesEnded, FlagTypes
<1>3. ASSUME series' = NoSeries /\ waiting' = FALSE /\ queued' = FALSE
      PROVE  /\ series' \in SeriesType
             /\ SeriesInv' /\ PostsUnlessHeld /\ ~series'.on
  <2>1. series' \in SeriesType /\ ~series'.on /\ ~series'.paused
    BY <1>3 DEF NoSeries, SeriesType
  <2> QED
    BY <1>3, <2>1 DEF SeriesInv, PostsUnlessHeld
<1>4. CASE SeriesEnded
  BY <1>2, <1>3, <1>4
<1>5. CASE ~SeriesEnded
  <2>1. /\ series.on /\ ~series.stop /\ series.left > 0 /\ series.left # 0
        /\ IF series.pause
           THEN series' = [series EXCEPT !.paused = TRUE, !.pause = FALSE] /\ UNCHANGED <<waiting, queued>>
           ELSE IF wait THEN waiting' = TRUE /\ UNCHANGED <<series, queued>> ELSE StartNextNow
    BY Typings, <1>5, <1>t DEF MaybeStartNext, SeriesType
  <2>2. owner = "none"
    BY <1>t, <2>1 DEF SeriesInv
  <2>3. CASE series.pause
    <3>1. series' = [series EXCEPT !.paused = TRUE, !.pause = FALSE] /\ waiting' = waiting /\ queued' = queued
      BY <2>1, <2>3
    <3>2. /\ series' \in SeriesType
          /\ series'.on = series.on /\ series'.pause = FALSE /\ series'.paused = TRUE
      BY Typings, <1>t, <3>1 DEF SeriesType
    <3> QED
      BY Typings, <1>1, <1>t, <2>1, <2>2, <3>1, <3>2 DEF SeriesInv, PostsUnlessHeld, FlagTypes
  <2>4. CASE ~series.pause /\ wait
    <3>1. waiting' = TRUE /\ series' = series /\ queued' = queued
      BY <2>1, <2>4
    <3> QED
      BY Typings, <1>1, <1>t, <2>1, <2>2, <2>4, <3>1 DEF SeriesInv, PostsUnlessHeld, FlagTypes
  <2>5. CASE ~series.pause /\ ~wait
    <3>1. series' = [series EXCEPT !.left = @ - 1, !.paused = FALSE] /\ waiting' = FALSE /\ queued' = TRUE
      BY <2>1, <2>5 DEF StartNextNow
    <3>2. series.left - 1 \in Nat
      BY Typings, <1>t, <2>1 DEF SeriesType
    <3>3. /\ series' \in SeriesType
          /\ series'.on = series.on /\ series'.pause = series.pause /\ series'.paused = FALSE
      BY Typings, <1>t, <3>1, <3>2 DEF SeriesType
    <3> QED
      BY <1>1, <2>1, <2>2, <2>5, <3>1, <3>3 DEF SeriesInv, PostsUnlessHeld
  <2> QED
    BY <2>3, <2>4, <2>5
<1> QED
  BY <1>4, <1>5

LEMMA Verdicts ==
  ASSUME NEW found, NEW measured
  PROVE  /\ Verdict(found, measured) \in {"confirmed", "partial", "unknown", "failed"}
         /\ Verdict(found, measured) = "confirmed" =>
              /\ found # {} /\ measured /\ named \subseteq found
              /\ (found \cap Neighbour # {}) \/ \A f \in Parts : f \in found /\ disk[f] = "full"
BY DEF Verdict

(* The end of a capture, with what the watch w knows of the files. *)
LEMMA Completed ==
  ASSUME CaptureInv, ~reported, ~active, finished \/ ~http,
         NEW w \in [Files -> {"unseen", "empty", "seen", "final"}], NEW measured \in BOOLEAN,
         Complete(w, measured, mail), watch' = w,
         measured => (named # {} => Final(w) \cap Neighbour = {}),
         UNCHANGED <<active, http, since, told_vars, owner, captures, got>>,
         pin' \in {"none", "own", "neighbour"}, quiet' \in 0 .. 2, listing' \in {"none", "stale"},
         fresh' \subseteq Files, faults' \in 0 .. Faults
  PROVE  CaptureInv' /\ TakesItsTurn /\ PostsUnlessHeld
<1> USE Amounts, Apart
<1>t. Mailbox /\ Radio /\ Stages /\ SeriesInv /\ Unsent /\ OneUserAtATime
  BY Zenon DEF CaptureInv
<1> DEFINE verdict == Verdict(Final(w), measured)
<1>1. /\ Abort(mail) /\ outcome' = verdict /\ reported' = TRUE /\ request' = "none"
      /\ watching' = FALSE /\ measuring' = FALSE
      /\ phase' = IF waiting' THEN "waiting" ELSE IF series'.paused THEN "idle" ELSE verdict
  BY DEF Complete
<1>2. PICK wait \in BOOLEAN : MaybeStartNext(wait)
  BY DEF Complete
<1>3. /\ verdict \in {"confirmed", "partial", "unknown", "failed"}
      /\ verdict = "confirmed" =>
           /\ Final(w) # {} /\ measured /\ named \subseteq Final(w)
           /\ (Final(w) \cap Neighbour # {}) \/ \A f \in Parts : f \in Final(w) /\ disk[f] = "full"
  BY Verdicts
<1> HIDE DEF verdict
<1>u. /\ active' = active /\ http' = http /\ since' = since /\ named' = named /\ finished' = finished /\ error' = error
      /\ lost' = lost /\ owner' = owner /\ captures' = captures /\ got' = got
  BY DEF told_vars
<1>4. /\ series' \in SeriesType
      /\ waiting' \in BOOLEAN /\ queued' \in BOOLEAN
      /\ SeriesInv' /\ PostsUnlessHeld
      /\ series'.on => series.on
      /\ queued' => series.on
  BY <1>1, <1>2, <1>u, NextOrNot
<1>5. /\ client' \in BOOLEAN /\ ~client'
      /\ stream' \in StreamType
      /\ ~Running(stream') /\ (stream.finished => stream'.finished) /\ stream'.st # "open" /\ stream'.st # "posting"
      /\ mail' \in Seq(Signals) /\ Orderly(mail', stream', finished) /\ Heard(mail', stream', named)
      /\ ~http => mail' = <<>>
      /\ \A i \in 1 .. Len(mail') : mail'[i].kind \notin {"not sent", "reset"} \/ (i \in 1 .. Len(mail) /\ mail'[i] = mail[i])
      /\ radio' = "off"
      /\ disk' \in [Files -> {"absent", "open", "full", "short"}]
      /\ \A f \in Parts : disk'[f] # "open"
      /\ \A f \in Files : disk[f] = "full" => disk'[f] = "full"
  BY <1>1, AbortDone
<1>6. phase' \in Phases
  BY <1>1, <1>3 DEF Phases
<1>7. Types'
  <2>a. FlagTypes'
    BY Typings, <1>1, <1>3, <1>4, <1>5, <1>6, <1>u DEF FlagTypes
  <2>d. WordTypes'
    BY Typings, <1>1, <1>3, <1>4, <1>5, <1>6, <1>u DEF WordTypes
  <2>b. FileTypes' /\ CountTypes'
    BY Typings, <1>1, <1>3, <1>4, <1>5, <1>6, <1>u DEF FileTypes, CountTypes
  <2>c. series' \in SeriesType /\ mail' \in Seq(Signals) /\ stream' \in StreamType
    BY Typings, <1>1, <1>3, <1>4, <1>5, <1>6, <1>u
  <2> QED
    BY <2>a, <2>d, <2>b, <2>c DEF Types
<1>8. Mailbox'
  <2>1. finished' => stream'.finished
    BY <1>t, <1>5, <1>u DEF Mailbox
  <2>2. Orderly(mail', stream', finished') /\ Heard(mail', stream', named')
    BY <1>5, <1>u
  <2>3. ~http' => mail' = <<>> /\ ~Running(stream')
    <3>1. ~Running(stream') /\ (~http => mail' = <<>>)
      BY Zenon, <1>5
    <3> QED
      BY <3>1, <1>u
  <2> QED
    BY <2>1, <2>2, <2>3 DEF Mailbox
<1>9. Radio'
  BY <1>5 DEF Radio
<1>10. Stages'
  <2>1. ~Running(stream') /\ reported' /\ ~active' /\ ~watching' /\ ~measuring' /\ request' = "none" /\ listing' # "current"
    <3>1. ~Running(stream')
      BY Zenon, <1>5
    <3> QED
      BY <3>1, <1>1, <1>u
  <2>2. finished' \/ ~http'
    BY <1>u
  <2> QED
    BY <2>1, <2>2 DEF Stages
<1>11. Watched'
  BY <1>1 DEF Watched
<1>12. Unsent'
  <2>1. outcome' # "not sent"
    BY <1>1, <1>3
  <2>2. \A i \in 1 .. Len(mail) : (mail[i].kind = "not sent" => ~got) /\ (mail[i].kind = "reset" => ~ResetsAreEarly)
    BY <1>t DEF Unsent
  <2>3. \A i \in 1 .. Len(mail') : (mail'[i].kind = "not sent" => ~got') /\ (mail'[i].kind = "reset" => ~ResetsAreEarly)
    <3>1. \A i \in 1 .. Len(mail') : mail'[i].kind \notin {"not sent", "reset"} \/ (i \in 1 .. Len(mail) /\ mail'[i] = mail[i])
      BY Zenon, <1>5
    <3>2. ~got => ~got'
      BY <1>u
    <3> SUFFICES ASSUME NEW i \in 1 .. Len(mail')
                 PROVE  (mail'[i].kind = "not sent" => ~got') /\ (mail'[i].kind = "reset" => ~ResetsAreEarly)
      OBVIOUS
    <3>3. CASE mail'[i].kind \in {"not sent", "reset"}
      <4>1. i \in 1 .. Len(mail) /\ mail'[i] = mail[i]
        BY <3>1, <3>3
      <4> QED
        BY <4>1, <2>2, <3>2
    <3>4. CASE mail'[i].kind \notin {"not sent", "reset"}
      BY <3>4
    <3> QED
      BY <3>3, <3>4
  <2> QED
    BY <2>1, <2>3 DEF Unsent, NotSentIsTrue, ResetsAreEarly
<1>13. ConfirmedIsWhole'
  <2> SUFFICES ASSUME outcome' = "confirmed", named # {}
               PROVE  /\ Final(w) \cap Neighbour = {}
                      /\ \A f \in Parts : w[f] = "final" /\ disk'[f] = "full"
    BY <1>u DEF ConfirmedIsWhole, Final
  <2>1. Final(w) \cap Neighbour = {}
    BY <1>1, <1>3
  <2>2. \A f \in Parts : f \in Final(w) /\ disk[f] = "full"
    BY <1>1, <1>3, <2>1
  <2> QED
    BY <2>1, <2>2, <1>5 DEF Final, Files
<1>14. OneUserAtATime'
  BY Typings, <1>t, <1>1, <1>4, <1>u DEF OneUserAtATime, SeriesInv, WordTypes
<1>15. TakesItsTurn
  BY Typings, <1>t, <1>u DEF TakesItsTurn, Launched, CountTypes
<1> QED
  BY <1>4, <1>7, <1>8, <1>9, <1>10, <1>11, <1>12, <1>13, <1>14, <1>15 DEF CaptureInv

-----------------------------------------------------------------------------
(* A capture is launched when the one before it is reported. *)
LEMMA Launches ==
  ASSUME CaptureInv, NEW who \in {"manual", "external"}, Launch(who),
         ~active, ~watching, ~measuring,
         IF who = "manual" THEN owner = "none" ELSE owner = "collection" /\ UNCHANGED series_vars,
         series' \in SeriesType,
         queued' = FALSE, waiting' = FALSE, ~series'.paused
  PROVE  CaptureInv' /\ Conduct
<1> USE Amounts, Apart
<1>t. Mailbox /\ Radio /\ Stages /\ SeriesInv /\ Unsent /\ OneUserAtATime
  BY Zenon DEF CaptureInv
<1>0. reported /\ radio = "off"
  BY <1>t DEF Stages, Radio, Running
<1>1. /\ captures < Captures /\ captures' = captures + 1
      /\ phase' = "recording" /\ active' = TRUE /\ http' = TRUE /\ client' = TRUE
      /\ named' = {} /\ finished' = FALSE /\ error' = FALSE /\ lost' = FALSE
      /\ measuring' = FALSE /\ pin' = "none" /\ reported' = FALSE /\ request' = who
      /\ watch' = [f \in Files |-> "unseen"] /\ quiet' = 0 /\ since' = 0
      /\ mail' = <<>> /\ stream' = [Silent EXCEPT !.st = "posting"]
      /\ radio' = "off" /\ got' = FALSE /\ fresh' = {}
      /\ disk' = [f \in Files |-> IF f \in Parts THEN "absent" ELSE disk[f]]
      /\ watching' = watching /\ listing' = listing /\ owner' = owner /\ outcome' = outcome /\ faults' = faults
  BY DEF Launch
<1>2. /\ stream' \in StreamType
      /\ stream'.st = "posting" /\ stream'.parts = {} /\ ~stream'.finished
  BY <1>1 DEF Silent, StreamType
<1>3. Types'
  <2>1. captures' \in 0 .. Captures
    BY Typings, <1>t, <1>1 DEF CountTypes
  <2>2. mail' \in Seq(Signals)
    BY <1>1
  <2>3. disk' \in [Files -> {"absent", "open", "full", "short"}] /\ watch' \in [Files -> {"unseen", "empty", "seen", "final"}]
    BY Typings, <1>t, <1>1 DEF FileTypes
  <2>4. phase' \in Phases
    BY <1>1 DEF Phases
  <2>a. FlagTypes'
    BY Typings, <1>1, <2>4 DEF FlagTypes
  <2>d. WordTypes'
    BY Typings, <1>1, <2>4 DEF WordTypes
  <2>b. FileTypes' /\ CountTypes'
    BY Typings, <1>1, <2>1, <2>3 DEF FileTypes, CountTypes
  <2> QED
    BY <1>2, <2>2, <2>a, <2>d, <2>b DEF Types
<1>4. Mailbox'
  <2>1. Orderly(mail', stream', finished')
    BY <1>1, OrderlyNothing
  <2> QED
    BY <1>1, <1>2, <2>1 DEF Mailbox, Heard
<1>5. Radio'
  <2>1. \A p \in Parts : disk'[p] = "absent"
    BY <1>1 DEF Files
  <2> QED
    BY <1>1, <1>2, <2>1 DEF Radio
<1>6. Stages'
  BY <1>t, <1>1, <1>2 DEF Stages
<1>7. SeriesInv'
  BY <1>t, <1>1 DEF SeriesInv, series_vars
<1>8. Watched' /\ ConfirmedIsWhole'
  BY <1>1 DEF Watched, ConfirmedIsWhole
<1>9. Unsent'
  <2>1. Len(mail') = 0 /\ ~reported'
    BY <1>1
  <2>2. \A i \in 1 .. Len(mail') : FALSE
    BY <2>1
  <2> QED
    BY Zenon, <2>1, <2>2 DEF Unsent, NotSentIsTrue
<1>10. OneUserAtATime'
  BY <1>t, <1>1 DEF OneUserAtATime, series_vars
<1>11. Conduct
  <2>1. TakesItsTurn
    BY <1>0 DEF TakesItsTurn
  <2>2. PostsUnlessHeld
    BY DEF PostsUnlessHeld
  <2>3. CutsNothingShort
    BY <1>1 DEF CutsNothingShort, Files
  <2> QED
    BY <2>1, <2>2, <2>3 DEF Conduct
<1> QED
  BY <1>3, <1>4, <1>5, <1>6, <1>7, <1>8, <1>9, <1>10, <1>11 DEF CaptureInv

LEMMA LaunchesNone == ASSUME CaptureInv, captures' = captures PROVE TakesItsTurn
BY Typings DEF CaptureInv, CountTypes, TakesItsTurn, Launched

(* A step that neither launches, posts nor closes a file. *)
LEMMA Modest ==
  ASSUME CaptureInv, captures' = captures, queued' = queued \/ ~queued', disk' = disk
  PROVE  Conduct
<1>1. TakesItsTurn
  BY LaunchesNone
<1>2. PostsUnlessHeld
  BY DEF PostsUnlessHeld
<1>3. CutsNothingShort
  BY DEF CutsNothingShort
<1> QED
  BY <1>1, <1>2, <1>3 DEF Conduct

LEMMA StartManualKeeps ==
  ASSUME CaptureInv, NEW rounds \in Rounds, StartManual(rounds)
  PROVE  CaptureInv' /\ Conduct
<1>t. Stages /\ SeriesInv
  BY Zenon DEF CaptureInv
<1>1. /\ ~active /\ owner = "none" /\ ~watching /\ ~measuring /\ ~series.on /\ ~series.paused
      /\ series' = SeriesOf(rounds) /\ Launch("manual") /\ waiting' = waiting /\ queued' = queued
  BY DEF StartManual
<1>2. waiting' = FALSE /\ queued' = FALSE
  BY Typings, <1>1, <1>t DEF SeriesInv, FlagTypes
<1>3. rounds \in Nat /\ Captures \in Nat
  BY Amounts
<1>4. series' \in SeriesType /\ ~series'.paused
  <2>1. CASE rounds = 1
    BY Typings, <1>1, <1>t, <2>1 DEF SeriesOf, SeriesType
  <2>2. CASE rounds # 1
    <3> DEFINE l == IF rounds = Endless THEN Captures ELSE rounds - 1
    <3>1. l \in Nat
      BY <1>3, <2>2 DEF Endless
    <3>2. series' = [NoSeries EXCEPT !.on = TRUE, !.left = l]
      BY <1>1, <2>2 DEF SeriesOf
    <3> HIDE DEF l
    <3>3. series' = [on |-> TRUE, left |-> l, stop |-> FALSE, pause |-> FALSE, paused |-> FALSE]
      BY <3>2 DEF NoSeries
    <3> QED
      BY <3>1, <3>3 DEF SeriesType
  <2> QED
    BY <2>1, <2>2
<1> QED
  BY <1>1, <1>2, <1>4, Launches

LEMMA StartPostedKeeps ==
  ASSUME CaptureInv, StartPosted
  PROVE  CaptureInv' /\ Conduct
<1>t. Mailbox /\ Radio /\ Stages /\ SeriesInv /\ Watched /\ Unsent /\ ConfirmedIsWhole /\ OneUserAtATime
  BY Zenon DEF CaptureInv
<1>0. queued /\ queued' = FALSE /\ waiting' = waiting
  BY DEF StartPosted
<1>1. CASE active \/ owner # "none" \/ watching \/ measuring \/ phase = "finalizing"
  <2>1. UNCHANGED <<phase, active, http, client, watch_vars, told_vars, series,
                    owner_vars, mail, stream, sensor_vars, count_vars, faults>>
    BY <1>1 DEF StartPosted
  <2> USE DEF watch_vars, told_vars, owner_vars, sensor_vars, count_vars
  <2>2. Types'
    <3>a. FlagTypes'
      BY Typings, <1>0, <2>1 DEF FlagTypes
    <3>d. WordTypes'
      BY Typings, <1>0, <2>1 DEF WordTypes
    <3>b. FileTypes' /\ CountTypes'
      BY Typings, <1>0, <2>1 DEF FileTypes, CountTypes
    <3>c. series' \in SeriesType /\ mail' \in Seq(Signals) /\ stream' \in StreamType
      BY Typings, <1>0, <2>1
    <3> QED
      BY <3>a, <3>d, <3>b, <3>c DEF Types
  <2>3. Mailbox' /\ Radio'
    BY <1>t, <2>1 DEF Mailbox, Radio
  <2>4. Stages' /\ Watched'
    BY <1>t, <2>1 DEF Stages, Watched, Final
  <2>5. SeriesInv'
    BY <1>t, <1>0, <2>1 DEF SeriesInv
  <2>6. Unsent' /\ ConfirmedIsWhole'
    BY <1>t, <2>1 DEF Unsent, NotSentIsTrue, ConfirmedIsWhole, Final
  <2>7. OneUserAtATime'
    BY <1>t, <1>0, <2>1 DEF OneUserAtATime
  <2>8. Conduct
    BY <1>0, <2>1, Modest
  <2> QED
    BY <2>2, <2>3, <2>4, <2>5, <2>6, <2>7, <2>8 DEF CaptureInv
<1>2. CASE ~(active \/ owner # "none" \/ watching \/ measuring \/ phase = "finalizing")
  <2>1. Launch("manual") /\ series' = series
    BY <1>2 DEF StartPosted
  <2>2. waiting' = FALSE /\ ~series'.paused
    BY Typings, <1>t, <1>0, <2>1 DEF SeriesInv, FlagTypes
  <2>3. series' \in SeriesType
    BY Typings, <1>t, <2>1
  <2> QED
    BY <1>0, <1>2, <2>1, <2>2, <2>3, Launches
<1> QED
  BY <1>1, <1>2

LEMMA OwnerKeeps ==
  ASSUME CaptureInv, SetOwner \/ ReleaseOwner
  PROVE  CaptureInv' /\ Conduct
<1>t. Mailbox /\ Radio /\ Stages /\ SeriesInv /\ Watched /\ Unsent /\ ConfirmedIsWhole /\ OneUserAtATime
  BY Zenon DEF CaptureInv
<1> USE DEF watch_vars, told_vars, series_vars, sensor_vars, count_vars
<1>1. UNCHANGED <<phase, active, http, client, watch_vars, told_vars, series_vars, request, mail,
                  stream, sensor_vars, count_vars, faults>>
  BY DEF SetOwner, ReleaseOwner
<1>2. \/ owner' = "none" /\ request # "external"
      \/ owner' = "collection" /\ ~series.on /\ ~active /\ ~watching /\ ~measuring
  BY DEF SetOwner, ReleaseOwner, Busy
<1>3. Types'
  <2>a. FlagTypes'
    BY Typings, <1>1, <1>2 DEF FlagTypes
  <2>d. WordTypes'
    BY Typings, <1>1, <1>2 DEF WordTypes
  <2>b. FileTypes' /\ CountTypes'
    BY Typings, <1>1, <1>2 DEF FileTypes, CountTypes
  <2>c. series' \in SeriesType /\ mail' \in Seq(Signals) /\ stream' \in StreamType
    BY Typings, <1>1, <1>2
  <2> QED
    BY <2>a, <2>d, <2>b, <2>c DEF Types
<1>4. Mailbox' /\ Radio'
  BY <1>t, <1>1 DEF Mailbox, Radio
<1>5. Stages' /\ Watched'
  BY <1>t, <1>1 DEF Stages, Watched, Final
<1>6. SeriesInv'
  BY <1>t, <1>1, <1>2 DEF SeriesInv
<1>7. Unsent' /\ ConfirmedIsWhole'
  BY <1>t, <1>1 DEF Unsent, NotSentIsTrue, ConfirmedIsWhole, Final
<1>8. OneUserAtATime'
  <2>1. ~series.on => ~queued
    BY <1>t DEF SeriesInv
  <2>2. ~active /\ ~watching /\ ~measuring => request = "none"
    BY <1>t DEF Stages
  <2> QED
    BY <1>t, <1>1, <1>2, <2>1, <2>2 DEF OneUserAtATime
<1>9. Conduct
  BY <1>1, Modest
<1> QED
  BY <1>3, <1>4, <1>5, <1>6, <1>7, <1>8, <1>9 DEF CaptureInv

LEMMA StartExternalKeeps ==
  ASSUME CaptureInv, StartExternal
  PROVE  CaptureInv' /\ Conduct
<1>t. SeriesInv
  BY Zenon DEF CaptureInv
<1>1. /\ owner = "collection" /\ ~active /\ ~watching /\ ~measuring /\ ~series.on /\ ~waiting
      /\ Launch("external") /\ UNCHANGED series_vars
  BY DEF StartExternal, Busy
<1>2. queued' = FALSE /\ waiting' = FALSE /\ ~series'.paused /\ series' = series
  BY Typings, <1>t, <1>1 DEF SeriesInv, series_vars, FlagTypes
<1>3. series' \in SeriesType
  BY Typings, <1>t, <1>2
<1> QED
  BY <1>1, <1>2, <1>3, Launches

-----------------------------------------------------------------------------
(* The recording time is over: the stream goes on, the watch begins. *)
LEMMA TimeElapsedKeeps ==
  ASSUME CaptureInv, TimeElapsed
  PROVE  CaptureInv' /\ Conduct
<1>t. Mailbox /\ Radio /\ Stages /\ SeriesInv /\ Watched /\ Unsent /\ ConfirmedIsWhole /\ OneUserAtATime
  BY Zenon DEF CaptureInv
<1> USE DEF told_vars, series_vars, owner_vars, sensor_vars, count_vars
<1>1. /\ active /\ phase' = "finalizing" /\ active' = FALSE
      /\ watching' = TRUE /\ watch' = [f \in Files |-> "unseen"] /\ quiet' = 0 /\ since' = 0
      /\ listing' = Polled /\ http' = (http /\ client) /\ client' = ((http /\ client) /\ client)
      /\ UNCHANGED <<measuring, pin, told_vars, series_vars, owner_vars, mail, stream, sensor_vars,
                     count_vars, faults>>
  BY DEF TimeElapsed, Elapse
<1>2. ~reported /\ ~measuring
  BY <1>t, <1>1 DEF Stages
<1>3. (http' <=> http) /\ (Running(stream) => client') /\ (http' => client')
  BY <1>t, <1>1, <1>2 DEF Stages, Mailbox
<1>4. Types'
  <2>1. phase' \in Phases /\ listing' \in {"none", "current", "stale"} /\ http' \in BOOLEAN /\ client' \in BOOLEAN
    BY Typings, <1>t, <1>1 DEF Phases, Polled, FlagTypes, WordTypes
  <2>2. watch' \in [Files -> {"unseen", "empty", "seen", "final"}]
    BY <1>1
  <2>a. FlagTypes'
    BY Typings, <1>1, <2>1 DEF FlagTypes
  <2>d. WordTypes'
    BY Typings, <1>1, <2>1 DEF WordTypes
  <2>b. FileTypes' /\ CountTypes'
    BY Typings, <1>1, <2>2 DEF FileTypes, CountTypes
  <2>c. series' \in SeriesType /\ mail' \in Seq(Signals) /\ stream' \in StreamType
    BY Typings, <1>1
  <2> QED
    BY Typings, <2>a, <2>d, <2>b, <2>c DEF Types
<1>5. Mailbox' /\ Radio'
  BY <1>t, <1>1, <1>3 DEF Mailbox, Radio
<1>6. Stages'
  BY <1>t, <1>1, <1>2, <1>3 DEF Stages
<1>7. Watched' /\ ConfirmedIsWhole'
  BY <1>1, <1>2 DEF Watched, ConfirmedIsWhole
<1>8. Unsent'
  BY <1>t, <1>1 DEF Unsent, NotSentIsTrue
<1>9. SeriesInv'
  BY <1>t, <1>1 DEF SeriesInv
<1>10. OneUserAtATime'
  BY <1>t, <1>1 DEF OneUserAtATime
<1>11. Conduct
  BY <1>1, Modest
<1> QED
  BY <1>4, <1>5, <1>6, <1>7, <1>8, <1>9, <1>10, <1>11 DEF CaptureInv

(* The clocks of the watch, the listings that are asked for or dropped. *)
LEMMA WatchKeeps ==
  ASSUME CaptureInv, TimePasses \/ Poll \/ ListingDropped
  PROVE  CaptureInv' /\ Conduct
<1>t. Mailbox /\ Radio /\ Stages /\ SeriesInv /\ Watched /\ Unsent /\ ConfirmedIsWhole /\ OneUserAtATime
  BY Zenon DEF CaptureInv
<1> USE DEF told_vars, series_vars, owner_vars, sensor_vars, count_vars
<1>1. UNCHANGED <<phase, active, http, client, watching, measuring, watch, pin, told_vars,
                  series_vars, owner_vars, mail, stream, sensor_vars, count_vars>>
  BY DEF TimePasses, Poll, ListingDropped
<1>2. quiet' \in 0 .. 2 /\ since' \in 0 .. 2 /\ (quiet = 2 => quiet' = 2)
  BY Typings, <1>t DEF TimePasses, Poll, ListingDropped, CountTypes
<1>3. listing' \in {"none", "current", "stale"} /\ (listing' = "current" => watching)
  BY Typings, <1>t DEF TimePasses, Poll, ListingDropped, WordTypes, Stages
<1>4. faults' \in 0 .. Faults
  <2>1. faults' = faults \/ (faults < Faults /\ faults' = faults + 1)
    BY DEF TimePasses, Poll, ListingDropped
  <2> QED
    BY Typings, Amounts, <2>1 DEF CountTypes
<1>5. Types'
  <2>a. FlagTypes'
    BY Typings, <1>1, <1>2, <1>3, <1>4 DEF FlagTypes
  <2>d. WordTypes'
    BY Typings, <1>1, <1>2, <1>3, <1>4 DEF WordTypes
  <2>b. FileTypes' /\ CountTypes'
    BY Typings, <1>1, <1>2, <1>3, <1>4 DEF FileTypes, CountTypes
  <2>c. series' \in SeriesType /\ mail' \in Seq(Signals) /\ stream' \in StreamType
    BY Typings, <1>1, <1>2, <1>3, <1>4
  <2> QED
    BY <2>a, <2>d, <2>b, <2>c DEF Types
<1>6. Mailbox' /\ Radio'
  BY <1>t, <1>1 DEF Mailbox, Radio
<1>7. Stages'
  BY <1>t, <1>1, <1>3 DEF Stages
<1>8. Watched'
  BY <1>t, <1>1, <1>2 DEF Watched, Final
<1>9. Unsent' /\ ConfirmedIsWhole'
  BY <1>t, <1>1 DEF Unsent, NotSentIsTrue, ConfirmedIsWhole, Final
<1>10. SeriesInv'
  BY <1>t, <1>1 DEF SeriesInv
<1>11. OneUserAtATime'
  BY <1>t, <1>1 DEF OneUserAtATime
<1>12. Conduct
  BY <1>1, Modest
<1> QED
  BY <1>5, <1>6, <1>7, <1>8, <1>9, <1>10, <1>11, <1>12 DEF CaptureInv

-----------------------------------------------------------------------------
(* What is said of a request that was not sent stays true while the sensor does not get one. *)
LEMMA UnsentStays ==
  ASSUME CaptureInv, mail' = mail \/ (mail # <<>> /\ mail' = Tail(mail)), got' = got,
         reported' => (outcome' = outcome /\ reported) \/ outcome' # "not sent"
  PROVE  Unsent'
<1>1. \A i \in 1 .. Len(mail') : \E j \in 1 .. Len(mail) : mail'[i] = mail[j]
  <2>1. CASE mail' = mail
    BY <2>1
  <2>2. CASE mail # <<>> /\ mail' = Tail(mail)
    BY <2>2, Typings, TailOf
  <2> QED
    BY <2>1, <2>2
<1>2. /\ \A j \in 1 .. Len(mail) : (mail[j].kind = "not sent" => ~got) /\ (mail[j].kind = "reset" => ~ResetsAreEarly)
      /\ ResetsAreEarly => NotSentIsTrue
  BY DEF CaptureInv, Unsent
<1>3. ~got => ~got'
  OBVIOUS
<1>4. \A i \in 1 .. Len(mail') : (mail'[i].kind = "not sent" => ~got') /\ (mail'[i].kind = "reset" => ~ResetsAreEarly)
  <2> SUFFICES ASSUME NEW i \in 1 .. Len(mail')
               PROVE  (mail'[i].kind = "not sent" => ~got') /\ (mail'[i].kind = "reset" => ~ResetsAreEarly)
    OBVIOUS
  <2>1. PICK j \in 1 .. Len(mail) : mail'[i] = mail[j]
    BY <1>1
  <2> QED
    BY <2>1, <1>2, <1>3
<1>5. ResetsAreEarly => (outcome' = "not sent" /\ reported' => ~got')
  BY <1>2, <1>3 DEF NotSentIsTrue
<1>6. ResetsAreEarly => NotSentIsTrue'
  BY <1>5 DEF NotSentIsTrue
<1> QED
  BY <1>4, <1>6 DEF Unsent, ResetsAreEarly

-----------------------------------------------------------------------------
(* What a listing tells of the files, and when it ends the watch. *)
NothingComes(w) == finished /\ named = {} /\ (\A f \in Files : w[f] = "unseen") /\ since >= 1
WatchStates == [Files -> {"unseen", "empty", "seen", "final"}]

(* One listing: what there is to see, the files that are the recording's, those that grew or are empty. *)
Read(visible, mine, grew, empty) ==
    LET w == Updated(Pruned, mine, grew, empty)
        new == {f \in mine : Pruned[f] = "unseen"}
        q == IF new # {} \/ grew # {} THEN 0 ELSE quiet
        nothing == finished /\ named = {} /\ (\A f \in Files : w[f] = "unseen") /\ since >= 1
        done == nothing \/ Settled(w, q, since)
    IN  /\ listing = "current" /\ listing' = "none"
        /\ {f \in Files : watch[f] # "unseen"} \subseteq visible
        /\ grew \subseteq mine \ new /\ empty \subseteq new
        /\ watch' = w /\ quiet' = q
        /\ pin' = PinnedTo(mine)
        /\ IF done THEN FinishCurrentCapture(w)
           ELSE UNCHANGED <<watching, measuring, ending_vars>>
        /\ fresh' = fresh \ (grew \cup (new \ empty)) /\ UNCHANGED got
        /\ UNCHANGED <<active, http, since, told_vars, owner, captures, faults>>

LEMMA ListingTaken ==
  ASSUME CaptureInv, ListingRead
  PROVE  \E w \in WatchStates, q \in {0, quiet} :
           /\ listing = "current" /\ listing' = "none"
           /\ watch' = w /\ quiet' = q /\ pin' \in {"none", "own", "neighbour"} /\ fresh' \subseteq Files
           /\ named # {} => \A f \in Neighbour : w[f] = "unseen"
           /\ \/ (NothingComes(w) \/ Settled(w, q, since)) /\ FinishCurrentCapture(w)
              \/ UNCHANGED <<watching, measuring, ending_vars>>
           /\ UNCHANGED <<active, http, since, told_vars, owner, captures, faults, got>>
<1> DEFINE W(mine, grew, empty) == Updated(Pruned, mine, grew, empty)
           N(mine) == {f \in mine : Pruned[f] = "unseen"}
           Q(mine, grew) == IF N(mine) # {} \/ grew # {} THEN 0 ELSE quiet
           T(mine, grew, empty) == NothingComes(W(mine, grew, empty)) \/ Settled(W(mine, grew, empty), Q(mine, grew), since)
<1> DEFINE Body(mine, grew, empty) ==
        /\ listing = "current" /\ listing' = "none"
        /\ watch' = W(mine, grew, empty) /\ quiet' = Q(mine, grew)
        /\ pin' = PinnedTo(mine)
        /\ IF T(mine, grew, empty) THEN FinishCurrentCapture(W(mine, grew, empty))
           ELSE UNCHANGED <<watching, measuring, ending_vars>>
        /\ fresh' = fresh \ (grew \cup (N(mine) \ empty)) /\ UNCHANGED got
        /\ UNCHANGED <<active, http, since, told_vars, owner, captures, faults>>
<1>1. PICK visible \in SUBSET {f \in Files : disk[f] # "absent"}, grew \in SUBSET fresh :
        \E mine \in Mine(visible), empty \in SUBSET {f \in visible : disk[f] = "open"} : Body(mine, grew, empty)
  <2>1. PICK visible \in SUBSET {f \in Files : disk[f] # "absent"}, grew \in SUBSET fresh :
          \E mine \in Mine(visible), empty \in SUBSET {f \in visible : disk[f] = "open"} : Read(visible, mine, grew, empty)
    BY Zenon DEF ListingRead, Read
  <2>2. PICK mine \in Mine(visible), empty \in SUBSET {f \in visible : disk[f] = "open"} : Read(visible, mine, grew, empty)
    BY Zenon, <2>1
  <2>3. Body(mine, grew, empty)
    BY Zenon, <2>2 DEF Read, NothingComes
  <2> QED
    BY Zenon, <2>3
<1>p. PICK mine \in Mine(visible), empty \in SUBSET {f \in visible : disk[f] = "open"} : Body(mine, grew, empty)
  BY Zenon, <1>1
<1> HIDE DEF T
<1>2. Pruned \in WatchStates /\ (named # {} => \A f \in Neighbour : Pruned[f] = "unseen")
  BY Typings DEF Pruned, FileTypes, WatchStates, Files
<1>3. W(mine, grew, empty) \in WatchStates
  BY <1>2 DEF Updated, WatchStates
<1>4. named # {} => mine \subseteq Parts
  BY DEF Mine
<1>5. named # {} => \A f \in Neighbour : W(mine, grew, empty)[f] = "unseen"
  BY <1>2, <1>4, Apart DEF Updated, Files
<1>6. pin' \in {"none", "own", "neighbour"}
  BY <1>p, Typings DEF PinnedTo, WordTypes
<1>7. fresh' \subseteq Files
  BY <1>p, Typings DEF FileTypes
<1>8. Q(mine, grew) \in {0, quiet}
  OBVIOUS
<1> HIDE DEF W, Q
<1>9. \/ (NothingComes(W(mine, grew, empty)) \/ Settled(W(mine, grew, empty), Q(mine, grew), since))
         /\ FinishCurrentCapture(W(mine, grew, empty))
      \/ UNCHANGED <<watching, measuring, ending_vars>>
  BY Zenon, <1>p DEF T
<1> QED
  BY Zenon, <1>p, <1>3, <1>5, <1>6, <1>7, <1>8, <1>9

(* A step of the watch that ends nothing. *)
LEMMA WatchGoesOn ==
  ASSUME CaptureInv, ~reported, ~active, NEW w \in WatchStates, watch' = w, quiet' \in 0 .. 2,
         pin' \in {"none", "own", "neighbour"}, fresh' \subseteq Files, faults' \in 0 .. Faults,
         listing' \in {"none", "current", "stale"}, watching' \in BOOLEAN, measuring' \in BOOLEAN,
         watching' <=> ~measuring', listing' = "current" => watching',
         measuring' => finished \/ ~http, Watched',
         UNCHANGED ending_vars, UNCHANGED <<active, http, since, told_vars, owner, captures, got>>
  PROVE  CaptureInv' /\ Conduct
<1>t. Mailbox /\ Radio /\ Stages /\ SeriesInv /\ Unsent /\ OneUserAtATime
  BY Zenon DEF CaptureInv
<1>1. /\ phase' = phase /\ client' = client /\ series' = series /\ waiting' = waiting /\ queued' = queued
      /\ request' = request /\ mail' = mail /\ stream' = stream /\ radio' = radio /\ disk' = disk
      /\ reported' = reported /\ outcome' = outcome
  BY DEF ending_vars
<1>2. /\ active' = active /\ http' = http /\ since' = since /\ named' = named /\ finished' = finished /\ error' = error
      /\ lost' = lost /\ owner' = owner /\ captures' = captures /\ got' = got
  BY DEF told_vars
<1>3. Types'
  <2>a. FlagTypes'
    BY Typings, <1>1, <1>2 DEF FlagTypes
  <2>d. WordTypes'
    BY Typings, <1>1, <1>2 DEF WordTypes
  <2>b. FileTypes' /\ CountTypes'
    BY Typings, <1>1, <1>2 DEF FileTypes, CountTypes, WatchStates
  <2>c. series' \in SeriesType /\ mail' \in Seq(Signals) /\ stream' \in StreamType
    BY Typings, <1>1, <1>2
  <2> QED
    BY <2>a, <2>d, <2>b, <2>c DEF Types
<1>4. Mailbox' /\ Radio'
  BY <1>t, <1>1, <1>2 DEF Mailbox, Radio
<1>5. Stages'
  BY <1>t, <1>1, <1>2 DEF Stages
<1>6. SeriesInv'
  BY <1>t, <1>1, <1>2 DEF SeriesInv
<1>7. Unsent'
  BY <1>1, <1>2, UnsentStays
<1>8. ConfirmedIsWhole'
  BY <1>1 DEF ConfirmedIsWhole
<1>9. OneUserAtATime'
  BY <1>t, <1>1, <1>2 DEF OneUserAtATime
<1>10. Conduct
  BY <1>1, <1>2, Modest
<1> QED
  BY <1>3, <1>4, <1>5, <1>6, <1>7, <1>8, <1>9, <1>10 DEF CaptureInv

(* The watch ends when the sensor is done with the files, or nothing changes any more. *)
LEMMA SettledWhy ==
  ASSUME CaptureInv, NEW w \in WatchStates, NEW q \in {0, quiet}, Settled(w, q, since)
  PROVE  /\ finished \/ ~http \/ ~client
         /\ Final(w) = {} => quiet = 2 \/ since = 2
         /\ Final(w) # {} /\ finished => q = 2 \/ named \subseteq Final(w)
<1>1. q = 2 => quiet = 2
  OBVIOUS
<1>2. finished \/ ~http \/ ~client
  BY DEF Settled
<1>3. Final(w) = {} => q = 2 \/ since = 2
  BY DEF Settled
<1>4. Final(w) # {} /\ finished => q = 2 \/ named \subseteq Final(w)
  BY DEF Settled
<1> QED
  BY <1>1, <1>2, <1>3, <1>4

(* Every file still written is one the sensor has named, once it has finished. *)
LEMMA WrittenIsNamed ==
  ASSUME CaptureInv, finished, NEW f \in Parts, disk[f] = "open"
  PROVE  f \in named
<1>1. finished = TRUE
  BY Typings DEF FlagTypes
<1>2. Orderly(mail, stream, TRUE) /\ Heard(mail, stream, named)
  BY <1>1 DEF CaptureInv, Mailbox
<1> QED
  BY <1>2, OpenFile, AllHeard, Typings

LEMMA ListingReadKeeps ==
  ASSUME CaptureInv, ListingRead
  PROVE  CaptureInv' /\ Conduct
<1>t. Mailbox /\ Radio /\ Stages /\ SeriesInv /\ Watched /\ Unsent /\ ConfirmedIsWhole /\ OneUserAtATime
  BY Zenon DEF CaptureInv
<1>0. PICK w \in WatchStates, q \in {0, quiet} :
        /\ listing = "current" /\ listing' = "none"
        /\ watch' = w /\ quiet' = q /\ pin' \in {"none", "own", "neighbour"} /\ fresh' \subseteq Files
        /\ named # {} => \A f \in Neighbour : w[f] = "unseen"
        /\ \/ (NothingComes(w) \/ Settled(w, q, since)) /\ FinishCurrentCapture(w)
           \/ UNCHANGED <<watching, measuring, ending_vars>>
        /\ UNCHANGED <<active, http, since, told_vars, owner, captures, faults, got>>
  BY Zenon, ListingTaken
<1>1. watching /\ ~reported /\ ~active /\ ~measuring
  BY <1>0, <1>t DEF Stages
<1>2. quiet' \in 0 .. 2 /\ faults' \in 0 .. Faults
  BY <1>0, Typings DEF CountTypes
<1>3. CASE UNCHANGED <<watching, measuring, ending_vars>>
  <2>1. watching' /\ ~measuring' /\ watching' \in BOOLEAN /\ measuring' \in BOOLEAN
    BY <1>1, <1>3, Typings DEF FlagTypes
  <2>2. Watched'
    BY <2>1 DEF Watched
  <2> QED
    BY <1>0, <1>1, <1>2, <1>3, <2>1, <2>2, WatchGoesOn
<1>4. CASE (NothingComes(w) \/ Settled(w, q, since)) /\ FinishCurrentCapture(w)
  <2>1. finished \/ ~http
    <3>1. NothingComes(w) => finished
      BY DEF NothingComes
    <3>2. Settled(w, q, since) => finished \/ ~http \/ ~client
      BY SettledWhy
    <3>3. http => client
      BY <1>1, <1>t DEF Stages
    <3> QED
      BY <1>4, <3>1, <3>2, <3>3
  <2>2. named # {} => Final(w) \cap Neighbour = {}
    BY <1>0 DEF Final
  <2>3. CASE Final(w) = {}
    <3>1. Complete(w, FALSE, mail)
      BY <1>4, <2>3 DEF FinishCurrentCapture
    <3>2. CaptureInv' /\ TakesItsTurn /\ PostsUnlessHeld
      BY <1>0, <1>1, <1>2, <2>1, <3>1, Completed DEF WatchStates
    <3>3. CutsNothingShort
      <4> SUFFICES ASSUME NEW f \in Parts, disk[f] = "open"
                   PROVE  stream.st = "open" /\ (quiet = 2 \/ since = 2)
        BY DEF CutsNothingShort
      <4>1. stream.st = "open"
        BY OpenFile
      <4>2. ~NothingComes(w)
        BY WrittenIsNamed DEF NothingComes
      <4> QED
        BY <1>4, <2>3, <4>1, <4>2, SettledWhy
    <3> QED
      BY <3>2, <3>3 DEF Conduct
  <2>4. CASE Final(w) # {}
    <3>1. watching' = FALSE /\ measuring' = TRUE /\ UNCHANGED ending_vars
      BY <1>4, <2>4 DEF FinishCurrentCapture
    <3>2. ~NothingComes(w)
      BY <2>4 DEF NothingComes, Final
    <3>3. finished => q = 2 \/ named \subseteq Final(w)
      BY <1>4, <2>4, <3>2, SettledWhy
    <3>4. Watched'
      BY <1>0, <2>2, <3>3 DEF Watched, told_vars, Final
    <3> QED
      BY <1>0, <1>1, <1>2, <2>1, <3>1, <3>4, WatchGoesOn
  <2> QED
    BY <2>3, <2>4
<1> QED
  BY <1>0, <1>3, <1>4

LEMMA HeadersReadKeeps ==
  ASSUME CaptureInv, NEW read \in BOOLEAN, HeadersRead(read)
  PROVE  CaptureInv' /\ Conduct
<1>t. Mailbox /\ Radio /\ Stages /\ SeriesInv /\ Watched /\ Unsent /\ ConfirmedIsWhole /\ OneUserAtATime
  BY Zenon DEF CaptureInv
<1>0. /\ measuring /\ (read \/ (HeaderFaults /\ faults < Faults))
      /\ faults' = IF read THEN faults ELSE faults + 1
      /\ UNCHANGED <<fresh, got>> /\ UNCHANGED <<active, http, watch, pin, quiet, since, listing, told_vars, owner, captures>>
      /\ IF read /\ Unwritten # {} /\ http /\ client
         THEN /\ measuring' = FALSE /\ watching' = TRUE
              /\ UNCHANGED ending_vars
         ELSE Complete(watch, read /\ Unwritten = {}, mail)
  BY DEF HeadersRead
<1>1. ~watching /\ ~reported /\ ~active /\ (finished \/ ~http) /\ listing \in {"none", "stale"}
  BY <1>0, <1>t, Typings DEF Stages, WordTypes
<1>2. faults' \in 0 .. Faults
  BY <1>0, Typings, Amounts DEF CountTypes
<1>3. /\ watch \in WatchStates /\ pin' \in {"none", "own", "neighbour"} /\ quiet' \in 0 .. 2
      /\ listing' \in {"none", "stale"} /\ fresh' \subseteq Files /\ watch' = watch
  BY <1>0, <1>1, Typings DEF FileTypes, WordTypes, CountTypes, WatchStates
<1>u. UNCHANGED <<active, http, since, told_vars, owner, captures, got>>
  BY <1>0
<1>4. CASE read /\ Unwritten # {} /\ http /\ client
  <2>1. measuring' = FALSE /\ watching' = TRUE /\ UNCHANGED ending_vars
    BY <1>0, <1>4
  <2>2. Watched'
    BY <2>1 DEF Watched
  <2> QED
    BY <1>1, <1>2, <1>3, <1>u, <2>1, <2>2, WatchGoesOn
<1>5. CASE ~(read /\ Unwritten # {} /\ http /\ client)
  <2> DEFINE measured == read /\ Unwritten = {}
  <2>1. measured \in BOOLEAN /\ Complete(watch, measured, mail)
    BY <1>0, <1>5
  <2>2. named # {} => Final(watch) \cap Neighbour = {}
    BY <1>0, <1>t DEF Watched
  <2> HIDE DEF measured
  <2>3. CaptureInv' /\ TakesItsTurn /\ PostsUnlessHeld
    BY <1>1, <1>2, <1>3, <1>u, <2>1, <2>2, Completed DEF WatchStates
  <2>4. ASSUME ~HeaderFaults, NEW f \in Parts, disk[f] = "open"
        PROVE  stream.st = "open" /\ quiet = 2
    <3>1. stream.st = "open" /\ http /\ client
      BY <2>4, OpenFile, Streaming
    <3>2. Unwritten = {}
      BY <1>0, <1>5, <2>4, <3>1
    <3>3. f \notin Final(watch)
      BY <2>4, <3>2 DEF Unwritten
    <3>4. finished /\ f \in named
      BY <1>1, <2>4, <3>1, WrittenIsNamed
    <3> QED
      BY <1>0, <1>t, <3>1, <3>3, <3>4 DEF Watched
  <2> QED
    BY <2>3, <2>4 DEF Conduct, CutsNothingShort
<1> QED
  BY <1>4, <1>5

-----------------------------------------------------------------------------
(* What a signal of the stream does not touch. *)
LEMMA EventKeeps ==
  ASSUME CaptureInv, OnEvent
  PROVE  CaptureInv' /\ Conduct
<1>t. Mailbox /\ Radio /\ Stages /\ SeriesInv /\ Watched /\ Unsent /\ ConfirmedIsWhole /\ OneUserAtATime
  BY Zenon DEF CaptureInv
<1> DEFINE x == Head(mail)
<1>0. /\ mail # <<>> /\ mail' = Tail(mail)
      /\ \/ /\ x.kind = "part" /\ named' = named \cup {x.file} /\ pin' = "own"
            /\ UNCHANGED <<finished, error, lost, listing>>
         \/ /\ x.kind = "finished" /\ named' = named /\ finished' = TRUE
            /\ listing' = (IF phase = "finalizing" /\ watching THEN Polled ELSE listing)
            /\ UNCHANGED <<error, lost>> /\ UNCHANGED pin
         \/ /\ x.kind = "error" /\ error' = (error \/ ~finished)
            /\ UNCHANGED <<named, finished, lost, listing, pin>>
      /\ UNCHANGED <<phase, active, http, client, watching, measuring, watch, quiet, since, series_vars,
                     owner_vars, stream, sensor_vars, count_vars, faults>>
  BY DEF OnEvent, MarkFinished
<1>1. /\ x \in Signals /\ x.kind \in Events /\ mail \in Seq(Signals) /\ Orderly(mail, stream, finished)
      /\ Heard(mail, stream, named)
  BY <1>0, <1>t, Typings, Taken DEF Events, Mailbox
<1>2. /\ ~finished /\ (x.kind = "part" => x.file \in stream.parts) /\ (x.kind = "finished" => stream.finished)
  BY <1>0, <1>1, OrderlyHead
<1>3. http /\ ~reported /\ ~measuring
  BY <1>0, <1>2, <1>t DEF Mailbox, Stages
<1>4. /\ mail' \in Seq(Signals) /\ Orderly(mail', stream, finished)
      /\ x.kind = "finished" => Orderly(mail', stream, TRUE)
  BY <1>0, <1>1, Taken, OrderlyTail, OrderlyFinish
<1>5. named \subseteq named' /\ named' \subseteq stream.parts /\ (x.kind = "part" => x.file \in named')
  BY <1>0, <1>1, <1>2 DEF Heard
<1> HIDE DEF x
<1>6. Heard(mail', stream, named')
  BY <1>0, <1>1, <1>5, HeardTail DEF x
<1>7. /\ phase' = phase /\ active' = active /\ http' = http /\ client' = client /\ watching' = watching
      /\ measuring' = measuring /\ watch' = watch /\ quiet' = quiet /\ since' = since
      /\ series' = series /\ waiting' = waiting /\ queued' = queued /\ owner' = owner /\ request' = request
      /\ stream' = stream /\ radio' = radio /\ disk' = disk /\ fresh' = fresh /\ got' = got
      /\ captures' = captures /\ reported' = reported /\ outcome' = outcome /\ faults' = faults
  BY <1>0 DEF series_vars, owner_vars, sensor_vars, count_vars
<1>8. /\ finished' \in BOOLEAN /\ error' \in BOOLEAN /\ lost' \in BOOLEAN
  BY <1>0, Typings DEF FlagTypes
<1>9. pin' \in {"none", "own", "neighbour"} /\ listing' \in {"none", "current", "stale"} /\ (listing' = "current" => watching)
  BY <1>0, <1>t, Typings DEF WordTypes, Polled, Stages
<1>10. Types'
  <2>a. FlagTypes'
    BY Typings, <1>7, <1>8 DEF FlagTypes
  <2>d. WordTypes'
    BY Typings, <1>7, <1>9 DEF WordTypes
  <2>b. FileTypes' /\ CountTypes'
    BY Typings, <1>5, <1>7 DEF FileTypes, CountTypes, StreamType
  <2>c. series' \in SeriesType /\ mail' \in Seq(Signals) /\ stream' \in StreamType
    BY Typings, <1>4, <1>7
  <2> QED
    BY <2>a, <2>d, <2>b, <2>c DEF Types
<1>11. Mailbox'
  <2>1. Orderly(mail', stream', finished')
    <3>1. CASE x.kind = "finished"
      <4>1. finished' = TRUE
        BY <1>0, <3>1
      <4> QED
        BY <1>4, <1>7, <3>1, <4>1
    <3>2. CASE x.kind # "finished"
      <4>1. finished' = finished
        BY <1>0, <3>2
      <4> QED
        BY <1>4, <1>7, <4>1
    <3> QED
      BY <3>1, <3>2
  <2>2. finished' => stream'.finished
    <3>1. x.kind # "finished" => finished' = finished
      BY <1>0
    <3> QED
      BY <1>2, <1>7, <3>1
  <2>3. Heard(mail', stream', named')
    BY <1>6, <1>7
  <2>4. http'
    BY <1>3, <1>7
  <2> QED
    BY <2>1, <2>2, <2>3, <2>4 DEF Mailbox
<1>12. Radio'
  BY <1>t, <1>7 DEF Radio
<1>13. Stages'
  BY <1>t, <1>3, <1>7, <1>9 DEF Stages
<1>14. SeriesInv' /\ OneUserAtATime'
  BY <1>t, <1>7 DEF SeriesInv, OneUserAtATime
<1>15. Watched' /\ ConfirmedIsWhole'
  BY <1>3, <1>7 DEF Watched, ConfirmedIsWhole
<1>16. Unsent'
  BY <1>0, <1>3, <1>7, UnsentStays
<1>17. Conduct
  BY <1>7, Modest
<1> QED
  BY <1>10, <1>11, <1>12, <1>13, <1>14, <1>15, <1>16, <1>17 DEF CaptureInv

(* A step on the UI thread that handles the last signal: the stream is over. *)
LEMMA LastSignal ==
  ASSUME CaptureInv, mail # <<>>, Head(mail).kind \in Over, mail' = Tail(mail), http' = FALSE,
         NEW b \in BOOLEAN, client' = b, Types', finished' => stream.finished,
         named' = named, finished => finished',
         ~reported' <=> active' \/ watching' \/ measuring, ~(active' /\ watching'), measuring => ~(active' \/ watching'),
         request' # "none" <=> ~reported', listing' = "current" => watching',
         Unsent',
         outcome' = "confirmed" /\ reported' => watch' = watch /\ outcome = "confirmed" /\ reported,
         measuring => watch' = watch /\ quiet' = quiet /\ (finished' => finished),
         SeriesInv', OneUserAtATime',
         UNCHANGED <<measuring, owner, stream, sensor_vars, captures>>, queued' => queued
  PROVE  CaptureInv' /\ Conduct
<1>t. Mailbox /\ Radio /\ Stages /\ SeriesInv /\ Watched /\ Unsent /\ ConfirmedIsWhole /\ OneUserAtATime
  BY Zenon DEF CaptureInv
<1>0. /\ measuring' = measuring /\ owner' = owner /\ stream' = stream /\ radio' = radio /\ disk' = disk
      /\ fresh' = fresh /\ got' = got /\ captures' = captures
  BY DEF sensor_vars
<1>1. Tail(mail) = <<>> /\ ~Running(stream)
  BY <1>t, Typings, OrderlyOver DEF Mailbox
<1>2. Heard(mail', stream', named')
  <2>1. mail \in Seq(Signals) /\ Orderly(mail, stream, finished) /\ Heard(mail, stream, named)
    BY <1>t, Typings DEF Mailbox
  <2>2. Head(mail).kind # "part"
    BY DEF Over, Ended, NoStream
  <2>3. named \subseteq stream.parts
    BY <2>1 DEF Heard
  <2> QED
    BY <1>0, <2>1, <2>2, <2>3, HeardTail
<1>3. Mailbox'
  <2>1. Orderly(mail', stream', finished')
    BY <1>1, OrderlyNothing
  <2>2. mail' = <<>> /\ ~Running(stream')
    BY <1>0, <1>1
  <2>3. finished' => stream'.finished
    BY <1>0
  <2> QED
    BY <1>2, <2>1, <2>2, <2>3 DEF Mailbox
<1>4. Radio'
  BY <1>0, <1>t DEF Radio
<1>5. Stages'
  <2>1. ~Running(stream') /\ ~http'
    BY <1>0, <1>1
  <2>2. (~reported' <=> active' \/ watching' \/ measuring') /\ ~(active' /\ watching')
    BY <1>0
  <2>3. ~(active' /\ measuring') /\ ~(watching' /\ measuring')
    BY <1>0
  <2> QED
    BY <2>1, <2>2, <2>3 DEF Stages
<1>6. Watched'
  <2>a. measuring' => measuring
    BY <1>0
  <2> SUFFICES ASSUME measuring PROVE Watched'
    BY <2>a DEF Watched
  <2>1. watch' = watch /\ quiet' = quiet /\ (finished' => finished)
    OBVIOUS
  <2>2. named # {} => Final(watch) \cap Neighbour = {}
    BY <1>t DEF Watched
  <2>3. finished => quiet = 2 \/ named \subseteq Final(watch)
    BY <1>t DEF Watched
  <2>4. Final(watch)' = Final(watch)
    BY <2>1 DEF Final
  <2> QED
    BY <2>1, <2>2, <2>3, <2>4 DEF Watched
<1>7. ConfirmedIsWhole'
  BY <1>0, <1>t DEF ConfirmedIsWhole, Final
<1>8. Conduct
  <2>1. queued' = queued \/ ~queued'
    BY Typings DEF FlagTypes, Types
  <2> QED
    BY <1>0, <2>1, Modest
<1> QED
  BY <1>3, <1>4, <1>5, <1>6, <1>7, <1>8 DEF CaptureInv

(* A recording that is refused ends without a file to wait for. *)
LEMMA Refused ==
  ASSUME CaptureInv, NEW how \in {"not sent", "rejected"}, Refuse(how), ~reported
  PROVE  /\ phase' \in Phases /\ active' = FALSE /\ watching' = FALSE /\ listing' \in {"none", "stale"}
         /\ series' \in SeriesType /\ ~series'.on /\ ~series'.paused /\ waiting' = FALSE /\ queued' = FALSE
         /\ SeriesInv' /\ outcome' = how /\ reported' = TRUE /\ request' = "none"
         /\ watch' = watch /\ quiet' = quiet /\ since' = since
<1>1. /\ phase' = "failed" /\ active' = FALSE /\ watching' = FALSE
      /\ listing' = IF listing = "none" THEN "none" ELSE "stale"
      /\ series' = NoSeries /\ waiting' = FALSE /\ queued' = queued
      /\ outcome' = how /\ reported' = TRUE /\ request' = "none"
      /\ watch' = watch /\ quiet' = quiet /\ since' = since
  BY DEF Refuse, WatchDropped, SeriesEnded
<1>2. ~queued
  BY DEF CaptureInv, SeriesInv
<1>3. queued' = FALSE
  BY <1>1, <1>2, Typings DEF FlagTypes
<1>4. series' \in SeriesType /\ ~series'.on /\ ~series'.paused
  BY <1>1 DEF NoSeries, SeriesType
<1>5. SeriesInv'
  BY <1>1, <1>3, <1>4 DEF SeriesInv
<1>6. phase' \in Phases
  BY <1>1 DEF Phases
<1> QED
  BY <1>1, <1>3, <1>4, <1>5, <1>6

LEMMA NoStreamKeeps ==
  ASSUME CaptureInv, OnNoStream
  PROVE  CaptureInv' /\ Conduct
<1>t. Mailbox /\ Radio /\ Stages /\ SeriesInv /\ Watched /\ Unsent /\ ConfirmedIsWhole /\ OneUserAtATime
  BY Zenon DEF CaptureInv
<1> DEFINE x == Head(mail)
<1>0. /\ mail # <<>> /\ mail' = Tail(mail)
      /\ http' = FALSE /\ client' = (client /\ active)
      /\ \/ x.kind \in NotSent /\ Refuse("not sent") /\ UNCHANGED told_vars
         \/ /\ x.kind = "rejected" /\ Refuse("rejected")
            /\ error' = TRUE /\ UNCHANGED <<named, finished, lost>>
         \/ /\ x.kind = "no reply"
            /\ UNCHANGED <<phase, active, watching, watch, quiet, since, listing, told_vars, series,
                           waiting, queued, request, reported, outcome>>
      /\ UNCHANGED <<measuring, pin, owner, stream, sensor_vars, captures, faults>>
  BY DEF OnNoStream
<1>1. x \in Signals /\ x.kind \in NoStream /\ x.kind \in Over /\ x = mail[1] /\ 1 \in 1 .. Len(mail)
  <2>1. x.kind \in NoStream /\ x.kind \in Over
    BY <1>0 DEF NotSent, NoStream, Over
  <2>2. Len(mail) \in Nat \ {0} /\ x \in Signals /\ x = mail[1]
    BY <1>0, Typings, Taken
  <2>3. 1 \in 1 .. Len(mail)
    BY <2>2
  <2> QED
    BY <2>1, <2>2, <2>3
<1>2. ~stream.finished /\ ~finished
  BY <1>0, <1>1, <1>t, Typings, OrderlyHead DEF Mailbox
<1>3. http /\ ~reported /\ ~measuring
  BY <1>0, <1>2, <1>t DEF Mailbox, Stages
<1>4. (x.kind = "not sent" => ~got) /\ (x.kind = "reset" => ~ResetsAreEarly)
  BY <1>1, <1>t DEF Unsent
<1> HIDE DEF x
<1>u. /\ measuring' = measuring /\ pin' = pin /\ owner' = owner /\ stream' = stream /\ radio' = radio /\ disk' = disk
      /\ fresh' = fresh /\ got' = got /\ captures' = captures /\ faults' = faults
  BY <1>0 DEF sensor_vars
<1>5. /\ mail' \in Seq(Signals) /\ client' \in BOOLEAN /\ series' \in SeriesType /\ waiting' \in BOOLEAN
      /\ queued' \in BOOLEAN /\ (queued' => queued) /\ phase' \in Phases /\ SeriesInv'
      /\ named' = named /\ finished' = finished /\ lost' = lost /\ error' \in BOOLEAN
      /\ watch' = watch /\ quiet' = quiet /\ since' = since
      /\ active' \in BOOLEAN /\ watching' \in BOOLEAN /\ reported' \in BOOLEAN
      /\ listing' \in {"none", "current", "stale"} /\ (listing' = "current" => watching')
      /\ request' \in {"none", "manual", "external"} /\ outcome' \in {"not sent", "rejected", outcome}
      /\ (~reported' <=> active' \/ watching' \/ measuring) /\ ~(active' /\ watching')
      /\ (request' # "none" <=> ~reported')
      /\ (request' = "none" \/ request' = request) /\ (series'.on => series.on)
      /\ reported' => /\ outcome' \in {"not sent", "rejected"}
                      /\ outcome' = "not sent" => x.kind \in NotSent
  <2>1. mail' \in Seq(Signals) /\ client' \in BOOLEAN
    BY <1>0, Typings, Taken
  <2>2. CASE x.kind \in NotSent /\ Refuse("not sent") /\ UNCHANGED told_vars
    <3>1. named' = named /\ finished' = finished /\ lost' = lost /\ error' \in BOOLEAN
      BY <2>2, Typings DEF told_vars, FlagTypes
    <3> QED
      BY <1>3, <2>1, <2>2, <3>1, Refused
  <2>3. CASE x.kind = "rejected" /\ Refuse("rejected") /\ error' = TRUE /\ UNCHANGED <<named, finished, lost>>
    BY <1>3, <2>1, <2>3, Refused
  <2>4. CASE /\ x.kind = "no reply"
             /\ UNCHANGED <<phase, active, watching, watch, quiet, since, listing, told_vars, series,
                            waiting, queued, request, reported, outcome>>
    <3>1. /\ phase' = phase /\ active' = active /\ watching' = watching /\ watch' = watch /\ quiet' = quiet
          /\ since' = since /\ listing' = listing /\ series' = series /\ waiting' = waiting /\ queued' = queued
          /\ request' = request /\ reported' = reported /\ outcome' = outcome
          /\ named' = named /\ finished' = finished /\ lost' = lost /\ error' = error
      BY <2>4 DEF told_vars
    <3>2. SeriesInv'
      BY <1>t, <1>u, <3>1 DEF SeriesInv
    <3>3. /\ waiting' \in BOOLEAN /\ queued' \in BOOLEAN /\ error' \in BOOLEAN /\ active' \in BOOLEAN
          /\ watching' \in BOOLEAN /\ reported' \in BOOLEAN
      BY <3>1, Typings DEF FlagTypes
    <3>4. /\ (~reported' <=> active' \/ watching' \/ measuring) /\ ~(active' /\ watching')
          /\ (request' # "none" <=> ~reported') /\ (listing' = "current" => watching') /\ ~reported'
      BY <1>3, <3>1, <1>t DEF Stages
    <3>5. phase' \in Phases /\ listing' \in {"none", "current", "stale"} /\ request' \in {"none", "manual", "external"}
      BY <3>1, Typings DEF WordTypes
    <3> QED
      BY <2>1, <3>1, <3>2, <3>3, <3>4, <3>5, Typings
  <2> QED
    BY <1>0, <2>2, <2>3, <2>4
<1>6. Types'
  <2>a. FlagTypes'
    BY Typings, <1>0, <1>5, <1>u DEF FlagTypes
  <2>d. WordTypes'
    BY Typings, <1>5, <1>u DEF WordTypes
  <2>b. FileTypes' /\ CountTypes'
    BY Typings, <1>5, <1>u DEF FileTypes, CountTypes
  <2>c. series' \in SeriesType /\ mail' \in Seq(Signals) /\ stream' \in StreamType
    BY Typings, <1>5, <1>u
  <2> QED
    BY <2>a, <2>d, <2>b, <2>c DEF Types
<1>7. Unsent'
  <2>1. reported' /\ outcome' = "not sent" /\ ResetsAreEarly => ~got'
    BY <1>4, <1>5, <1>u DEF NotSent
  <2>2. Tail(mail) = <<>>
    BY <1>0, <1>1, <1>t, Typings, OrderlyOver DEF x, Mailbox
  <2>3. \A i \in 1 .. Len(mail') : FALSE
    <3>1. mail' = <<>>
      BY <1>0, <2>2
    <3>2. Len(mail') = 0
      BY <3>1
    <3> QED
      BY <3>2
  <2> QED
    BY Zenon, <2>1, <2>3 DEF Unsent, NotSentIsTrue
<1>8. OneUserAtATime'
  <2>1. queued' => series.on
    BY <1>5, <1>t DEF SeriesInv
  <2> QED
    BY <1>5, <1>u, <1>t, <2>1 DEF OneUserAtATime, SeriesInv
<1> QED
  BY <1>0, <1>1, <1>2, <1>3, <1>5, <1>6, <1>7, <1>8, LastSignal DEF x

LEMMA StreamEndedKeeps ==
  ASSUME CaptureInv, OnStreamEnded
  PROVE  CaptureInv' /\ Conduct
<1>t. Mailbox /\ Radio /\ Stages /\ SeriesInv /\ Watched /\ Unsent /\ ConfirmedIsWhole /\ OneUserAtATime
  BY Zenon DEF CaptureInv
<1> DEFINE x == Head(mail)
           n == named \cup stream.parts
           failed == stream.error /\ ~stream.finished
           ordinary == <<phase, active, watching, watch, quiet, since, series, waiting, queued, request, reported, outcome>>
<1>0. /\ mail # <<>> /\ mail' = Tail(mail) /\ x.kind \in Ended \cup {"sensor error"}
      /\ http' = FALSE /\ client' = FALSE /\ pin' = Pinned(n)
      /\ \/ /\ failed /\ n = {} /\ Refuse("rejected")
            /\ named' = n /\ error' = TRUE /\ UNCHANGED <<finished, lost>>
         \/ /\ failed /\ n # {}
            /\ named' = n /\ error' = TRUE /\ UNCHANGED <<finished, lost>>
            /\ UNCHANGED <<series, waiting, queued, request, reported, outcome>>
            /\ IF active THEN Elapse(FALSE)
               ELSE UNCHANGED <<phase, active, watching, watch, quiet, since, listing>>
         \/ ~failed /\ stream.finished /\ MarkFinished(n) /\ UNCHANGED ordinary
         \/ /\ ~failed /\ ~stream.finished
            /\ named' = n /\ lost' = (lost \/ x.kind = "lost")
            /\ UNCHANGED <<ordinary, listing, finished, error>>
      /\ UNCHANGED <<measuring, owner, stream, sensor_vars, captures, faults>>
  BY Zenon DEF OnStreamEnded
<1>1. mail \in Seq(Signals) /\ x.kind \in Over /\ Orderly(mail, stream, finished) /\ Heard(mail, stream, named)
  BY <1>0, <1>t, Typings DEF Over, Mailbox
<1>2. n = named
  BY <1>0, <1>1, OverHeard
<1>3. http
  BY <1>0, <1>t DEF Mailbox
<1>4. finished => stream.finished
  BY <1>t DEF Mailbox
<1>5. ~finished => ~reported /\ ~measuring
  BY <1>3, <1>t DEF Stages
<1> HIDE DEF x, n
<1>u. /\ measuring' = measuring /\ owner' = owner /\ stream' = stream /\ radio' = radio /\ disk' = disk
      /\ fresh' = fresh /\ got' = got /\ captures' = captures /\ faults' = faults
  BY <1>0 DEF sensor_vars
<1>6. pin' \in {"none", "own", "neighbour"} /\ mail' \in Seq(Signals)
  BY <1>0, Typings, Taken DEF Pinned, WordTypes
<1> DEFINE Told == /\ named' = named /\ (finished => finished') /\ (finished' => stream.finished)
                   /\ finished' \in BOOLEAN /\ lost' \in BOOLEAN /\ error' \in BOOLEAN
           Staged == /\ active' \in BOOLEAN /\ watching' \in BOOLEAN /\ reported' \in BOOLEAN
                     /\ (~reported' <=> active' \/ watching' \/ measuring) /\ ~(active' /\ watching')
                     /\ (measuring => ~(active' \/ watching'))
                     /\ (request' # "none" <=> ~reported')
                     /\ (request' = "none" \/ request' = request)
                     /\ listing' \in {"none", "current", "stale"} /\ (listing' = "current" => watching')
                     /\ request' \in {"none", "manual", "external"} /\ phase' \in Phases
           Series == /\ series' \in SeriesType /\ waiting' \in BOOLEAN /\ queued' \in BOOLEAN /\ SeriesInv'
                     /\ (queued' => queued) /\ (series'.on => series.on)
           Seen == /\ watch' \in WatchStates /\ quiet' \in 0 .. 2 /\ since' \in 0 .. 2
                   /\ measuring => watch' = watch /\ quiet' = quiet /\ (finished' => finished)
                   /\ outcome' \in {"rejected", outcome}
                   /\ reported' => (outcome' = outcome /\ reported) \/ outcome' = "rejected"
                   /\ outcome' = "confirmed" /\ reported' => watch' = watch /\ outcome = "confirmed" /\ reported
<1>7. ASSUME UNCHANGED <<active, watching, reported, request, phase>>, listing' \in {listing, "current", "stale"},
             listing' # "current" \/ watching \/ listing' = listing
      PROVE  Staged
  <2>1. /\ active' \in BOOLEAN /\ watching' \in BOOLEAN /\ reported' \in BOOLEAN
        /\ listing' \in {"none", "current", "stale"}
        /\ request' \in {"none", "manual", "external"} /\ phase' \in Phases
    BY <1>7, Typings DEF FlagTypes, WordTypes
  <2>2. /\ (~reported' <=> active' \/ watching' \/ measuring) /\ ~(active' /\ watching')
        /\ (measuring => ~(active' \/ watching'))
        /\ (request' # "none" <=> ~reported') /\ request' = request
        /\ (listing' = "current" => watching')
    BY <1>7, <1>t DEF Stages
  <2> QED
    BY <2>1, <2>2
<1>8. ASSUME UNCHANGED <<series, waiting, queued, reported>>
      PROVE  Series
  <2>1. series' \in SeriesType /\ waiting' \in BOOLEAN /\ queued' \in BOOLEAN
    BY <1>8, Typings DEF FlagTypes
  <2>2. SeriesInv'
    BY <1>8, <1>t, <1>u DEF SeriesInv
  <2> QED
    BY <1>8, <2>1, <2>2
<1>9. ASSUME UNCHANGED <<watch, quiet, since, outcome, reported>>, measuring => (finished' => finished)
      PROVE  Seen
  BY <1>9, Typings DEF FileTypes, CountTypes, WatchStates
<1>10. Told /\ Staged /\ Series /\ Seen
  <2>1. CASE failed
    <3>1. ~finished /\ ~reported /\ ~measuring
      BY <2>1, <1>4, <1>5
    <3>2. named' = named /\ error' = TRUE /\ finished' = finished /\ lost' = lost
      BY <1>0, <1>2, <2>1
    <3>3. Told
      BY <3>2, <1>4, Typings DEF FlagTypes
    <3>4. CASE Refuse("rejected")
      BY <3>1, <3>3, <3>4, Refused, Typings DEF FileTypes, CountTypes, WatchStates
    <3>5. CASE /\ UNCHANGED <<series, waiting, queued, request, reported, outcome>>
               /\ active /\ Elapse(FALSE)
      <4>1. /\ phase' = "finalizing" /\ active' = FALSE /\ watching' = TRUE /\ watch' = [f \in Files |-> "unseen"]
            /\ quiet' = 0 /\ since' = 0 /\ listing' = Polled
        BY <3>5 DEF Elapse
      <4>2. Series
        BY <3>5, <1>8
      <4>3. Seen
        BY <3>1, <3>5, <4>1 DEF WatchStates
      <4>4. listing' \in {"none", "current", "stale"} /\ phase' \in Phases /\ request' \in {"none", "manual", "external"}
        BY <3>5, <4>1, Typings DEF Polled, WordTypes, Phases
      <4>5. request # "none"
        BY <3>1, <1>t DEF Stages
      <4>6. ~reported' /\ reported' \in BOOLEAN
        BY <3>1, <3>5, Typings DEF FlagTypes
      <4>7. Staged
        BY <3>1, <3>5, <4>1, <4>4, <4>5, <4>6
      <4> QED
        BY <3>3, <4>2, <4>3, <4>7
    <3>6. CASE /\ UNCHANGED <<series, waiting, queued, request, reported, outcome>>
               /\ UNCHANGED <<phase, active, watching, watch, quiet, since, listing>>
      <4>1. Staged
        BY <3>6, <1>7
      <4>2. Series
        BY <3>6, <1>8
      <4>3. Seen
        BY <3>1, <3>6, <1>9
      <4> QED
        BY <3>3, <4>1, <4>2, <4>3
    <3> HIDE DEF Told, Staged, Series, Seen
    <3> QED
      BY <1>0, <2>1, <3>4, <3>5, <3>6
  <2>2. CASE ~failed /\ stream.finished
    <3>1. MarkFinished(n) /\ UNCHANGED ordinary
      BY <1>0, <2>2
    <3>2. /\ named' = named /\ finished' = TRUE /\ error' = error /\ lost' = lost
          /\ listing' = IF phase = "finalizing" /\ watching THEN Polled ELSE listing
      BY <3>1, <1>2 DEF MarkFinished
    <3>3. Told
      BY <3>2, <2>2, Typings DEF FlagTypes
    <3>4. Staged
      BY <3>1, <3>2, <1>7 DEF Polled
    <3>5. Series
      BY <3>1, <1>8
    <3>6. Seen
      BY <3>1, <1>5, <1>9
    <3> HIDE DEF Told, Staged, Series, Seen
    <3> QED
      BY <3>3, <3>4, <3>5, <3>6
  <2>3. CASE ~failed /\ ~stream.finished
    <3>1. UNCHANGED ordinary /\ UNCHANGED <<listing, finished, error>>
      BY <1>0, <2>3
    <3>2. named' = named /\ lost' = (lost \/ x.kind = "lost")
      BY <1>0, <1>2, <2>3
    <3>3. Told
      BY <3>1, <3>2, <1>4, Typings DEF FlagTypes
    <3>4. Staged
      BY <3>1, <1>7
    <3>5. Series
      BY <3>1, <1>8
    <3>6. Seen
      BY <3>1, <1>9
    <3> HIDE DEF Told, Staged, Series, Seen
    <3> QED
      BY <3>3, <3>4, <3>5, <3>6
  <2> QED
    BY <2>1, <2>2, <2>3
<1>11. Types'
  <2>a. FlagTypes'
    BY Typings, <1>0, <1>10, <1>u DEF FlagTypes
  <2>d. WordTypes'
    BY Typings, <1>6, <1>10, <1>u DEF WordTypes
  <2>b. FileTypes' /\ CountTypes'
    BY Typings, <1>10, <1>u DEF FileTypes, CountTypes, WatchStates
  <2>c. series' \in SeriesType /\ mail' \in Seq(Signals) /\ stream' \in StreamType
    BY Typings, <1>6, <1>10, <1>u
  <2> QED
    BY <2>a, <2>d, <2>b, <2>c DEF Types
<1>12. Unsent'
  <2>1. reported' => (outcome' = outcome /\ reported) \/ outcome' # "not sent"
    BY <1>10
  <2> QED
    BY <1>0, <1>u, <2>1, UnsentStays
<1>13. OneUserAtATime'
  <2>1. queued' => series.on
    BY <1>10, <1>t DEF SeriesInv
  <2> QED
    BY <1>10, <1>u, <1>t, <2>1 DEF OneUserAtATime, SeriesInv
<1>14. SeriesInv' /\ (queued' => queued)
  BY <1>10
<1>15. UNCHANGED <<measuring, owner, stream, sensor_vars, captures>> /\ FALSE \in BOOLEAN
  BY <1>0
<1> QED
  BY <1>0, <1>1, <1>10, <1>11, <1>12, <1>13, <1>14, <1>15, LastSignal DEF x

-----------------------------------------------------------------------------
(* A step of the sensor or of the stream's thread: the window does not move. *)
LEMMA SensorStep ==
  ASSUME CaptureInv, UNCHANGED window_vars,
         mail' \in Seq(Signals), stream' \in StreamType, radio' \in {"off", "on", "done"},
         disk' \in [Files -> {"absent", "open", "full", "short"}], fresh' \subseteq Files,
         got' \in BOOLEAN, faults' \in 0 .. Faults,
         Orderly(mail', stream', finished), Heard(mail', stream', named), finished => stream'.finished,
         Running(stream') => Running(stream), mail' = mail \/ Running(stream),
         Radio', \A i \in 1 .. Len(mail') : (mail'[i].kind = "not sent" => ~got') /\ (mail'[i].kind = "reset" => ~ResetsAreEarly),
         got' = got \/ ~reported,
         \A f \in Parts : disk[f] = "full" => disk'[f] = "full" \/ ~reported,
         CutsNothingShort
  PROVE  CaptureInv' /\ Conduct
<1>t. Mailbox /\ Radio /\ Stages /\ SeriesInv /\ Watched /\ Unsent /\ ConfirmedIsWhole /\ OneUserAtATime
  BY Zenon DEF CaptureInv
<1>1. /\ phase' = phase /\ active' = active /\ http' = http /\ client' = client
      /\ watching' = watching /\ measuring' = measuring /\ watch' = watch /\ pin' = pin /\ quiet' = quiet
      /\ since' = since /\ listing' = listing /\ named' = named /\ finished' = finished /\ error' = error
      /\ lost' = lost /\ series' = series /\ waiting' = waiting /\ queued' = queued /\ owner' = owner
      /\ request' = request /\ captures' = captures /\ reported' = reported /\ outcome' = outcome
  BY DEF window_vars, watch_vars, told_vars, series_vars, owner_vars, count_vars
<1>2. Types'
  <2>a. FlagTypes'
    BY Typings, <1>1 DEF FlagTypes
  <2>d. WordTypes'
    BY Typings, <1>1 DEF WordTypes
  <2>b. FileTypes' /\ CountTypes'
    BY Typings, <1>1 DEF FileTypes, CountTypes
  <2>c. series' \in SeriesType /\ mail' \in Seq(Signals) /\ stream' \in StreamType
    BY Typings, <1>1
  <2> QED
    BY <2>a, <2>d, <2>b, <2>c DEF Types
<1>3. Mailbox'
  <2>1. Orderly(mail', stream', finished') /\ Heard(mail', stream', named') /\ (finished' => stream'.finished)
    BY <1>1
  <2>2. ~http' => mail' = <<>> /\ ~Running(stream')
    <3>1. ~http => mail = <<>> /\ ~Running(stream)
      BY <1>t DEF Mailbox
    <3> QED
      BY <1>1, <3>1
  <2> QED
    BY <2>1, <2>2 DEF Mailbox
<1>4. Stages'
  BY <1>1, <1>t DEF Stages
<1>5. SeriesInv' /\ OneUserAtATime'
  BY <1>1, <1>t DEF SeriesInv, OneUserAtATime
<1>6. Watched'
  BY <1>1, <1>t DEF Watched, Final
<1>7. Unsent'
  <2>1. ResetsAreEarly => (outcome' = "not sent" /\ reported' => ~got')
    BY <1>1, <1>t DEF Unsent, NotSentIsTrue
  <2> QED
    BY <2>1 DEF Unsent, NotSentIsTrue, ResetsAreEarly
<1>8. ConfirmedIsWhole'
  <2> SUFFICES ASSUME outcome = "confirmed", reported, named # {}
               PROVE  /\ Final(watch) \cap Neighbour = {}
                      /\ \A f \in Parts : watch[f] = "final" /\ disk'[f] = "full"
    BY <1>1 DEF ConfirmedIsWhole, Final
  <2> QED
    BY <1>t DEF ConfirmedIsWhole
<1>9. Conduct
  <2>1. captures' = captures
    BY <1>1
  <2>2. TakesItsTurn
    BY <2>1, LaunchesNone
  <2>3. ~(queued' /\ ~queued)
    BY <1>1
  <2> QED
    BY <2>2, <2>3 DEF Conduct, PostsUnlessHeld
<1> QED
  BY <1>2, <1>3, <1>4, <1>5, <1>6, <1>7, <1>8, <1>9 DEF CaptureInv

LEMMA LastOrBefore == ASSUME NEW n \in Nat, NEW i \in 1 .. n + 1 PROVE i = n + 1 \/ i \in 1 .. n
OBVIOUS

(* One more signal, of which the sensor's state gives the truth. *)
LEMMA UnsentAppend ==
  ASSUME NEW m \in Seq(Signals), NEW y \in Signals, NEW g \in BOOLEAN,
         \A i \in 1 .. Len(m) : (m[i].kind = "not sent" => ~g) /\ (m[i].kind = "reset" => ~ResetsAreEarly),
         (y.kind = "not sent" => ~g) /\ (y.kind = "reset" => ~ResetsAreEarly)
  PROVE  \A i \in 1 .. Len(Append(m, y)) : (Append(m, y)[i].kind = "not sent" => ~g) /\ (Append(m, y)[i].kind = "reset" => ~ResetsAreEarly)
<1> DEFINE t == Append(m, y)
<1>1. /\ Len(m) \in Nat /\ Len(t) = Len(m) + 1 /\ t[Len(m) + 1] = y
      /\ \A i \in 1 .. Len(m) : t[i] = m[i]
  BY Sent
<1> HIDE DEF t
<1> SUFFICES ASSUME NEW i \in 1 .. Len(t) PROVE (t[i].kind = "not sent" => ~g) /\ (t[i].kind = "reset" => ~ResetsAreEarly)
  BY DEF t
<1>2. t[i] = y \/ (i \in 1 .. Len(m) /\ t[i] = m[i])
  <2>1. i = Len(m) + 1 \/ i \in 1 .. Len(m)
    <3>1. Len(m) \in Nat /\ i \in 1 .. Len(m) + 1
      BY <1>1
    <3> QED
      BY <3>1, LastOrBefore
  <2> QED
    BY <1>1, <2>1
<1> QED
  BY <1>2

(* A running stream that goes on or ends: what it tells of a request fits what the sensor got. *)
LEMMA UnsentRunning ==
  ASSUME CaptureInv, Running(stream)
  PROVE  \A i \in 1 .. Len(mail) : mail[i].kind # "not sent" /\ mail[i].kind # "reset"
<1>1. \A i \in 1 .. Len(mail) : mail[i].kind \in Events
  BY Typings, RunningTellsNoEnd DEF CaptureInv, Mailbox
<1> QED
  BY <1>1 DEF Events

LEMMA AcceptedKeeps ==
  ASSUME CaptureInv, Accepted
  PROVE  CaptureInv' /\ Conduct
<1>t. Mailbox /\ Radio /\ Stages
  BY Zenon DEF CaptureInv
<1>1. /\ stream.st = "posting" /\ stream' = [stream EXCEPT !.st = "open"] /\ radio' = "on" /\ got' = TRUE
      /\ UNCHANGED window_vars /\ mail' = mail /\ disk' = disk /\ fresh' = fresh /\ faults' = faults
  BY DEF Accepted
<1>2. /\ stream' \in StreamType /\ stream'.st = "open" /\ stream'.parts = stream.parts /\ stream'.finished = stream.finished
  BY <1>1, Typings DEF StreamType
<1>3. Running(stream) /\ Running(stream') /\ ~reported
  BY <1>1, <1>2, Streaming DEF Running
<1>4. stream.parts = {} /\ ~stream.finished
  BY <1>1, <1>t DEF Radio
<1>5. Orderly(mail', stream', finished) /\ Heard(mail', stream', named)
  BY <1>1, <1>2, <1>3, <1>t, OrderlySame DEF Mailbox, Heard
<1>6. Radio'
  <2>1. radio' = "on" /\ stream'.st = "open" /\ ~stream'.finished
    BY <1>1, <1>2, <1>4
  <2>2. \A p \in Parts : disk'[p] # "open"
    BY <1>1, <1>t DEF Radio
  <2> QED
    BY <2>1, <2>2 DEF Radio
<1>7. finished => stream'.finished
  BY <1>2, <1>t DEF Mailbox
<1>8. CutsNothingShort
  BY <1>1 DEF CutsNothingShort
<1>9. \A i \in 1 .. Len(mail') : (mail'[i].kind = "not sent" => ~got') /\ (mail'[i].kind = "reset" => ~ResetsAreEarly)
  BY <1>1, <1>3, UnsentRunning
<1>10. /\ mail' \in Seq(Signals) /\ radio' \in {"off", "on", "done"} /\ fresh' \subseteq Files /\ got' \in BOOLEAN
       /\ faults' \in 0 .. Faults /\ disk' \in [Files -> {"absent", "open", "full", "short"}]
       /\ \A f \in Parts : disk[f] = "full" => disk'[f] = "full" \/ ~reported
  BY <1>1, Typings DEF FileTypes, CountTypes
<1> QED
  BY <1>1, <1>2, <1>3, <1>5, <1>6, <1>7, <1>8, <1>9, <1>10, SensorStep

LEMMA PostEndsKeeps ==
  ASSUME CaptureInv, NEW how \in Outcomes, PostEnds(how)
  PROVE  CaptureInv' /\ Conduct
<1>t. Mailbox /\ Radio /\ Stages
  BY Zenon DEF CaptureInv
<1> DEFINE y == [kind |-> how]
<1>0. /\ stream.st = "posting" /\ stream' = [stream EXCEPT !.st = "ended"] /\ mail' = Append(mail, y)
      /\ UNCHANGED window_vars /\ radio' = radio /\ fresh' = fresh /\ faults' = faults
      /\ got' \in CASE how = "reset" -> {TRUE} [] how = "no reply" -> BOOLEAN [] OTHER -> {FALSE}
      /\ \E left \in {{}} \cup (IF got' THEN {{f} : f \in Parts} ELSE {}) :
           disk' = [f \in Files |-> IF f \in left THEN "short" ELSE disk[f]]
  BY DEF PostEnds, Tell
<1>1. how \in {"not sent", "rejected", "no reply", "reset"} /\ (how = "reset" => ~ResetsAreEarly)
  <2>1. Outcomes \subseteq {"not sent", "rejected", "no reply", "reset"}
    BY Zenon, CaptureAssumption
  <2> QED
    BY <2>1 DEF ResetsAreEarly
<1>2. y \in Signals /\ y.kind = how /\ how \in Over
  BY <1>1 DEF Signals, Over, NoStream
<1>3. /\ stream' \in StreamType /\ stream'.st = "ended" /\ stream'.parts = stream.parts /\ stream'.finished = stream.finished
  BY <1>0, Typings DEF StreamType
<1>4. Running(stream) /\ ~Running(stream') /\ ~reported
  BY <1>0, <1>3, Streaming DEF Running
<1>5. stream.parts = {} /\ ~stream.finished /\ radio = "off"
  BY <1>0, <1>t DEF Radio
<1>6. \A p \in Parts : disk[p] # "open"
  BY <1>0, <1>t DEF Radio
<1>7. disk' \in [Files -> {"absent", "open", "full", "short"}] /\ \A p \in Parts : disk'[p] # "open"
  <2>1. PICK left : disk' = [f \in Files |-> IF f \in left THEN "short" ELSE disk[f]]
    BY <1>0
  <2> QED
    BY <1>6, <2>1, Typings DEF FileTypes, Files
<1>8. got' \in BOOLEAN /\ (how = "not sent" => ~got')
  <2>1. CASE how = "reset"
    BY <1>0, <2>1
  <2>2. CASE how = "no reply"
    BY <1>0, <2>2
  <2>3. CASE how \notin {"reset", "no reply"}
    <3>1. got' \in {FALSE}
      BY <1>0, <2>3
    <3>2. got' = FALSE
      BY <3>1
    <3> QED
      BY <3>2
  <2> QED
    BY <2>1, <2>2, <2>3
<1> HIDE DEF y
<1>9. Orderly(mail', stream', finished)
  BY <1>0, <1>2, <1>3, <1>4, <1>5, <1>t, Typings, OrderlyEnd DEF Mailbox
<1>10. Heard(mail', stream', named)
  BY <1>0, <1>2, <1>3, <1>t, Typings, HeardAppend DEF Mailbox
<1>11. finished => stream'.finished
  BY <1>3, <1>t DEF Mailbox
<1>12. Radio'
  BY <1>0, <1>3, <1>5, <1>7 DEF Radio
<1>13. CutsNothingShort
  BY <1>6 DEF CutsNothingShort
<1>14. \A i \in 1 .. Len(mail') : (mail'[i].kind = "not sent" => ~got') /\ (mail'[i].kind = "reset" => ~ResetsAreEarly)
  <2>1. (y.kind = "not sent" => ~got') /\ (y.kind = "reset" => ~ResetsAreEarly)
    BY <1>1, <1>2, <1>8
  <2>2. \A i \in 1 .. Len(mail) : (mail[i].kind = "not sent" => ~got') /\ (mail[i].kind = "reset" => ~ResetsAreEarly)
    BY <1>4, UnsentRunning
  <2> QED
    BY <1>0, <1>2, <1>8, <2>1, <2>2, Typings, UnsentAppend
<1>15. mail' \in Seq(Signals)
  BY <1>0, <1>2, Typings, Sent
<1>16. radio' \in {"off", "on", "done"} /\ fresh' \subseteq Files /\ faults' \in 0 .. Faults
  BY <1>0, Typings DEF WordTypes, FileTypes, CountTypes
<1> QED
  BY <1>0, <1>3, <1>4, <1>7, <1>8, <1>9, <1>10, <1>11, <1>12, <1>13, <1>14, <1>15, <1>16, SensorStep

LEMMA StreamEndKeeps ==
  ASSUME CaptureInv, NEW how \in StreamEnds \cup {"sensor error"}, StreamEnd(how)
  PROVE  CaptureInv' /\ Conduct
<1>t. Mailbox /\ Radio /\ Stages
  BY Zenon DEF CaptureInv
<1> DEFINE y == [kind |-> how]
<1>0. /\ stream.st = "open" /\ stream' = [stream EXCEPT !.st = "ended"] /\ mail' = Append(mail, y)
      /\ UNCHANGED window_vars /\ radio' = "off" /\ disk' = Disconnected(disk)
      /\ fresh' = fresh /\ got' = got /\ faults' = faults
  BY DEF StreamEnd, Tell
<1>1. how \in Ended \cup {"sensor error"} /\ how \in Over /\ how \notin NoStream
  <2>1. StreamEnds \subseteq {"lost", "budget", "closed"}
    BY Zenon, CaptureAssumption
  <2> QED
    BY <2>1 DEF Ended, Over, NoStream
<1>2. y \in Signals /\ y.kind = how
  BY <1>1 DEF Signals, Ended
<1>3. /\ stream' \in StreamType /\ stream'.st = "ended" /\ stream'.parts = stream.parts /\ stream'.finished = stream.finished
  BY <1>0, Typings DEF StreamType
<1>4. Running(stream) /\ ~Running(stream') /\ ~reported
  BY <1>0, <1>3, Streaming DEF Running
<1>5. disk' \in [Files -> {"absent", "open", "full", "short"}] /\ \A p \in Parts : disk'[p] # "open"
  BY <1>0, Typings DEF FileTypes, Files, Disconnected
<1> HIDE DEF y
<1>6. Orderly(mail', stream', finished)
  BY <1>0, <1>1, <1>2, <1>3, <1>4, <1>t, Typings, OrderlyEnd DEF Mailbox
<1>7. Heard(mail', stream', named)
  BY <1>0, <1>2, <1>3, <1>t, Typings, HeardAppend DEF Mailbox
<1>8. finished => stream'.finished
  BY <1>3, <1>t DEF Mailbox
<1>9. Radio'
  BY <1>0, <1>3, <1>5 DEF Radio
<1>10. mail' \in Seq(Signals) /\ mail' # mail
  BY <1>0, <1>2, Typings, Sent
<1>11. reported' = reported
  BY <1>0 DEF window_vars, count_vars
<1>12. CutsNothingShort
  BY <1>0, <1>10, <1>11 DEF CutsNothingShort
<1>13. \A i \in 1 .. Len(mail') : (mail'[i].kind = "not sent" => ~got') /\ (mail'[i].kind = "reset" => ~ResetsAreEarly)
  <2>1. (y.kind = "not sent" => ~got) /\ (y.kind = "reset" => ~ResetsAreEarly)
    BY <1>1, <1>2 DEF NoStream
  <2>2. \A i \in 1 .. Len(mail) : (mail[i].kind = "not sent" => ~got) /\ (mail[i].kind = "reset" => ~ResetsAreEarly)
    BY <1>4, UnsentRunning
  <2>3. got \in BOOLEAN
    BY Typings DEF FlagTypes
  <2>4. \A i \in 1 .. Len(Append(mail, y)) : (Append(mail, y)[i].kind = "not sent" => ~got) /\ (Append(mail, y)[i].kind = "reset" => ~ResetsAreEarly)
    BY <1>2, <2>1, <2>2, <2>3, Typings, UnsentAppend
  <2> QED
    BY <1>0, <2>4
<1>14. fresh' \subseteq Files /\ faults' \in 0 .. Faults /\ got' \in BOOLEAN /\ radio' \in {"off", "on", "done"}
  BY <1>0, Typings DEF FileTypes, CountTypes, FlagTypes
<1> QED
  BY <1>0, <1>3, <1>4, <1>5, <1>6, <1>7, <1>8, <1>9, <1>10, <1>12, <1>13, <1>14, SensorStep

(* One more signal of a running stream: a file, the end of the mission or an error of the sensor. *)
LEMMA ToldMore ==
  ASSUME CaptureInv, UNCHANGED window_vars, Running(stream), ~stream.finished, NEW y \in Signals, y.kind \in Events,
         mail' = Append(mail, y), stream' \in StreamType, stream'.st = stream.st,
         stream.parts \subseteq stream'.parts, \A p \in stream'.parts \ stream.parts : y.kind = "part" /\ y.file = p,
         y.kind = "part" => y.file \in stream'.parts, y.kind = "finished" => stream'.finished,
         radio' \in {"off", "on", "done"}, disk' \in [Files -> {"absent", "open", "full", "short"}],
         fresh' \subseteq Files, got' = got, faults' \in 0 .. Faults, Radio',
         \A f \in Parts : disk'[f] = disk[f] \/ disk[f] = "absent"
  PROVE  CaptureInv' /\ Conduct
<1>t. Mailbox /\ Radio /\ Stages
  BY Zenon DEF CaptureInv
<1>1. Orderly(mail, stream, finished) /\ Heard(mail, stream, named) /\ (finished => stream.finished) /\ mail \in Seq(Signals)
  BY <1>t, Typings DEF Mailbox
<1>2. ~finished
  BY <1>1
<1>3. Orderly(mail', stream', finished)
  BY <1>1, OrderlyAppend
<1>4. Heard(mail', stream', named)
  BY <1>1, HeardAppend
<1>5. mail' \in Seq(Signals)
  BY <1>1, Sent
<1>6. Running(stream')
  BY DEF Running
<1>7. \A i \in 1 .. Len(mail') : (mail'[i].kind = "not sent" => ~got') /\ (mail'[i].kind = "reset" => ~ResetsAreEarly)
  <2>1. (y.kind = "not sent" => ~got) /\ (y.kind = "reset" => ~ResetsAreEarly)
    BY DEF Events
  <2>2. \A i \in 1 .. Len(mail) : (mail[i].kind = "not sent" => ~got) /\ (mail[i].kind = "reset" => ~ResetsAreEarly)
    BY UnsentRunning
  <2>3. got \in BOOLEAN
    BY Typings DEF FlagTypes
  <2>4. \A i \in 1 .. Len(Append(mail, y)) : (Append(mail, y)[i].kind = "not sent" => ~got) /\ (Append(mail, y)[i].kind = "reset" => ~ResetsAreEarly)
    BY <1>1, <2>1, <2>2, <2>3, UnsentAppend
  <2> QED
    BY <2>4
<1>8. got' \in BOOLEAN
  BY Typings DEF FlagTypes
<1>9. CutsNothingShort
  BY DEF CutsNothingShort
<1>10. \A f \in Parts : disk[f] = "full" => disk'[f] = "full" \/ ~reported
  OBVIOUS
<1> QED
  BY <1>2, <1>3, <1>4, <1>5, <1>6, <1>7, <1>8, <1>9, <1>10, SensorStep

LEMMA FileOpenedKeeps ==
  ASSUME CaptureInv, NEW f \in Parts, FileOpened(f)
  PROVE  CaptureInv' /\ Conduct
<1>t. Mailbox /\ Radio /\ Stages
  BY Zenon DEF CaptureInv
<1> DEFINE y == [kind |-> "part", file |-> f]
<1>0. /\ stream.st = "open" /\ radio = "on" /\ disk[f] = "absent"
      /\ disk' = [disk EXCEPT ![f] = "open"] /\ fresh' = fresh \cup {f}
      /\ stream' = [stream EXCEPT !.parts = @ \cup {f}] /\ mail' = Append(mail, y)
      /\ UNCHANGED window_vars /\ radio' = radio /\ got' = got /\ faults' = faults
  BY DEF FileOpened, Tell
<1>1. y \in Signals /\ y.kind = "part" /\ y.file = f /\ y.kind \in Events
  BY DEF Signals, Events
<1> HIDE DEF y
<1>2. /\ stream' \in StreamType /\ stream'.st = stream.st /\ stream'.parts = stream.parts \cup {f}
      /\ stream'.finished = stream.finished
  BY <1>0, Typings DEF StreamType
<1>3. Running(stream) /\ ~stream.finished
  BY <1>0, <1>t DEF Running, Radio
<1>4. f \in Files /\ disk \in [Files -> {"absent", "open", "full", "short"}] /\ fresh \subseteq Files
  BY Typings DEF FileTypes, Files
<1>5. /\ disk' \in [Files -> {"absent", "open", "full", "short"}] /\ fresh' \subseteq Files
      /\ \A g \in Files : g # f => disk'[g] = disk[g]
  BY <1>0, <1>4
<1>6. Radio'
  <2>1. \A p \in Parts : disk'[p] = "open" => stream'.st = "open" /\ p \in stream'.parts
    <3> SUFFICES ASSUME NEW p \in Parts, disk'[p] = "open" PROVE p \in stream'.parts
      BY <1>0, <1>2
    <3>1. CASE p = f
      BY <1>2, <3>1
    <3>2. CASE p # f
      <4>1. disk[p] = "open"
        BY <1>5, <3>2 DEF Files
      <4> QED
        BY <1>2, <1>t, <4>1 DEF Radio
    <3> QED
      BY <3>1, <3>2
  <2>2. radio' # "off" => stream'.st = "open"
    BY <1>0, <1>2
  <2>3. ~stream'.finished /\ stream'.st # "posting"
    BY <1>0, <1>2, <1>3
  <2> QED
    BY <2>1, <2>2, <2>3 DEF Radio
<1>7. \A g \in Parts : disk'[g] = disk[g] \/ disk[g] = "absent"
  BY <1>0, <1>5 DEF Files
<1>8. radio' \in {"off", "on", "done"} /\ faults' \in 0 .. Faults
  BY <1>0, Typings DEF WordTypes, CountTypes
<1> QED
  BY <1>0, <1>1, <1>2, <1>3, <1>5, <1>6, <1>7, <1>8, ToldMore

LEMMA RadioDoneKeeps ==
  ASSUME CaptureInv, RadioDone
  PROVE  CaptureInv' /\ Conduct
<1>t. Mailbox /\ Radio /\ Stages
  BY Zenon DEF CaptureInv
<1> DEFINE y == [kind |-> "finished"]
<1>0. /\ stream.st = "open" /\ radio = "on" /\ radio' = "done"
      /\ stream' = [stream EXCEPT !.finished = TRUE] /\ mail' = Append(mail, y)
      /\ UNCHANGED window_vars /\ disk' = disk /\ fresh' = fresh /\ got' = got /\ faults' = faults
  BY DEF RadioDone, Tell
<1>1. y \in Signals /\ y.kind = "finished" /\ y.kind \in Events
  BY DEF Signals, Events
<1> HIDE DEF y
<1>2. /\ stream' \in StreamType /\ stream'.st = stream.st /\ stream'.parts = stream.parts /\ stream'.finished = TRUE
  BY <1>0, Typings DEF StreamType
<1>3. Running(stream) /\ ~stream.finished
  BY <1>0, <1>t DEF Running, Radio
<1>4. Radio'
  <2>1. \A p \in Parts : disk'[p] = "open" => stream'.st = "open" /\ p \in stream'.parts
    BY <1>0, <1>2, <1>t DEF Radio
  <2> QED
    BY <1>0, <1>2, <2>1 DEF Radio
<1>5. /\ radio' \in {"off", "on", "done"} /\ faults' \in 0 .. Faults /\ fresh' \subseteq Files
      /\ disk' \in [Files -> {"absent", "open", "full", "short"}]
  BY <1>0, Typings DEF FileTypes, CountTypes
<1>6. y.kind = "finished" => stream'.finished
  BY <1>2
<1>7. stream.parts \subseteq stream'.parts /\ stream'.parts \ stream.parts = {} /\ y.kind # "part"
  BY <1>1, <1>2
<1>8. stream'.st = stream.st /\ stream' \in StreamType
  BY <1>2
<1> QED
  BY <1>0, <1>1, <1>3, <1>4, <1>5, <1>6, <1>7, <1>8, ToldMore

LEMMA SensorErrorKeeps ==
  ASSUME CaptureInv, SensorError
  PROVE  CaptureInv' /\ Conduct
<1>t. Mailbox /\ Radio /\ Stages
  BY Zenon DEF CaptureInv
<1> DEFINE y == [kind |-> "error"]
<1>0. /\ stream.st = "open" /\ radio = "on" /\ radio' = radio /\ faults < Faults /\ faults' = faults + 1
      /\ stream' = [stream EXCEPT !.error = TRUE] /\ mail' = Append(mail, y)
      /\ UNCHANGED window_vars /\ disk' = disk /\ fresh' = fresh /\ got' = got
  BY DEF SensorError, Tell, sensor_vars
<1>1. y \in Signals /\ y.kind = "error" /\ y.kind \in Events
  BY DEF Signals, Events
<1> HIDE DEF y
<1>2. /\ stream' \in StreamType /\ stream'.st = stream.st /\ stream'.parts = stream.parts /\ stream'.finished = stream.finished
  BY <1>0, Typings DEF StreamType
<1>3. Running(stream) /\ ~stream.finished
  BY <1>0, <1>t DEF Running, Radio
<1>4. Radio'
  <2>1. \A p \in Parts : disk'[p] = "open" => stream'.st = "open" /\ p \in stream'.parts
    BY <1>0, <1>2, <1>t DEF Radio
  <2>2. ~stream'.finished
    BY <1>2, <1>3
  <2> QED
    BY <1>0, <1>2, <2>1, <2>2 DEF Radio
<1>5. /\ radio' \in {"off", "on", "done"} /\ faults' \in 0 .. Faults /\ fresh' \subseteq Files
      /\ disk' \in [Files -> {"absent", "open", "full", "short"}]
  BY <1>0, Typings, Amounts DEF FileTypes, CountTypes
<1>6. stream.parts \subseteq stream'.parts /\ stream'.parts \ stream.parts = {} /\ y.kind # "part" /\ y.kind # "finished"
  BY <1>1, <1>2
<1>7. stream'.st = stream.st /\ stream' \in StreamType
  BY <1>2
<1> QED
  BY <1>0, <1>1, <1>3, <1>4, <1>5, <1>6, <1>7, ToldMore

(* A file grows or is closed: nothing is told. *)
LEMMA FileKeeps ==
  ASSUME CaptureInv, NEW f \in Parts, FileGrows(f) \/ FileClosed(f)
  PROVE  CaptureInv' /\ Conduct
<1>t. Mailbox /\ Radio /\ Stages /\ Unsent
  BY Zenon DEF CaptureInv
<1>0. /\ disk[f] = "open" /\ (disk' = disk \/ disk' = [disk EXCEPT ![f] = "full"])
      /\ fresh' = fresh \cup {f} /\ UNCHANGED window_vars
      /\ mail' = mail /\ stream' = stream /\ radio' = radio /\ got' = got /\ faults' = faults
  BY DEF FileGrows, FileClosed
<1>1. f \in Files /\ disk \in [Files -> {"absent", "open", "full", "short"}] /\ fresh \subseteq Files
  BY Typings DEF FileTypes, Files
<1>2. /\ disk' \in [Files -> {"absent", "open", "full", "short"}] /\ fresh' \subseteq Files
      /\ \A g \in Files : disk'[g] = disk[g] \/ (g = f /\ disk'[g] = "full")
  BY <1>0, <1>1
<1>3. Radio'
  <2>1. \A p \in Parts : disk'[p] = "open" => stream'.st = "open" /\ p \in stream'.parts
    BY <1>0, <1>2, <1>t DEF Radio, Files
  <2> QED
    BY <1>0, <1>t, <2>1 DEF Radio
<1>4. CutsNothingShort
  BY <1>2 DEF CutsNothingShort, Files
<1>5. \A g \in Parts : disk[g] = "full" => disk'[g] = "full" \/ ~reported
  BY <1>0, <1>2 DEF Files
<1>6. \A i \in 1 .. Len(mail') : (mail'[i].kind = "not sent" => ~got') /\ (mail'[i].kind = "reset" => ~ResetsAreEarly)
  BY <1>0, <1>t DEF Unsent
<1>7. Orderly(mail', stream', finished) /\ Heard(mail', stream', named) /\ (finished => stream'.finished)
  BY <1>0, <1>t DEF Mailbox
<1>8. /\ mail' \in Seq(Signals) /\ stream' \in StreamType /\ radio' \in {"off", "on", "done"} /\ got' \in BOOLEAN
      /\ faults' \in 0 .. Faults
  BY <1>0, Typings DEF FlagTypes, WordTypes, CountTypes
<1>9. (Running(stream') => Running(stream)) /\ mail' = mail /\ got' = got
  BY <1>0
<1> QED
  BY <1>0, <1>2, <1>3, <1>4, <1>5, <1>6, <1>7, <1>8, <1>9, SensorStep

LEMMA SensorKeeps ==
  ASSUME CaptureInv, Sensor
  PROVE  CaptureInv' /\ Conduct
<1>1. CASE \E how \in Outcomes : PostEnds(how)
  BY <1>1, PostEndsKeeps
<1>2. CASE \E how \in StreamEnds \cup {"sensor error"} : StreamEnd(how)
  BY <1>2, StreamEndKeeps
<1>3. CASE \E f \in Parts : FileOpened(f) \/ FileGrows(f) \/ FileClosed(f)
  BY <1>3, FileOpenedKeeps, FileKeeps
<1> QED
  BY <1>1, <1>2, <1>3, AcceptedKeeps, RadioDoneKeeps, SensorErrorKeeps DEF Sensor

-----------------------------------------------------------------------------
(* The operator and the countdown change the series only. *)
LEMMA SeriesStep ==
  ASSUME CaptureInv, UNCHANGED rest, phase' \in Phases, watching' = watching, listing' \in {"none", "current", "stale"},
         listing' = "current" => listing = "current",
         series' \in SeriesType, waiting' \in BOOLEAN, queued' \in BOOLEAN, SeriesInv',
         series'.on => series.on, queued' => series.on, PostsUnlessHeld
  PROVE  CaptureInv' /\ Conduct
<1>t. Mailbox /\ Radio /\ Stages /\ SeriesInv /\ Watched /\ Unsent /\ ConfirmedIsWhole /\ OneUserAtATime
  BY Zenon DEF CaptureInv
<1>1. /\ active' = active /\ http' = http /\ client' = client /\ measuring' = measuring /\ watch' = watch
      /\ pin' = pin /\ quiet' = quiet /\ since' = since /\ named' = named /\ finished' = finished /\ error' = error
      /\ lost' = lost /\ owner' = owner /\ request' = request /\ mail' = mail /\ stream' = stream
      /\ radio' = radio /\ disk' = disk /\ fresh' = fresh /\ got' = got
      /\ captures' = captures /\ reported' = reported /\ outcome' = outcome /\ faults' = faults
  BY DEF rest, told_vars, owner_vars, sensor_vars, count_vars
<1>2. Types'
  <2>a. FlagTypes'
    BY Typings, <1>1 DEF FlagTypes
  <2>d. WordTypes'
    BY Typings, <1>1 DEF WordTypes
  <2>b. FileTypes' /\ CountTypes'
    BY Typings, <1>1 DEF FileTypes, CountTypes
  <2>c. series' \in SeriesType /\ mail' \in Seq(Signals) /\ stream' \in StreamType
    BY Typings, <1>1
  <2> QED
    BY <2>a, <2>d, <2>b, <2>c DEF Types
<1>3. Mailbox' /\ Radio'
  BY <1>1, <1>t DEF Mailbox, Radio
<1>4. Stages'
  BY <1>1, <1>t DEF Stages
<1>5. Watched' /\ ConfirmedIsWhole'
  BY <1>1, <1>t DEF Watched, ConfirmedIsWhole, Final
<1>6. Unsent'
  <2>1. reported' => (outcome' = outcome /\ reported)
    BY <1>1
  <2> QED
    BY <1>1, <2>1, UnsentStays
<1>7. OneUserAtATime'
  BY <1>1, <1>t DEF OneUserAtATime, SeriesInv
<1>8. Conduct
  <2>1. captures' = captures
    BY <1>1
  <2>2. TakesItsTurn
    BY <2>1, LaunchesNone
  <2>3. CutsNothingShort
    BY <1>1 DEF CutsNothingShort
  <2> QED
    BY <2>2, <2>3 DEF Conduct
<1> QED
  BY <1>2, <1>3, <1>4, <1>5, <1>6, <1>7, <1>8 DEF CaptureInv

(* The series goes on from a pause or a countdown, or ends. *)
LEMMA GoesOn ==
  ASSUME CaptureInv, StartNextNow, series.on, reported, ~queued, ~series.pause, owner' = owner, reported' = reported
  PROVE  /\ series' \in SeriesType /\ waiting' \in BOOLEAN /\ queued' \in BOOLEAN /\ SeriesInv' /\ PostsUnlessHeld
         /\ ~waiting'
<1>t. SeriesInv
  BY DEF CaptureInv
<1>0. owner = "none"
  BY <1>t DEF SeriesInv
<1>1. CASE SeriesEnded
  <2>1. series' = NoSeries /\ waiting' = FALSE /\ queued' = queued
    BY <1>1 DEF SeriesEnded
  <2>2. series' \in SeriesType /\ ~series'.on /\ ~series'.paused
    BY <2>1 DEF NoSeries, SeriesType
  <2>3. ~queued' /\ ~waiting' /\ queued' \in BOOLEAN /\ waiting' \in BOOLEAN
    BY <2>1, Typings DEF FlagTypes
  <2> QED
    BY <2>2, <2>3 DEF SeriesInv, PostsUnlessHeld
<1>2. CASE ~SeriesEnded
  <2>1. /\ ~series.stop /\ series.left # 0
        /\ series' = [series EXCEPT !.left = @ - 1, !.paused = FALSE] /\ waiting' = FALSE /\ queued' = TRUE
    BY <1>2 DEF StartNextNow
  <2>2. series.left - 1 \in Nat
    BY <2>1, Typings DEF SeriesType
  <2>3. series' \in SeriesType /\ series'.on = series.on /\ series'.pause = series.pause /\ series'.paused = FALSE
    BY <2>1, <2>2, Typings DEF SeriesType
  <2>4. series'.on /\ ~series'.pause /\ ~series'.paused
    BY <2>3
  <2> QED
    BY <1>0, <2>1, <2>3, <2>4 DEF SeriesInv, PostsUnlessHeld
<1> QED
  BY <1>1, <1>2

LEMMA PauseKeeps ==
  ASSUME CaptureInv, Pause
  PROVE  CaptureInv' /\ Conduct
<1>t. SeriesInv
  BY DEF CaptureInv
<1>0. /\ series.on /\ ~series.paused /\ ~series.pause /\ queued' = queued /\ watching' = watching /\ listing' = listing /\ UNCHANGED rest
      /\ \/ /\ waiting /\ waiting' = FALSE /\ phase' = "idle" /\ series' = [series EXCEPT !.paused = TRUE]
         \/ ~waiting /\ series' = [series EXCEPT !.pause = TRUE] /\ waiting' = waiting /\ phase' = phase
  BY DEF Pause
<1>1. owner' = owner /\ reported' = reported
  BY <1>0 DEF rest, owner_vars, count_vars
<1>2. PostsUnlessHeld
  BY <1>0 DEF PostsUnlessHeld
<1>3. /\ phase' \in Phases /\ listing' \in {"none", "current", "stale"} /\ waiting' \in BOOLEAN /\ queued' \in BOOLEAN
  BY <1>0, Typings DEF FlagTypes, WordTypes, Phases
<1>4. queued' => series.on
  BY <1>0
<1>5. CASE waiting /\ waiting' = FALSE /\ series' = [series EXCEPT !.paused = TRUE]
  <2>1. series' \in SeriesType /\ series'.on = series.on /\ series'.pause = series.pause /\ series'.paused = TRUE
    BY <1>5, Typings DEF SeriesType
  <2>2. series'.on /\ ~series'.pause /\ series'.paused
    BY <1>0, <2>1
  <2>3. ~queued /\ reported /\ owner = "none"
    BY <1>0, <1>5, <1>t DEF SeriesInv
  <2>4. ~queued' /\ reported' /\ owner' = "none" /\ ~waiting'
    BY <1>0, <1>1, <1>5, <2>3
  <2>5. SeriesInv'
    BY <2>2, <2>4 DEF SeriesInv
  <2> QED
    BY <1>0, <1>2, <1>3, <1>4, <2>1, <2>5, SeriesStep
<1>6. CASE ~waiting /\ series' = [series EXCEPT !.pause = TRUE] /\ waiting' = waiting
  <2>1. series' \in SeriesType /\ series'.on = series.on /\ series'.pause = TRUE /\ series'.paused = series.paused
    BY <1>6, Typings DEF SeriesType
  <2>2. series'.on /\ ~series'.paused
    BY <1>0, <2>1
  <2>3. owner = "none" /\ (queued => reported)
    BY <1>0, <1>t DEF SeriesInv
  <2>4. (queued' => reported') /\ owner' = "none" /\ ~waiting'
    BY <1>0, <1>1, <1>6, <2>3
  <2>5. SeriesInv'
    BY <2>2, <2>4 DEF SeriesInv
  <2> QED
    BY <1>0, <1>2, <1>3, <1>4, <2>1, <2>5, SeriesStep
<1> QED
  BY <1>0, <1>5, <1>6

LEMMA ResumeKeeps ==
  ASSUME CaptureInv, Resume
  PROVE  CaptureInv' /\ Conduct
<1>t. SeriesInv
  BY DEF CaptureInv
<1>0. /\ series.paused /\ watching' = watching /\ listing' = listing /\ UNCHANGED rest
      /\ \/ /\ series' = [series EXCEPT !.paused = FALSE] /\ waiting' = TRUE /\ phase' = "waiting" /\ queued' = queued
         \/ StartNextNow /\ phase' = phase
  BY DEF Resume
<1>1. owner' = owner /\ reported' = reported
  BY <1>0 DEF rest, owner_vars, count_vars
<1>2. series.on /\ reported /\ ~series.pause /\ ~queued /\ owner = "none"
  BY <1>0, <1>t DEF SeriesInv
<1>3. phase' \in Phases /\ listing' \in {"none", "current", "stale"}
  BY <1>0, Typings DEF WordTypes, Phases
<1>4. CASE series' = [series EXCEPT !.paused = FALSE] /\ waiting' = TRUE /\ queued' = queued
  <2>1. series' \in SeriesType /\ series'.on = series.on /\ series'.pause = series.pause /\ series'.paused = FALSE
    BY <1>4, Typings DEF SeriesType
  <2>2. series'.on /\ ~series'.pause /\ ~series'.paused
    BY <1>2, <2>1
  <2>3. ~queued' /\ reported' /\ owner' = "none"
    BY <1>1, <1>2, <1>4
  <2>4. SeriesInv'
    BY <2>2, <2>3 DEF SeriesInv
  <2>5. waiting' \in BOOLEAN /\ queued' \in BOOLEAN
    BY <1>4, Typings DEF FlagTypes
  <2>6. PostsUnlessHeld
    BY <2>3 DEF PostsUnlessHeld
  <2> QED
    BY <1>0, <1>2, <1>3, <2>1, <2>4, <2>5, <2>6, SeriesStep
<1>5. CASE StartNextNow
  BY <1>0, <1>1, <1>2, <1>3, <1>5, GoesOn, SeriesStep
<1> QED
  BY <1>0, <1>4, <1>5

LEMMA WaitOverKeeps ==
  ASSUME CaptureInv, WaitOver
  PROVE  CaptureInv' /\ Conduct
<1>t. SeriesInv
  BY DEF CaptureInv
<1>0. waiting /\ StartNextNow /\ phase' = phase /\ watching' = watching /\ listing' = listing /\ UNCHANGED rest
  BY DEF WaitOver
<1>1. owner' = owner /\ reported' = reported
  BY <1>0 DEF rest, owner_vars, count_vars
<1>2. series.on /\ reported /\ ~series.pause /\ ~queued
  BY <1>0, <1>t DEF SeriesInv
<1>3. phase' \in Phases /\ listing' \in {"none", "current", "stale"}
  BY <1>0, Typings DEF WordTypes
<1> QED
  BY <1>0, <1>1, <1>2, <1>3, GoesOn, SeriesStep

LEMMA StopKeeps ==
  ASSUME CaptureInv, Stop
  PROVE  CaptureInv' /\ Conduct
<1>t. SeriesInv /\ Stages
  BY DEF CaptureInv
<1>0. /\ series.on /\ UNCHANGED rest
      /\ \/ /\ series.paused \/ waiting
            /\ SeriesEnded /\ WatchDropped
            /\ phase' = IF waiting THEN (IF Final(watch) # {} THEN "confirmed" ELSE "idle") ELSE phase
         \/ /\ ~(series.paused \/ waiting) /\ series' = [series EXCEPT !.stop = TRUE]
            /\ UNCHANGED <<waiting, queued, phase, watching, listing>>
  BY DEF Stop
<1>1. owner' = owner /\ reported' = reported
  BY <1>0 DEF rest, owner_vars, count_vars
<1>2. phase' \in Phases
  BY <1>0, Typings DEF WordTypes, Phases
<1>3. CASE (series.paused \/ waiting) /\ SeriesEnded /\ WatchDropped
  <2>1. reported /\ ~queued
    BY <1>3, <1>t DEF SeriesInv
  <2>2. ~watching
    BY <2>1, <1>t DEF Stages
  <2>3. watching' = FALSE /\ listing' \in {"none", "stale"} /\ series' = NoSeries /\ waiting' = FALSE /\ queued' = queued
    BY <1>3 DEF SeriesEnded, WatchDropped
  <2>4. watching' = watching
    BY <2>2, <2>3, Typings DEF FlagTypes
  <2>5. series' \in SeriesType /\ ~series'.on /\ ~series'.paused
    BY <2>3 DEF NoSeries, SeriesType
  <2>6. ~queued' /\ ~waiting' /\ queued' \in BOOLEAN /\ waiting' \in BOOLEAN
    BY <2>1, <2>3, Typings DEF FlagTypes
  <2>7. SeriesInv' /\ PostsUnlessHeld
    BY <2>5, <2>6 DEF SeriesInv, PostsUnlessHeld
  <2> QED
    BY <1>0, <1>2, <2>3, <2>4, <2>5, <2>6, <2>7, SeriesStep
<1>4. CASE /\ series' = [series EXCEPT !.stop = TRUE]
           /\ UNCHANGED <<waiting, queued, phase, watching, listing>>
  <2>1. series' \in SeriesType /\ series'.on = series.on /\ series'.pause = series.pause /\ series'.paused = series.paused
    BY <1>4, Typings DEF SeriesType
  <2>2. (series'.on <=> series.on) /\ (series'.pause <=> series.pause) /\ (series'.paused <=> series.paused)
    BY <2>1
  <2>3. SeriesInv'
    BY <1>1, <1>4, <1>t, <2>2 DEF SeriesInv
  <2>4. waiting' \in BOOLEAN /\ queued' \in BOOLEAN /\ listing' \in {"none", "current", "stale"}
    BY <1>4, Typings DEF FlagTypes, WordTypes
  <2>5. PostsUnlessHeld
    BY <1>4 DEF PostsUnlessHeld
  <2> QED
    BY <1>0, <1>2, <1>4, <2>1, <2>2, <2>3, <2>4, <2>5, SeriesStep
<1> QED
  BY <1>0, <1>3, <1>4

-----------------------------------------------------------------------------
LEMMA InitKeeps == Init => CaptureInv
<1> SUFFICES ASSUME Init PROVE CaptureInv
  OBVIOUS
<1>1. Types
  <2>1. FlagTypes
    BY DEF Init, FlagTypes
  <2>5. CountTypes
    BY Amounts DEF Init, CountTypes
  <2>2. WordTypes /\ mail \in Seq(Signals)
    BY DEF Init, WordTypes, Phases
  <2>3. FileTypes
    BY DEF Init, FileTypes, Files
  <2>4. series \in SeriesType /\ stream \in StreamType
    BY DEF Init, NoSeries, SeriesType, Silent, StreamType
  <2> QED
    BY <2>1, <2>2, <2>3, <2>4, <2>5 DEF Types
<1>2. stream.parts = {} /\ stream.st = "none" /\ mail = <<>> /\ named = {} /\ ~finished /\ ~http
  BY DEF Init, Silent
<1>3. Mailbox
  <2>1. Orderly(mail, stream, finished) /\ ~Running(stream)
    BY <1>2, OrderlyNothing DEF Running
  <2>2. Heard(mail, stream, named)
    BY <1>2 DEF Heard
  <2> QED
    BY <1>2, <2>1, <2>2 DEF Mailbox
<1>4. Radio
  BY <1>2, Apart DEF Init, Radio, Files
<1>5. Stages
  BY <1>2 DEF Init, Stages, Running
<1>6. SeriesInv /\ OneUserAtATime
  BY DEF Init, SeriesInv, OneUserAtATime, NoSeries
<1>7. Watched /\ ConfirmedIsWhole
  BY DEF Init, Watched, ConfirmedIsWhole
<1>8. Unsent
  BY <1>2 DEF Init, Unsent, NotSentIsTrue
<1> QED
  BY <1>1, <1>3, <1>4, <1>5, <1>6, <1>7, <1>8 DEF CaptureInv

LEMMA NextKeeps ==
  ASSUME CaptureInv, Next
  PROVE  CaptureInv' /\ Conduct
<1>1. CASE Start
  BY <1>1, StartManualKeeps, StartPostedKeeps, OwnerKeeps, StartExternalKeeps DEF Start
<1>2. CASE TimeElapsed \/ TimePasses \/ Poll \/ ListingDropped \/ ListingRead
  BY <1>2, TimeElapsedKeeps, WatchKeeps, ListingReadKeeps
<1>3. CASE \E read \in BOOLEAN : HeadersRead(read)
  BY <1>3, HeadersReadKeeps
<1>4. CASE OnEvent \/ OnNoStream \/ OnStreamEnded
  BY <1>4, EventKeeps, NoStreamKeeps, StreamEndedKeeps
<1>5. CASE Sensor
  BY <1>5, SensorKeeps
<1>6. CASE Pause \/ Resume \/ Stop \/ WaitOver
  BY <1>6, PauseKeeps, ResumeKeeps, StopKeeps, WaitOverKeeps
<1> QED
  BY <1>1, <1>2, <1>3, <1>4, <1>5, <1>6 DEF Next

LEMMA StutterKeeps ==
  ASSUME CaptureInv, UNCHANGED vars
  PROVE  CaptureInv'
<1>1. /\ UNCHANGED window_vars /\ UNCHANGED sensor_vars /\ mail' = mail /\ stream' = stream /\ faults' = faults
  BY DEF vars, window_vars
<1>t. Mailbox /\ Radio /\ Unsent
  BY Zenon DEF CaptureInv
<1>2. radio' = radio /\ disk' = disk /\ fresh' = fresh /\ got' = got
  BY <1>1 DEF sensor_vars
<1>3. /\ mail' \in Seq(Signals) /\ stream' \in StreamType /\ radio' \in {"off", "on", "done"} /\ faults' \in 0 .. Faults
      /\ disk' \in [Files -> {"absent", "open", "full", "short"}] /\ fresh' \subseteq Files /\ got' \in BOOLEAN
  BY <1>1, <1>2, Typings DEF FlagTypes, WordTypes, FileTypes, CountTypes
<1>4. Orderly(mail', stream', finished) /\ Heard(mail', stream', named) /\ (finished => stream'.finished)
  BY <1>1, <1>t DEF Mailbox
<1>5. Radio'
  BY <1>1, <1>2, <1>t DEF Radio
<1>6. CutsNothingShort
  BY <1>2 DEF CutsNothingShort
<1>7. \A i \in 1 .. Len(mail') : (mail'[i].kind = "not sent" => ~got') /\ (mail'[i].kind = "reset" => ~ResetsAreEarly)
  BY <1>1, <1>2, <1>t DEF Unsent
<1>8. (Running(stream') => Running(stream)) /\ \A f \in Parts : disk[f] = "full" => disk'[f] = "full" \/ ~reported
  BY <1>1, <1>2
<1> QED
  BY <1>1, <1>2, <1>3, <1>4, <1>5, <1>6, <1>7, <1>8, SensorStep

LEMMA StepKeeps == CaptureInv /\ [Next]_vars => CaptureInv'
BY NextKeeps, StutterKeeps

-----------------------------------------------------------------------------
LEMMA InvSafe == CaptureInv => TypeOK /\ ConfirmedIsWhole /\ OneUserAtATime /\ (ResetsAreEarly => NotSentIsTrue)
BY Zenon, Typed DEF CaptureInv, Unsent

(* However the request and its stream end, a recording that is reported as confirmed, of which the
   sensor has named the files, has them all on the sensor's disk, whole and read, with no file of
   another client among them; and while the collection holds the sensor no manual recording or
   series goes on (_complete_capture, _poll_collection_files, set_external_owner).             *)
THEOREM ConfirmedWhole == Spec => [](TypeOK /\ ConfirmedIsWhole /\ OneUserAtATime)
<1>1. CaptureInv => TypeOK /\ ConfirmedIsWhole /\ OneUserAtATime
  BY Zenon, InvSafe
<1> QED
  BY InitKeeps, StepKeeps, <1>1, PTL DEF Spec

(* All that is said of a recording is true of the sensor: besides the above, one that is reported
   as not sent is one the sensor has not got (_show_recording_outcome).                        *)
THEOREM CapturesSafe == ASSUME ResetsAreEarly PROVE Spec => []CapturesAreSafe
<1>1. ResetsAreEarly /\ CaptureInv => CapturesAreSafe
  BY Zenon, InvSafe DEF CapturesAreSafe
<1>2. []ResetsAreEarly
  <2>1. ResetsAreEarly
    OBVIOUS
  <2> QED
    BY <2>1, PTL
<1> QED
  BY InitKeeps, StepKeeps, <1>1, <1>2, PTL DEF Spec

(* No session fails while it reads headers. *)
HeadersAreReadable == ~HeaderFaults

LEMMA StepTakesTurns ==
  CaptureInv /\ [Next]_vars =>
    /\ [TakesItsTurn]_vars /\ [PostsUnlessHeld]_vars
    /\ HeadersAreReadable => [CutsNothingShort]_vars
BY NextKeeps DEF Conduct, HeadersAreReadable

(* No recording, posted by the series, its countdown or the collection, starts before the one
   before it is reported and the sensor's mission has ended; and from Pause or Stop on the series
   posts none until it is resumed (_launch_capture, _maybe_start_next, _on_pause_series).      *)
THEOREM OneAfterAnother == Spec => ReportedBeforeNext /\ HeldSeriesPostsNothing
<1>1. CaptureInv /\ [Next]_vars => [Launched => reported /\ radio = "off"]_vars
  BY StepTakesTurns DEF TakesItsTurn
<1>2. CaptureInv /\ [Next]_vars =>
        [queued' /\ ~queued => ~series.stop /\ ~series.pause /\ (series.paused => ~series'.paused)]_vars
  BY StepTakesTurns DEF PostsUnlessHeld
<1> QED
  BY InitKeeps, StepKeeps, <1>1, <1>2, PTL DEF Spec, ReportedBeforeNext, HeldSeriesPostsNothing

(* Besides, the stream is not closed while the sensor writes, unless nothing has changed for as
   long as the watch lasts or the stream itself ends (_release_capture_stream,
   _apply_measurement).                                                                        *)
THEOREM TurnsTaken == ASSUME HeadersAreReadable PROVE Spec => RecordingsTakeTurns
<1>1. HeadersAreReadable /\ CaptureInv /\ [Next]_vars =>
        [\A f \in Parts : disk[f] = "open" /\ disk'[f] = "short" =>
           stream.st = "open" /\ (quiet = 2 \/ since = 2 \/ (mail' # mail /\ reported' = reported))]_vars
  BY StepTakesTurns DEF CutsNothingShort
<1>2. []HeadersAreReadable
  <2>1. HeadersAreReadable
    OBVIOUS
  <2> QED
    BY <2>1, PTL
<1> QED
  BY InitKeeps, StepKeeps, OneAfterAnother, <1>1, <1>2, PTL DEF Spec, RecordingsTakeTurns, StreamHeldWhileWriting
=============================================================================
