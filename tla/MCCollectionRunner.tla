-------------------------- MODULE MCCollectionRunner --------------------------
(***************************************************************************)
(* Instances of CollectionRunner for TLC: named choices of what a capture, *)
(* the sensor, the gates and the operator may do.                          *)
(***************************************************************************)
EXTENDS CollectionRunner

(* How a capture may end. *)
EveryOutcome == AllOutcomes
SentOrUnknown == {"confirmed", "not_sent", "unknown"}
SentShortOrUnknown == {"confirmed", "partial", "not_sent", "unknown"}

(* What the main window answers to a request, and what the gates before it find. *)
EveryAnswer == AllAnswers
AlwaysStarted == {"started"}
EveryGate == AllGates
OpenGate == {"clear"}

(* The operator at the panel. *)
Attended == {"pause", "stop", "manual"}
Retries == {"pause", "retry", "manual"}
Recovers == {"check", "skip", "retry", "pause"}
RecoversSchedule == {"check", "skip", "run_missed", "skip_missed", "pause"}
Nothing == {}

(* Where the application may end. *)
QuietOrRecording == {"quiet", "recording"}
WhileSubmitting == {"submit"}
Anywhere == AllCrashPoints
=============================================================================
