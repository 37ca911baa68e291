--------------------------- MODULE MCCaptureWindow ---------------------------
(* Instances of CaptureWindow for TLC. *)
EXTENDS CaptureWindow, TLC
CONSTANTS p1, p2, other
OnePart == {p1}
TwoParts == {p1, p2}
Other == {other}
=============================================================================
