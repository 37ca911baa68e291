---------------------------- MODULE SensorRequests ----------------------------
(***************************************************************************)
(* What the collection controller promises about the requests it sends to  *)
(* the sensor (the rule stated at the top of cellular_runner.py): a row is *)
(* asked for by the schedule or by the operator, a request goes out only   *)
(* for a row that was asked for and whose earlier requests the sensor did  *)
(* not receive, one request is under way at a time, and nothing else makes *)
(* the sensor record.                                                      *)
(***************************************************************************)
EXTENDS Integers

CONSTANTS
  Row,       \* what may be recorded: the rows of all passes
  NoRow      \* none of them: not in Row

VARIABLES
  asks,      \* how often each row was asked for
  out,       \* the row whose request is on its way to the sensor, or NoRow
  received   \* how many requests for each row the sensor received

requests == <<asks, out, received>>

Init ==
  /\ asks = [t \in Row |-> 0]
  /\ out = NoRow
  /\ received = [t \in Row |-> 0]

(* Rows are asked for: a pass starts, or the operator retries them. *)
Ask(S) ==
  /\ asks' = [t \in Row |-> IF t \in S THEN asks[t] + 1 ELSE asks[t]]
  /\ UNCHANGED <<out, received>>

(* A request is sent only if the sensor received fewer than were asked for. *)
Send(t) ==
  /\ out = NoRow
  /\ received[t] < asks[t]
  /\ out' = t
  /\ UNCHANGED <<asks, received>>

Arrive ==
  /\ out # NoRow
  /\ received' = [received EXCEPT ![out] = @ + 1]
  /\ out' = NoRow
  /\ UNCHANGED asks

Lose ==
  /\ out # NoRow
  /\ out' = NoRow
  /\ UNCHANGED <<asks, received>>

Next ==
  \/ \E S \in SUBSET Row : Ask(S)
  \/ \E t \in Row : Send(t)
  \/ Arrive
  \/ Lose

Spec == Init /\ [][Next]_requests
=============================================================================
