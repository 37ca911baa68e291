---------------------------- MODULE ConnectPacer ----------------------------
(***************************************************************************)
(* Opening SSH connections to the sensor (sftp_client.py): the gate of     *)
(* handshakes, the pacer that all users of SFTP in the program share, and  *)
(* connect_sftp() with its second try under other algorithms.  A user is   *)
(* a thread that connects: a download worker, a listing, a preview.        *)
(* Time is counted in ticks.  A connect ends by three timeouts in a row,   *)
(* for TCP, the banner and the login: it may outlast the cool-down that    *)
(* another connect began, and end while a later one is the probe.          *)
(***************************************************************************)
EXTENDS Naturals, Sequences, FiniteSets

CONSTANTS
  Users, Slots,             \* SSH_HANDSHAKE_SLOTS
  Window, PerWindow,        \* SSH_CONNECT_WINDOW_S, SSH_CONNECTS_PER_WINDOW
  Cooldown, CooldownMax,    \* SSH_COOLDOWN_S, SSH_COOLDOWN_MAX_S
  ConnectTicks,             \* timeout, banner_timeout and auth_timeout, SFTP_CONNECT_TIMEOUT_S each
  Tries                     \* bound: how often a user tries (patience_s)

ASSUME ConnectPacerAssumption ==
  /\ {Slots, Window, PerWindow, Cooldown, CooldownMax, ConnectTicks, Tries} \subseteq Nat \ {0}
  /\ Cooldown <= CooldownMax /\ IsFiniteSet(Users)

VARIABLES
  at,        \* "idle", "gate", "turn" (in acquire()), "connecting", "open", "over"
  again,     \* the second try, with other algorithms, holding the same slot
  lasts,     \* ticks since client.connect() began
  tried,
  starts,    \* _starts: the age of each
  blocked,   \* ticks until _blocked_until
  cool,      \* the cool-down after the last of _timeouts, 0 if there is none
  probing,   \* _probing
  probes,    \* history: users that connect since connects began to time out
  outlived,  \* history: those of them during whose connect an older one ended
  begun      \* history: the ages of the connects of the last Window

user_vars == <<at, again, lasts, tried>>
pacer_vars == <<starts, blocked, cool, probing>>
pacer_all == <<user_vars, pacer_vars, probes, outlived, begun>>

Handshaking == {u \in Users : at[u] \in {"turn", "connecting"}}

(* The types, and never more handshakes than there are slots. *)
PacerTypeOK ==
  /\ at \in [Users -> {"idle", "gate", "turn", "connecting", "open", "over"}]
  /\ again \in [Users -> BOOLEAN] /\ lasts \in [Users -> 0 .. ConnectTicks] /\ tried \in [Users -> 0 .. Tries]
  /\ starts \in Seq(0 .. Window) /\ blocked \in 0 .. CooldownMax
  /\ cool \in 0 .. CooldownMax /\ probing \in BOOLEAN /\ probes \subseteq Users /\ outlived \subseteq probes
  /\ begun \in Seq(0 .. Window)
  /\ Cardinality(Handshaking) <= Slots

PacerInit ==
  /\ at = [u \in Users |-> "idle"] /\ again = [u \in Users |-> FALSE]
  /\ lasts = [u \in Users |-> 0] /\ tried = [u \in Users |-> 0]
  /\ starts = <<>> /\ blocked = 0 /\ cool = 0 /\ probing = FALSE /\ probes = {} /\ outlived = {} /\ begun = <<>>

-----------------------------------------------------------------------------
(* u is not connecting any longer; the probes begun with it or after it have outlived it. *)
Outlive(u) == IF at[u] = "connecting" THEN {v \in probes : lasts[v] <= lasts[u]} ELSE {}
Goes(u, where) ==
  /\ at' = [at EXCEPT ![u] = where] /\ lasts' = [lasts EXCEPT ![u] = 0]
  /\ probes' = probes \ {u} /\ outlived' = (outlived \cup Outlive(u)) \ {u}

(* A worker or a listing begins connect_sftp(); _connect() of a worker tries again while its
   patience lasts.                                                                          *)
Begin(u) ==
  /\ at[u] = "idle" /\ tried[u] < Tries
  /\ tried' = [tried EXCEPT ![u] = @ + 1] /\ again' = [again EXCEPT ![u] = FALSE]
  /\ Goes(u, "gate") /\ UNCHANGED <<pacer_vars, begun>>

GateOpen == Cardinality(Handshaking) < Slots

PassGate(u) ==
  /\ at[u] = "gate" /\ GateOpen
  /\ Goes(u, "turn") /\ UNCHANGED <<again, tried, pacer_vars, begun>>

CancelConnect(u) ==
  /\ at[u] \in {"gate", "turn"}
  /\ Goes(u, "over") /\ UNCHANGED <<again, tried, pacer_vars, begun>>

(* acquire() while connections are held back: SftpConnectError *)
HeldBack(u) ==
  /\ at[u] = "turn" /\ blocked > 0
  /\ Goes(u, "idle") /\ UNCHANGED <<again, tried, pacer_vars, begun>>

(* Those of the last Window: the older ones are dropped from the left, as far as they are old. *)
Expired(ages) ==
  CHOOSE n \in 0 .. Len(ages) : (\A i \in 1 .. n : ages[i] >= Window) /\ (n < Len(ages) => ages[n + 1] < Window)
Recent(ages) == SubSeq(ages, Expired(ages) + 1, Len(ages))

(* AcquireTogether is the mutant of Acquire that lets more than one probe. *)
AcquireTogether(u) ==
  /\ at[u] = "turn" /\ blocked = 0
  /\ Len(Recent(starts)) < PerWindow /\ starts' = Append(Recent(starts), 0) /\ begun' = Append(begun, 0)
  /\ at' = [at EXCEPT ![u] = "connecting"] /\ lasts' = [lasts EXCEPT ![u] = 0]
  /\ probes' = IF cool > 0 THEN probes \cup {u} ELSE probes
  /\ UNCHANGED <<again, tried, blocked, cool, probing, outlived>>

(* acquire(): its turn; a probe under way or too many starts make it wait *)
Acquire(u) ==
  /\ at[u] = "turn" /\ blocked = 0 /\ ~(cool > 0 /\ probing)
  /\ Len(Recent(starts)) < PerWindow /\ starts' = Append(Recent(starts), 0) /\ begun' = Append(begun, 0)
  /\ probing' = (probing \/ cool > 0)
  /\ at' = [at EXCEPT ![u] = "connecting"] /\ lasts' = [lasts EXCEPT ![u] = 0]
  /\ probes' = IF cool > 0 THEN probes \cup {u} ELSE probes
  /\ UNCHANGED <<again, tried, blocked, cool, outlived>>

(* reached(): logged in, or the login is refused (which is final) *)
Reached(u) ==
  /\ at[u] = "connecting"
  /\ cool' = 0 /\ probing' = FALSE /\ blocked' = 0
  /\ \E where \in {"open", "over"} :
       /\ at' = [at EXCEPT ![u] = where] /\ lasts' = [lasts EXCEPT ![u] = 0]
  /\ probes' = {} /\ outlived' = {}
  /\ UNCHANGED <<again, tried, starts, begun>>

(* What follows a failed connect: a failure that may be one of algorithms is tried once more. *)
AfterFailure(u) ==
  \/ Goes(u, "idle") /\ UNCHANGED again
  \/ ~again[u] /\ again' = [again EXCEPT ![u] = TRUE] /\ Goes(u, "turn")

(* timed_out(): a cool-down, twice as long as the last one.  Like failed(), it takes the probe for
   over whoever's connect has ended.                                                              *)
NextCooldown == IF cool = 0 THEN Cooldown ELSE IF 2 * cool < CooldownMax THEN 2 * cool ELSE CooldownMax
TimedOut(u) ==
  /\ at[u] = "connecting" /\ cool' = NextCooldown /\ blocked' = cool' /\ probing' = FALSE
  /\ AfterFailure(u) /\ UNCHANGED <<tried, starts, begun>>

(* failed(): refused, unreachable, no algorithm in common *)
Failed(u) ==
  /\ at[u] = "connecting" /\ probing' = FALSE
  /\ AfterFailure(u) /\ UNCHANGED <<tried, starts, begun, blocked, cool>>

Close(u) ==
  /\ at[u] = "open" /\ Goes(u, "over") /\ UNCHANGED <<again, tried, pacer_vars, begun>>

Tick ==
  /\ \A u \in Users : at[u] = "connecting" => lasts[u] < ConnectTicks
  /\ \E u \in Users : at[u] \in {"idle", "gate", "turn", "connecting"}
  /\ lasts' = [u \in Users |-> IF at[u] = "connecting" THEN lasts[u] + 1 ELSE 0]
  /\ starts' = [i \in 1 .. Len(starts) |-> IF starts[i] < Window THEN starts[i] + 1 ELSE Window]
  /\ begun' = Recent([i \in 1 .. Len(begun) |-> begun[i] + 1])
  /\ blocked' = IF blocked > 0 THEN blocked - 1 ELSE 0
  /\ UNCHANGED <<at, again, tried, cool, probing, probes, outlived>>

ConnectEnds(u) == Reached(u) \/ TimedOut(u) \/ Failed(u)
PacerNext ==
  \/ Tick
  \/ \E u \in Users : \/ Begin(u) \/ PassGate(u) \/ CancelConnect(u) \/ HeldBack(u) \/ Acquire(u)
                      \/ ConnectEnds(u) \/ Close(u)

PacerSpec == PacerInit /\ [][PacerNext]_pacer_all

(* Threads run, connects end by their timeouts, and time passes.  Neither the gate nor the pacer
   is first come, first served: a turn comes because the patience of the others is finite.      *)
PacerWork ==
  \E u \in Users :
    \/ PassGate(u) \/ HeldBack(u) \/ Acquire(u) \/ ConnectEnds(u)
    \/ Tick /\ at[u] = "turn"
PacerFairness == WF_pacer_all(PacerWork)

-----------------------------------------------------------------------------
(* Not more than PerWindow connects begin within any window, whatever fails meanwhile. *)
StartsPaced == Len(begun) <= PerWindow

(* After a timeout, connections are tried one at a time until one gets through: a second probe
   begins only after an older connect, begun before the first, has ended beside it.            *)
OneProbe == Cardinality(probes \ outlived) <= 1

(* Nobody waits for ever for a turn: a probe that ends, however it ends, lets the next one go. *)
NobodyWaitsForATurn == \A u \in Users : at[u] \in {"gate", "turn"} ~> at[u] \notin {"gate", "turn"}

(* The sensor's SSH server is spared: few handshakes at once, few in a window, one after a timeout. *)
ConnectsArePaced == PacerTypeOK /\ StartsPaced /\ OneProbe
==============================================================================
