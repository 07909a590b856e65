----------------------------- MODULE PhoneCalls -----------------------------
(***************************************************************************)
(* A phone in calls, in two views that share nothing: the handset and its  *)
(* daemon (Handset), and call return between a phone and the server        *)
(* (CallReturn).                                                           *)
(***************************************************************************)
EXTENDS Naturals

CONSTANTS
  DigitsRequired,
  MaxHooks, MaxIn, MaxUart,     \* bounds of the handset
  Requester, Others, NoNumber,  \* the lines of call return
  MaxMoves, MaxTurns            \* its bounds

VARIABLES
  pico, toPico, toPi,           \* the firmware and its wires
  digitsd,                      \* the daemon
  leg, toPhone, toServer,       \* the server's side of the line
  hooks, ins,                   \* counters
  calls, conf, last, online,    \* the server: calls and connections
  pending, handler,             \* the retry, and who looks at it
  phone, down, up,              \* the requester and its messages
  spare, excused                \* bounds and history

H == INSTANCE Handset WITH d <- digitsd
R == INSTANCE CallReturn WITH MaxActs <- MaxTurns

ASSUME HandsetAssumption ==
  /\ DigitsRequired \in Nat \ {0}
  /\ MaxHooks \in Nat /\ MaxIn \in Nat /\ MaxUart \in Nat

ASSUME ReturnAssumption == Requester \notin Others /\ NoNumber \notin Others \cup {Requester}

(* The controller follows the hook, down as well as up: once the UART is   *)
(* quiet a cradled phone is idle or ringing, as the firmware is, and a     *)
(* lifted one is neither (phone_fsm.c, onHookOn, onHookOff).               *)
ControllerFollowsHook == H!ControllerFollowsHook

(* Nobody talks to a cradled phone: when everything under way has arrived, *)
(* it holds no peer and the server has no answered call for its line       *)
(* (HangupCall, initiateCallAfterDelay, connectDeadline).                  *)
NobodyOnACradledPhone == H!NobodyOnACradledPhone

(* Once nobody is looking, a retry of *69 only waits while one of its two  *)
(* lines is busy or was unreachable, in a conference, or in a call whose   *)
(* end was lost (relay.go, OnCallEndedNotify and checkPendingReturn).      *)
FreeRetryFires == R!FreeRetryFires
=============================================================================
