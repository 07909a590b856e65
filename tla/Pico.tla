-------------------------------- MODULE Pico --------------------------------
(***************************************************************************)
(* The firmware of the handset (firmware/src/phone_fsm.c, hook.c) and the  *)
(* UART between it and digitsd.                                            *)
(*                                                                         *)
(* The firmware is one loop: poll the hook switch, process every command   *)
(* that has arrived, report the hook event, follow the hook, check the     *)
(* timeouts, scan the keypad.  An action is one iteration of that loop.    *)
(*                                                                         *)
(* Left out: the LED, the forced and the inverted hook, the key test, the  *)
(* queries, the reboot commands; the keys * and #; and the hook flash,     *)
(* whose window opens here but always times out.                           *)
(***************************************************************************)
EXTENDS Naturals, Sequences

CONSTANT
  DigitsRequired   \* DIAL_DIGITS_REQUIRED

VARIABLES
  pico,            \* the firmware's state
  toPico,          \* commands on the wire
  toPi             \* events on the wire

picoVars == <<pico, toPico, toPi>>

PicoStates == {"IDLE", "DIAL_TONE", "DIALING", "RINGING", "CONNECTED", "BUSY"}
Commands   == {"RING:START", "RING:STOP", "CALL:CONNECTED", "HOOK:FLASH:ON", "HOOK:FLASH:OFF"}
HookEvents == {"NONE", "HOOK:OFF", "HOOK:ON"}
Events     == {"HOOK:OFF", "HOOK:ON", "KEY", "DIAL", "TIMEOUT:DIAL_TONE"}

(* s_state, s_digits_len, s_dial_sent, s_off_hook, s_flash_pending,        *)
(* s_flash_enabled; s_event and what is sent live within an iteration.     *)
(* lost is history: RING:START has discarded a hook event.                 *)
PicoType ==
  [state : PicoStates, digits : 0 .. DigitsRequired, sent : BOOLEAN, up : BOOLEAN,
   window : BOOLEAN, flash : BOOLEAN, event : HookEvents, lost : BOOLEAN,
   out : {<<>>}]

PicoInit ==
  /\ pico = [state |-> "IDLE", digits |-> 0, sent |-> FALSE, up |-> FALSE,
             window |-> FALSE, flash |-> FALSE, event |-> "NONE", lost |-> FALSE,
             out |-> <<>>]
  /\ toPico = <<>>
  /\ toPi = <<>>

-----------------------------------------------------------------------------
(* The parts of an iteration, each from firmware state to firmware state.  *)

set_state(p, next) ==
  IF p.state = next THEN p
  ELSE IF next \in {"IDLE", "DIAL_TONE"}
       THEN [p EXCEPT !.state = next, !.digits = 0, !.sent = FALSE]
       ELSE [p EXCEPT !.state = next]

uart_proto_send(p, line) == [p EXCEPT !.out = Append(@, line)]

hook_poll(p, change) ==
  CASE change = "lift"   -> [p EXCEPT !.up = TRUE, !.event = "HOOK:OFF"]
    [] change = "cradle" -> IF p.flash THEN [p EXCEPT !.up = FALSE, !.window = TRUE]
                                       ELSE [p EXCEPT !.up = FALSE, !.event = "HOOK:ON"]
    [] change = "expire" -> [p EXCEPT !.window = FALSE, !.event = "HOOK:ON"]
    [] change = "none"   -> p

(* Mutant: an open window is closed and its hangup forgotten.              *)
MutWindowForgotten(p, enabled) ==
  IF enabled THEN [p EXCEPT !.flash = TRUE] ELSE [p EXCEPT !.flash = FALSE, !.window = FALSE]

hook_set_flash_enabled(p, enabled) ==
  IF p.flash /\ ~ enabled /\ p.window
    THEN [p EXCEPT !.flash = FALSE, !.window = FALSE, !.event = "HOOK:ON"]
    ELSE [p EXCEPT !.flash = enabled]

(* RING:START discards a hook event that has not been reported yet.        *)
process_pi_command(p, cmd) ==
  CASE cmd = "RING:START"     -> 
         set_state([p EXCEPT !.event = "NONE", !.lost = @ \/ p.event # "NONE"], "RINGING")
    [] cmd = "RING:STOP"      -> IF p.state = "RINGING" THEN set_state(p, "IDLE") ELSE p
    [] cmd = "CALL:CONNECTED" -> IF p.state \in {"DIALING", "RINGING"}
                                   THEN set_state(p, "CONNECTED") ELSE p
    [] cmd = "HOOK:FLASH:ON"  -> hook_set_flash_enabled(p, TRUE)
    [] cmd = "HOOK:FLASH:OFF" -> hook_set_flash_enabled(p, FALSE)

ProcessCommands(p, cmds) ==
  LET after[n \in 0 .. Len(cmds)] ==
        IF n = 0 THEN p ELSE process_pi_command(after[n - 1], cmds[n])
  IN  after[Len(cmds)]

ReportHook(p) ==
  LET q == [p EXCEPT !.event = "NONE"]
  IN  CASE p.event = "HOOK:OFF" -> uart_proto_send(q, "HOOK:OFF")
        [] p.event = "HOOK:ON"  -> set_state(uart_proto_send(q, "HOOK:ON"), "IDLE")
        [] p.event = "NONE"     -> q

(* The state follows the hook, but not while a flash window is open.       *)
FollowHook(p) ==
  LET q == CASE p.window -> p
             [] ~ p.window /\ ~ p.up /\ p.state \notin {"IDLE", "RINGING"} -> set_state(p, "IDLE")
             [] ~ p.window /\ p.up /\ p.state = "IDLE" -> set_state(p, "DIAL_TONE")
             [] OTHER -> p
  IN  IF q.state = "RINGING" /\ q.up THEN set_state(q, "CONNECTED") ELSE q

(* A digit: forwarded while dialling or connected, and after the last one  *)
(* the number, once.                                                       *)
process_key(p) ==
  LET q == IF p.state = "DIAL_TONE" THEN set_state(p, "DIALING") ELSE p
      k == uart_proto_send(q, "KEY")
      d == [k EXCEPT !.digits = IF @ < DigitsRequired THEN @ + 1 ELSE @]
  IN  CASE q.state = "CONNECTED" -> k
        [] q.state = "DIALING"   ->
             IF d.digits = DigitsRequired /\ ~ d.sent
               THEN [uart_proto_send(d, "DIAL") EXCEPT !.sent = TRUE] ELSE d
        [] q.state \notin {"CONNECTED", "DIALING"} -> q

-----------------------------------------------------------------------------
(* The iterations.                                                         *)

(* The end of an iteration.  What it sent goes to the wire.                *)
Loop(p) ==
  /\ pico' = [p EXCEPT !.out = <<>>]
  /\ toPi' = toPi \o p.out

(* phone_fsm_update with a hook change and the first n waiting commands.   *)
LoopHook(change, n) ==
  /\ change = "lift" => ~ pico.up /\ ~ pico.window
  /\ change = "cradle" => pico.up
  /\ change = "expire" => pico.window
  /\ n <= Len(toPico)
  /\ change # "none" \/ n > 0
  /\ Loop(FollowHook(ReportHook(ProcessCommands(hook_poll(pico, change), SubSeq(toPico, 1, n)))))
  /\ toPico' = SubSeq(toPico, n + 1, Len(toPico))

(* A key that the state machine does not ignore.                           *)
LoopKey ==
  /\ pico.state \in {"DIAL_TONE", "DIALING", "CONNECTED"}
  /\ Loop(process_key(pico))
  /\ UNCHANGED toPico

(* Fifteen seconds without a complete number.                              *)
LoopTimeout ==
  /\ pico.state = "DIAL_TONE" \/ (pico.state = "DIALING" /\ ~ pico.sent)
  /\ Loop(set_state(uart_proto_send(pico, "TIMEOUT:DIAL_TONE"), "BUSY"))
  /\ UNCHANGED toPico
=============================================================================
