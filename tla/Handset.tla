------------------------------ MODULE Handset ------------------------------
(***************************************************************************)
(* A phone: the firmware (Pico), the phone controller of digitsd           *)
(* (internal/phone/controller.go), the daemon's side of a two-party call   *)
(* (cmd/digitsd/dispatch.go, webrtc.go) and the line's leg at the server.  *)
(*                                                                         *)
(* The daemon handles UART events and signaling messages one at a time, in *)
(* its main loop.  Beside it run goroutines: the dial delay, which looks   *)
(* at the controller's state and places the call under one lock, and the   *)
(* connect deadline, which looks at the peer under one lock and tells the  *)
(* controller under another.                                               *)
(*                                                                         *)
(* A handler is an operator from daemon state to daemon state; what it     *)
(* sends is collected in cmds and msgs and leaves with the step.           *)
(*                                                                         *)
(* Left out: three-way calls, voicemail, call return, service codes,       *)
(* silent mode, the WebSocket's reconnect, the LED; and the tones, whose   *)
(* sequences change nothing else.                                          *)
(***************************************************************************)
EXTENDS Pico

CONSTANTS
  MaxHooks,        \* bound: hook movements of the user
  MaxIn,           \* bound: incoming calls
  MaxUart          \* bound: events on the wire when the user presses a key

VARIABLES
  d,               \* the daemon: controller, call state, tasks
  leg,             \* the server's call of this line
  toPhone,         \* messages from the server
  toServer,        \* messages to the server
  hooks,           \* hook movements so far
  ins              \* incoming calls so far

serverVars == <<leg, toPhone, toServer>>
vars == <<picoVars, d, serverVars, hooks, ins>>

States == {"IDLE", "DIALTONE", "DIALING", "CALLING", "RINGING", "CONNECTED",
           "REMOTE_HANGUP", "CALL_FAILED", "OFFHOOK_TIMEOUT"}

(* A call: 0 for none, in calls are 1 .. MaxIn, out calls follow.          *)
InCalls  == 1 .. MaxIn
OutCall(attempt) == MaxIn + attempt
Attempts == 0 .. MaxHooks
Calls    == 0 .. (MaxIn + MaxHooks)

Messages == [type : {"ring", "sdp", "answer", "hangup", "busy", "error", "call"},
             call : Calls, timeout : BOOLEAN]
Msg(type, call) == [type |-> type, call |-> call, timeout |-> FALSE]

(* A dial delay that is running, a connect deadline that has fired and one *)
(* that found its peer still waiting.                                      *)
Task == [kind : {"dial", "deadline", "overdue"}, call : Calls]

(* state; pendingCaller, pendingOffer, preAnswer and the peer (callPeer    *)
(* with its peerMgr) by the call they belong to; the peer the connect      *)
(* timer is armed for; the numbers dialled; the goroutines.                *)
Daemon ==
  [state : States, pendingCaller : Calls, pendingOffer : Calls, preAnswer : Calls,
   peer : Calls, timer : Calls, attempt : Attempts, tasks : SUBSET Task,
   cmds : {<<>>}, msgs : {<<>>}]

-----------------------------------------------------------------------------
(* Callbacks.                                                              *)

SendPico(c, cmd)     == [c EXCEPT !.cmds = Append(@, cmd)]
Send(c, msg)         == [c EXCEPT !.msgs = Append(@, msg)]
Spawn(c, kind, call) == [c EXCEPT !.tasks = @ \cup {[kind |-> kind, call |-> call]}]
Without(c, t)        == [c EXCEPT !.tasks = @ \ {t}]

HangupCall(c) ==
  Send([SendPico(c, "HOOK:FLASH:OFF") EXCEPT !.pendingOffer = 0, !.pendingCaller = 0,
          !.preAnswer = 0, !.peer = 0, !.timer = 0], Msg("hangup", c.peer))

(* The prepared peer is promoted if it is live; otherwise a peer is made   *)
(* for the pending caller.  None may be made, or it may refuse the offer:  *)
(* nobody is told then.                                                    *)
Answers == {"live", "made", "none", "refuses"}
AnswerCall(c, how) ==
  LET caller == IF c.preAnswer # 0 /\ how = "live" THEN c.preAnswer ELSE c.pendingCaller
      taken == [c EXCEPT !.preAnswer = 0, !.pendingOffer = 0, !.pendingCaller = 0,
                         !.peer = IF how = "none" THEN 0 ELSE caller]
  IN  CASE c.pendingOffer = 0 -> c
        [] c.pendingOffer # 0 /\ how \in {"none", "refuses"} -> taken
        [] c.pendingOffer # 0 /\ how \in {"live", "made"} ->
             Send([taken EXCEPT !.timer = caller], Msg("answer", caller))

(* An offer that is not answered yet: a peer is prepared for it, unless    *)
(* one is prepared already.                                                *)
prepareAnswer(c) ==
  IF c.preAnswer = 0 THEN [c EXCEPT !.preAnswer = c.pendingCaller] ELSE c

(* The server may be unreachable; the call may have been sent when what    *)
(* follows fails, and then it is taken back.                               *)
InitiateCall(c, outcome) ==
  LET call == OutCall(c.attempt)
      sent == Send([c EXCEPT !.peer = call], Msg("call", call))
  IN  CASE outcome = "unreachable" -> c
        [] outcome = "failed"      -> Send(sent, Msg("hangup", call))
        [] outcome = "ok"          -> sent

-----------------------------------------------------------------------------
(* The controller's handlers.                                              *)

onHookOff(c, how) ==
  CASE c.state = "IDLE"    -> [c EXCEPT !.state = "DIALTONE"]
    [] c.state = "RINGING" ->
         AnswerCall(SendPico(SendPico([c EXCEPT !.state = "CONNECTED"], "RING:STOP"), "HOOK:FLASH:ON"),
                    how)
    [] c.state \notin {"IDLE", "RINGING"} -> c

onHookOn(c) ==
  LET r == SendPico([c EXCEPT !.state = "IDLE"], "RING:STOP")
  IN  CASE c.state = "IDLE" -> c
        [] c.state \in {"CONNECTED", "CALLING"} -> HangupCall(r)
        [] c.state \notin {"IDLE", "CONNECTED", "CALLING"} -> r

onKey(c) == IF c.state = "DIALTONE" THEN [c EXCEPT !.state = "DIALING"] ELSE c

(* Our own number and a number the contact filter refuses get a treatment; *)
(* any other is called after the dial delay.                               *)
onDial(c, refused) ==
  LET r == [c EXCEPT !.state = "CALLING", !.attempt = @ + 1]
  IN  CASE c.state # "DIALING" -> c
        [] c.state = "DIALING" /\ refused   -> r
        [] c.state = "DIALING" /\ ~ refused -> Spawn(r, "dial", OutCall(r.attempt))

onTimeoutDialTone(c) == IF c.state = "DIALTONE" THEN [c EXCEPT !.state = "OFFHOOK_TIMEOUT"] ELSE c

onSignalRing(c) ==
  IF c.state = "IDLE" THEN SendPico([c EXCEPT !.state = "RINGING"], "RING:START") ELSE c

onSignalAnswer(c) ==
  IF c.state = "CALLING"
    THEN SendPico(SendPico([c EXCEPT !.state = "CONNECTED"], "HOOK:FLASH:ON"), "CALL:CONNECTED")
    ELSE c

(* A hangup while calling only plays a tone: the caller should hang up.    *)
onSignalHangup(c, timeout) ==
  CASE c.state = "RINGING"   -> SendPico([c EXCEPT !.state = "IDLE"], "RING:STOP")
    [] c.state = "CONNECTED" ->
         HangupCall([c EXCEPT !.state = IF timeout THEN "CALL_FAILED" ELSE "REMOTE_HANGUP"])
    [] c.state \notin {"RINGING", "CONNECTED"} -> c

-----------------------------------------------------------------------------
(* The main loop.                                                          *)

(* What a step of the daemon sends leaves it.                              *)
Daemonic(c) ==
  /\ d' = [c EXCEPT !.cmds = <<>>, !.msgs = <<>>]
  /\ toPico' = toPico \o c.cmds
  /\ toServer' = toServer \o c.msgs

isUnsolicitedEvent(ev) == ev \in {"HOOK:OFF", "HOOK:ON", "KEY", "DIAL"}

handleEvent(c, ev, how, refused) ==
  CASE ev = "HOOK:OFF" -> onHookOff(c, how)
    [] ev = "HOOK:ON"  -> onHookOn(c)
    [] ev = "KEY"      -> onKey(c)
    [] ev = "DIAL"     -> onDial(c, refused)
    [] ev = "TIMEOUT:DIAL_TONE" -> onTimeoutDialTone(c)

(* readLoop: an event it knows goes to the main loop, any other line is    *)
(* dropped.                                                                *)
readLoop(c, line, how, refused) ==
  IF isUnsolicitedEvent(line) THEN handleEvent(c, line, how, refused) ELSE c

HandleEvent ==
  /\ toPi # <<>>
  /\ toPi' = Tail(toPi)
  /\ \E how \in Answers, refused \in BOOLEAN :
       Daemonic(readLoop(d, Head(toPi), how, refused))
  /\ UNCHANGED <<pico, leg, toPhone, hooks, ins>>

(* handleSignal.                                                           *)
handleSignal(c, m) ==
  CASE m.type = "ring"   -> onSignalRing([c EXCEPT !.pendingCaller = m.call])
    [] m.type = "sdp"    ->
         IF c.peer # 0 THEN c
         ELSE prepareAnswer([c EXCEPT !.pendingOffer = m.call,
                                      !.pendingCaller = IF @ = 0 THEN m.call ELSE @])
    [] m.type = "answer" -> onSignalAnswer([c EXCEPT !.timer = IF c.peer # 0 THEN c.peer ELSE @])
    [] m.type = "hangup" -> onSignalHangup(c, m.timeout)
    [] m.type \in {"busy", "error"} -> c

HandleSignal ==
  /\ toPhone # <<>>
  /\ toPhone' = Tail(toPhone)
  /\ Daemonic(handleSignal(d, Head(toPhone)))
  /\ UNCHANGED <<pico, toPi, leg, hooks, ins>>

-----------------------------------------------------------------------------
(* Goroutines.                                                             *)

(* Mutant: the state is not looked at after the delay.                     *)
MutDialUnchecked(t, outcome) ==
  /\ t.kind = "dial"
  /\ Daemonic(InitiateCall(Without(d, t), outcome))

(* initiateCallAfterDelay: check and act under the lock.                   *)
DialTask(t, outcome) ==
  /\ t.kind = "dial"
  /\ Daemonic(IF d.state = "CALLING" THEN InitiateCall(Without(d, t), outcome) ELSE Without(d, t))

(* connectDeadline: the timer fires ...                                    *)
ConnectTimerFires ==
  /\ d.timer # 0
  /\ Daemonic(Spawn([d EXCEPT !.timer = 0], "deadline", d.timer))

(* ... the peer is looked at ...                                           *)
DeadlineCheck(t, connected) ==
  /\ t.kind = "deadline"
  /\ Daemonic(IF d.peer = t.call /\ ~ connected THEN Spawn(Without(d, t), "overdue", t.call)
                                                ELSE Without(d, t))

(* ... and the controller is told.                                         *)
DeadlineAct(t) ==
  /\ t.kind = "overdue"
  /\ Daemonic(onSignalHangup(Without(d, t), TRUE))

(* The media connects: the timer is cancelled.                             *)
MediaConnects ==
  /\ d.timer # 0 /\ d.timer = d.peer
  /\ Daemonic([d EXCEPT !.timer = 0])

Goroutines ==
  /\ \/ \E t \in d.tasks, outcome \in {"unreachable", "failed", "ok"} : DialTask(t, outcome)
     \/ \E t \in d.tasks, connected \in BOOLEAN : DeadlineCheck(t, connected)
     \/ \E t \in d.tasks : DeadlineAct(t)
     \/ ConnectTimerFires
     \/ MediaConnects
  /\ UNCHANGED <<pico, toPi, leg, toPhone, hooks, ins>>

-----------------------------------------------------------------------------
(* The server and the other party.                                         *)

NoLeg == [call |-> 0, offered |-> FALSE, answered |-> FALSE]
Tell(m) == toPhone' = Append(toPhone, m)

(* Somebody calls the line, which is free at the server.                   *)
CallComes ==
  /\ leg = NoLeg /\ ins < MaxIn
  /\ ins' = ins + 1
  /\ leg' = [NoLeg EXCEPT !.call = ins + 1]
  /\ Tell(Msg("ring", ins + 1))
  /\ UNCHANGED <<picoVars, d, toServer, hooks>>

(* The caller's offer follows.                                             *)
OfferComes ==
  /\ leg.call \in InCalls /\ ~ leg.offered
  /\ leg' = [leg EXCEPT !.offered = TRUE]
  /\ Tell(Msg("sdp", leg.call))
  /\ UNCHANGED <<picoVars, d, toServer, hooks, ins>>

(* The callee answers.                                                     *)
CalleeAnswers ==
  /\ leg.call \notin InCalls \cup {0} /\ ~ leg.answered
  /\ leg' = [leg EXCEPT !.answered = TRUE]
  /\ Tell(Msg("answer", leg.call))
  /\ UNCHANGED <<picoVars, d, toServer, hooks, ins>>

(* The other party hangs up, or its connect timer does.                    *)
OtherHangsUp(timeout) ==
  /\ leg # NoLeg
  /\ timeout => leg.answered
  /\ leg' = NoLeg
  /\ Tell([Msg("hangup", leg.call) EXCEPT !.timeout = timeout])
  /\ UNCHANGED <<picoVars, d, toServer, hooks, ins>>

(* The server handles the phone's next message.  A hangup ends whatever    *)
(* call the line has; an answer to a call that is not the line's is        *)
(* dropped.                                                                *)
ServerHandles ==
  /\ toServer # <<>>
  /\ toServer' = Tail(toServer)
  /\ LET m == Head(toServer)
     IN  \/ /\ m.type = "hangup"
            /\ leg' = NoLeg
            /\ UNCHANGED toPhone
         \/ /\ m.type = "answer"
            /\ leg' = IF leg.call = m.call THEN [leg EXCEPT !.answered = TRUE] ELSE leg
            /\ UNCHANGED toPhone
         \/ /\ m.type = "call" /\ leg = NoLeg
            /\ leg' = [NoLeg EXCEPT !.call = m.call, !.offered = TRUE]
            /\ UNCHANGED toPhone
         \/ /\ m.type = "call"
            /\ \E type \in {"busy", "error"} : (type = "error" => leg = NoLeg) /\ Tell(Msg(type, m.call))
            /\ UNCHANGED leg
  /\ UNCHANGED <<picoVars, d, hooks, ins>>

-----------------------------------------------------------------------------
(* The user and the firmware.                                              *)

UserMoves(change, n) ==
  /\ hooks < MaxHooks
  /\ hooks' = hooks + 1
  /\ LoopHook(change, n)
  /\ UNCHANGED <<d, serverVars, ins>>

UserKeys ==
  /\ Len(toPi) < MaxUart
  /\ LoopKey
  /\ UNCHANGED <<d, serverVars, hooks, ins>>

(* Commands are processed, or the flash window expires.                    *)
PicoRuns(change, n) ==
  /\ LoopHook(change, n)
  /\ UNCHANGED <<d, serverVars, hooks, ins>>

(* Fifteen seconds are long: by then the wires are quiet.                  *)
PicoTimesOut ==
  /\ toPi = <<>> /\ toPico = <<>>
  /\ LoopTimeout
  /\ UNCHANGED <<d, serverVars, hooks, ins>>

Init ==
  /\ PicoInit
  /\ d = [state |-> "IDLE", pendingCaller |-> 0, pendingOffer |-> 0, preAnswer |-> 0,
          peer |-> 0, timer |-> 0, attempt |-> 0, tasks |-> {}, cmds |-> <<>>, msgs |-> <<>>]
  /\ leg = NoLeg
  /\ toPhone = <<>>
  /\ toServer = <<>>
  /\ hooks = 0
  /\ ins = 0

Environment ==
  \/ \E change \in {"lift", "cradle"}, n \in 0 .. Len(toPico) : UserMoves(change, n)
  \/ UserKeys
  \/ CallComes \/ OfferComes \/ CalleeAnswers
  \/ \E timeout \in BOOLEAN : OtherHangsUp(timeout)

PicoStep ==
  \/ \E change \in {"none", "expire"}, n \in 0 .. Len(toPico) : PicoRuns(change, n)
  \/ PicoTimesOut

DaemonStep == HandleEvent \/ HandleSignal

Next == Environment \/ PicoStep \/ DaemonStep \/ Goroutines \/ ServerHandles

Spec == Init /\ [][Next]_vars

-----------------------------------------------------------------------------
(* Every record keeps its shape, and the calls named in messages, tasks    *)
(* and pending fields are calls that were placed.                          *)
TypeOK ==
  /\ pico \in PicoType
  /\ toPico \in Seq(Commands)
  /\ toPi \in Seq(Events)
  /\ d \in Daemon
  /\ leg \in [call : Calls, offered : BOOLEAN, answered : BOOLEAN]
  /\ toPhone \in Seq(Messages)
  /\ toServer \in Seq(Messages)
  /\ hooks \in 0 .. MaxHooks
  /\ ins \in 0 .. MaxIn

WiresQuiet == toPi = <<>> /\ toPico = <<>>
NetQuiet   == toPhone = <<>> /\ toServer = <<>>
Cradled    == ~ pico.up /\ ~ pico.window

(* The controller learns that the handset was put down.  Once the UART is  *)
(* quiet a cradled phone is idle or ringing, and the firmware and the      *)
(* controller agree on which: a flash window, a remote hangup that closes  *)
(* it, a ring or its end that cross the hook event on the wire never leave *)
(* one of them behind.  (Unless RING:START discarded the hook event.)      *)
CradledPhoneIsIdle ==
  WiresQuiet /\ Cradled /\ ~ pico.lost =>
    d.state \in {"IDLE", "RINGING"} /\ d.state = pico.state

(* The controller learns that the handset was lifted.  Once the UART is    *)
(* quiet a lifted phone has left IDLE and RINGING: it has a dial tone, a   *)
(* call or a treatment, never a bell.  (Same exception.)                   *)
LiftedPhoneIsServed ==
  WiresQuiet /\ pico.up /\ ~ pico.lost => d.state \notin {"IDLE", "RINGING"}

(* The controller follows the hook, down as well as up.                    *)
ControllerFollowsHook == CradledPhoneIsIdle /\ LiftedPhoneIsServed

(* Nobody talks to a cradled phone: when everything under way has arrived, *)
(* it holds no peer and the server has no answered call for its line,      *)
(* whatever the dial delay and the connect deadline did meanwhile.         *)
NobodyOnACradledPhone ==
  WiresQuiet /\ NetQuiet /\ d.tasks = {} /\ Cradled /\ ~ pico.lost =>
    d.peer = 0 /\ ~ leg.answered

=============================================================================
