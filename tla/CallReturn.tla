------------------------------ MODULE CallReturn ------------------------------
(***************************************************************************)
(* Call return, from one phone to the server and back: *69 asks who called *)
(* last, 1 calls that line, a busy answer registers a retry, and when the  *)
(* line is free the server has the phone ring with a pattern of its own;   *)
(* a pickup then dials.  *89 cancels.                                      *)
(*                                                                         *)
(* The server looks at a retry when it is registered and whenever a call   *)
(* ends, in the goroutine that ended it: the requester's read loop, or one *)
(* other at a time.  Between two looks under a lock anything may happen.   *)
(* The other lines are reduced to the calls they are in.  Relay has the    *)
(* read loops and the grace window, Handset the rest of a call.            *)
(***************************************************************************)
EXTENDS Naturals, Sequences, FiniteSets

CONSTANTS
  Requester,     \* the line whose phone is modelled
  Others,        \* the other lines, which it may call
  NoNumber,      \* "no line"
  MaxMoves,      \* bound: what the requester does with hook and keys
  MaxActs        \* bound: what other lines, networks and clocks do

VARIABLES
  calls,         \* the tracker: active calls, <<caller, callee>>
  conf,          \* the lines in conferences
  online,        \* the hub: the lines with a connection
  last,          \* the calls table: who called the requester last
  pending,       \* pendingReturns[Requester]
  handler,       \* the goroutines that look at it
  phone,         \* the requester's controller and daemon
  down, up,      \* messages to the phone and to the server, in order
  spare,         \* what is left of the bounds
  excused        \* history: whether the retry may have been overlooked

tracker == <<calls, conf, last>>
server == <<tracker, online, pending, handler>>
wires == <<down, up>>
returnVars == <<server, phone, wires, spare, excused>>

Everyone == Others \cup {Requester}
Goroutines == {"loop", "other"}
Rest == [pc |-> "idle", ended |-> <<NoNumber, NoNumber>>, target |-> NoNumber]
NoRetry == [target |-> NoNumber, expired |-> FALSE]

ReturnInit ==
  /\ calls \in {{}} \cup {{c} : c \in {p \in Others \X Others : p[1] # p[2]}}
  /\ last \in Others \cup {NoNumber}
  /\ conf = {} /\ online = Everyone /\ pending = NoRetry
  /\ handler = [g \in Goroutines |-> Rest]
  /\ phone = [state |-> "IDLE", number |-> NoNumber, ringing |-> FALSE, target |-> NoNumber,
              origin |-> FALSE, tasks |-> {}]
  /\ down = <<>> /\ up = <<>>
  /\ spare = [moves |-> MaxMoves, acts |-> MaxActs]
  /\ excused = FALSE

Use(what) == spare[what] > 0 /\ spare' = [spare EXCEPT ![what] = @ - 1]
Tell(type, number) ==
  down' = IF Requester \in online THEN Append(down, <<type, number>>) ELSE down

-----------------------------------------------------------------------------
(* The server: retries.                                                    *)

IsOnline(n) == n \in online
Busy(n) == n \in conf \/ \E c \in calls : n \in {c[1], c[2]}
Pending == pending # NoRetry

HandlerAt(g, pc) == handler[g].pc = pc
HandlerTo(g, pc) == handler' = [handler EXCEPT ![g].pc = pc]

\* Nobody can blame the check for a retry whose lines were unreachable, or in a
\* conference, while it was waiting.
Excuse(S) == excused' = (excused \/ (Pending /\ S \cap {Requester, pending.target} # {}))

\* Mutant: the requester's own calls are not looked at.
MutOnlyTheTarget(ended) == Pending /\ pending.target \in {ended[1], ended[2]}
\* OnCallEndedNotify: the retries that the end of this call may have freed.
Concerns(ended) == Pending /\ {pending.target, Requester} \cap {ended[1], ended[2]} # {}

\* OnCallEndedNotify under its lock; an expired retry is deleted.
OnCallEndedNotify(g) ==
  /\ HandlerAt(g, "notify")
  /\ pending' = IF pending.expired THEN NoRetry ELSE pending
  /\ HandlerTo(g, IF Concerns(handler[g].ended) /\ ~pending.expired THEN "check" ELSE "after")
  /\ UNCHANGED <<tracker, online, phone, wires, spare, excused>>

\* checkPendingReturn: the target is read under the lock ...
CheckPendingReturn(g) ==
  /\ HandlerAt(g, "check")
  /\ pending' = IF pending.expired THEN NoRetry ELSE pending
  /\ handler' = IF ~Pending \/ pending.expired THEN [handler EXCEPT ![g].pc = "after"]
                ELSE [handler EXCEPT ![g].pc = "target", ![g].target = pending.target]
  /\ UNCHANGED <<tracker, online, phone, wires, spare, excused>>

\* ... the tracker and the hub are asked without it, one after the other ...
AskBusy(g, pc, n, next) ==
  /\ HandlerAt(g, pc)
  /\ HandlerTo(g, IF Busy(n) THEN "after" ELSE next)
  /\ UNCHANGED <<tracker, online, pending, phone, wires, spare, excused>>
AskOnline(g) ==
  /\ HandlerAt(g, "online")
  /\ HandlerTo(g, IF IsOnline(Requester) /\ IsOnline(handler[g].target) THEN "ring" ELSE "after")
  /\ UNCHANGED <<tracker, online, pending, phone, wires, spare, excused>>

\* ... and whatever entry is there is taken: only one goroutine rings for it.
RingRequester(g) ==
  /\ HandlerAt(g, "ring")
  /\ HandlerTo(g, "after")
  /\ pending' = NoRetry
  /\ IF Pending THEN Tell("call_return_ring", handler[g].target) ELSE UNCHANGED down
  /\ UNCHANGED <<tracker, online, phone, up, spare, excused>>

\* After the retries: the other party is told of the hangup; a line that was
\* disconnected loses its retry, and then its connection.
AfterNotify(g) ==
  /\ HandlerAt(g, "after")
  /\ handler' = [handler EXCEPT ![g] = Rest]
  /\ LET ended == handler[g].ended
         gone == ended # Rest.ended /\ ended[2] = NoNumber
     IN  /\ pending' = IF gone /\ ended[1] = Requester THEN NoRetry ELSE pending
         /\ online' = IF gone THEN online \ {ended[1]} ELSE online
         /\ IF g = "other" /\ ~gone /\ Requester \in {ended[1], ended[2]}
              THEN Tell("hangup", NoNumber) ELSE UNCHANGED down
         /\ IF gone THEN Excuse({ended[1]}) ELSE UNCHANGED excused
  /\ UNCHANGED <<tracker, phone, up, spare>>

Look(g) ==
  \/ OnCallEndedNotify(g) \/ CheckPendingReturn(g)
  \/ AskBusy(g, "target", handler[g].target, "self") \/ AskBusy(g, "self", Requester, "online")
  \/ AskOnline(g) \/ RingRequester(g) \/ AfterNotify(g)

\* OnCallEnded: the call goes, and the observer hears of it unless the row
\* cannot be updated.
OnCallEnded(g, c) ==
  /\ calls' = calls \ {c}
  /\ \/ handler' = [handler EXCEPT ![g] = [Rest EXCEPT !.pc = "notify", !.ended = c]]
        /\ UNCHANGED <<spare, excused>>
     \/ handler' = [handler EXCEPT ![g] = [Rest EXCEPT !.pc = "after", !.ended = c]]
        /\ Use("acts") /\ Excuse({c[1], c[2]})

-----------------------------------------------------------------------------
(* The server: the requester's messages.                                   *)

Receives(type) ==
  /\ HandlerAt("loop", "idle") /\ up # <<>> /\ Head(up)[1] = type
  /\ up' = Tail(up)
Number == Head(up)[2]

\* handleCallReturn: LastInboundCaller.
HandleCallReturn ==
  /\ Receives("call_return")
  /\ Tell("call_return_result", last)
  /\ UNCHANGED <<server, phone, spare, excused>>

\* handleCallReturnRetry: a new retry replaces the old one and is looked at.
HandleCallReturnRetry ==
  /\ Receives("call_return_retry")
  /\ pending' = [NoRetry EXCEPT !.target = Number]
  /\ HandlerTo("loop", "check")
  /\ excused' = (Number \in conf \/ {Number, Requester} \cap (Everyone \ online) # {})
  /\ UNCHANGED <<tracker, online, phone, down, spare>>

HandleCallReturnCancel ==
  /\ Receives("call_return_cancel")
  /\ pending' = NoRetry
  /\ Tell("call_return_cancelled", NoNumber)
  /\ UNCHANGED <<tracker, online, handler, phone, spare, excused>>

\* handleCall, in one step here.
HandleCall ==
  /\ Receives("call")
  /\ IF Busy(Number) \/ (IsOnline(Number) /\ Busy(Requester))
       THEN Tell("busy", Number) /\ UNCHANGED calls
       ELSE IF IsOnline(Number)
              THEN calls' = calls \cup {<<Requester, Number>>} /\ UNCHANGED down
              ELSE Tell("error", Number) /\ UNCHANGED calls
  /\ UNCHANGED <<conf, last, online, pending, handler, phone, spare, excused>>

\* handleHangup: the line has one call at most here.
HandleHangup ==
  /\ Receives("hangup")
  /\ \/ \E c \in calls : Requester \in {c[1], c[2]} /\ OnCallEnded("loop", c)
     \/ ~Busy(Requester) /\ UNCHANGED <<calls, handler, spare, excused>>
  /\ UNCHANGED <<conf, last, online, pending, phone, down>>

Handle ==
  \/ HandleCallReturn \/ HandleCallReturnRetry \/ HandleCallReturnCancel
  \/ HandleCall \/ HandleHangup

-----------------------------------------------------------------------------
(* The other lines, the network and the clock.                             *)

Free(n) == ~Busy(n) /\ IsOnline(n)

OthersCall(a, b) ==
  /\ a # b /\ Free(a) /\ Free(b) /\ Use("acts")
  /\ calls' = calls \cup {<<a, b>>}
  /\ UNCHANGED <<conf, last, online, pending, handler, phone, wires, excused>>

\* A call to the requester's line, and the row that *69 will find.
CallRequester(a) ==
  /\ Free(a) /\ Free(Requester) /\ Use("acts")
  /\ calls' = calls \cup {<<a, Requester>>} /\ last' = a
  /\ Tell("ring", a)
  /\ UNCHANGED <<conf, online, pending, handler, phone, up, excused>>

CalleeAnswers(b) ==
  /\ <<Requester, b>> \in calls /\ phone.state = "CALLING"
  /\ \A i \in DOMAIN down : down[i][1] # "answer"
  /\ Tell("answer", b)
  /\ UNCHANGED <<server, phone, up, spare, excused>>

\* The other party hangs up, a grace window ends, an operator ends the call.
OtherEnds(c) ==
  /\ HandlerAt("other", "idle") /\ c \in calls
  /\ OnCallEnded("other", c)
  /\ UNCHANGED <<conf, last, online, pending, phone, wires>>

\* A merge and the end of a conference do not come by the observer.
ConferenceMerges(c) ==
  /\ c \in calls /\ Requester \notin {c[1], c[2]}
  /\ calls' = calls \ {c} /\ conf' = conf \cup {c[1], c[2]}
  /\ Excuse({c[1], c[2]})
  /\ UNCHANGED <<last, online, pending, handler, phone, wires, spare>>
ConferenceEnds ==
  /\ conf # {} /\ conf' = {}
  /\ UNCHANGED <<calls, last, online, pending, handler, phone, wires, spare, excused>>

\* OnDisconnect: a call is held through the grace window; an idle line goes
\* through ClearByNumber and its observer, and only then leaves the hub.
Disconnect(n) ==
  /\ n \in online /\ Use("acts")
  /\ LET g == IF n = Requester THEN "loop" ELSE "other" IN
     /\ HandlerAt(g, "idle")
     /\ IF Busy(n)
          THEN online' = online \ {n} /\ Excuse({n}) /\ UNCHANGED handler
          ELSE /\ handler' = [handler EXCEPT ![g] =
                                [Rest EXCEPT !.pc = "notify", !.ended = <<n, NoNumber>>]]
               /\ UNCHANGED <<online, excused>>
  /\ IF n = Requester THEN down' = <<>> /\ up' = <<>> ELSE UNCHANGED wires
  /\ UNCHANGED <<tracker, pending, phone>>

OtherReturns(n) ==
  /\ n \in Others \ online
  /\ online' = online \cup {n}
  /\ UNCHANGED <<tracker, pending, handler, phone, wires, spare, excused>>

Expires ==
  /\ Pending /\ ~pending.expired /\ Use("acts")
  /\ pending' = [pending EXCEPT !.expired = TRUE]
  /\ UNCHANGED <<tracker, online, handler, phone, wires, excused>>

Surroundings ==
  \/ \E a, b \in Others : OthersCall(a, b)
  \/ \E n \in Others : CallRequester(n) \/ CalleeAnswers(n) \/ OtherReturns(n)
  \/ \E c \in calls : OtherEnds(c) \/ ConferenceMerges(c)
  \/ \E n \in Everyone : Disconnect(n)
  \/ ConferenceEnds \/ Expires

-----------------------------------------------------------------------------
(* The phone.                                                              *)

Go(state) == [phone EXCEPT !.state = state]
Spawned(p, kind, number) == [p EXCEPT !.tasks = @ \cup {<<kind, number>>}]
Ask(type, number) ==
  up' = IF Requester \in online THEN Append(up, <<type, number>>) ELSE up
Only(p) == phone' = p /\ UNCHANGED <<server, wires, excused>>

\* Reset.
Cleared(p) == [p EXCEPT !.state = "IDLE", !.number = NoNumber, !.ringing = FALSE, !.target = NoNumber]

\* onHookOff: a callback's pickup dials by itself.
OnHookOff ==
  /\ phone.state \in {"IDLE", "RINGING"} /\ Use("moves")
  /\ Only(CASE phone.state = "IDLE" -> Go("DIALTONE")
            [] phone.ringing ->
                 Spawned([Go("CALLING") EXCEPT !.ringing = FALSE, !.target = NoNumber],
                         "dial", phone.target)
            [] OTHER -> Go("CONNECTED"))

\* onHookOn and HangupCall.
OnHookOn ==
  /\ phone.state \notin {"IDLE", "RINGING"}
  /\ phone' = CASE phone.state \in {"CONNECTED", "CALLING"} -> [Cleared(phone) EXCEPT !.origin = FALSE]
                [] phone.state = "CALL_RETURN" -> Spawned(Cleared(phone), "abandon", NoNumber)
                [] OTHER -> Cleared(phone)
  /\ IF phone.state \in {"CONNECTED", "CALLING"} THEN Ask("hangup", NoNumber) ELSE UNCHANGED up
  /\ UNCHANGED <<server, down, spare, excused>>

\* onKey: *69 and *89, or a number of its own; and 1 in CALL_RETURN.
Dial(code) ==
  /\ phone.state = "DIALTONE" /\ Use("moves")
  /\ Only(CASE code = "*69" -> Spawned([Go("CALL_RETURN") EXCEPT !.number = NoNumber], "return", NoNumber)
            [] code = "*89" -> Spawned(Go("CALL_RETURN"), "cancel", NoNumber)
            [] OTHER -> Spawned(Go("CALLING"), "dial", code))
PressOne ==
  /\ phone.state = "CALL_RETURN" /\ phone.number # NoNumber
  /\ Only(Spawned([Go("CALLING") EXCEPT !.number = NoNumber], "dial", phone.number))
  /\ UNCHANGED spare

Runs(kind, number) == <<kind, number>> \in phone.tasks
Ended(kind, number) == [phone EXCEPT !.tasks = @ \ {<<kind, number>>}]

\* OnCallReturn: without a connection the phone goes back to its dial tone.
OnCallReturn ==
  /\ Runs("return", NoNumber)
  /\ phone' = IF Requester \in online
                THEN [Ended("return", NoNumber) EXCEPT !.origin = TRUE]
                ELSE [Ended("return", NoNumber) EXCEPT !.origin = FALSE, !.state = "DIALTONE"]
  /\ Ask("call_return", NoNumber)
  /\ UNCHANGED <<server, down, spare, excused>>
OnCallReturnCancel ==
  /\ Runs("cancel", NoNumber)
  /\ phone' = Ended("cancel", NoNumber)
  /\ Ask("call_return_cancel", NoNumber)
  /\ UNCHANGED <<server, down, spare, excused>>
OnCallReturnAbandon ==
  /\ Runs("abandon", NoNumber)
  /\ Only([Ended("abandon", NoNumber) EXCEPT !.origin = FALSE])
  /\ UNCHANGED spare

\* initiateCallAfterDelay.
DialDelay(n) ==
  /\ Runs("dial", n)
  /\ phone' = Ended("dial", n)
  /\ IF phone.state = "CALLING" THEN Ask("call", n) ELSE UNCHANGED up
  /\ UNCHANGED <<server, down, spare, excused>>

\* The busy answer to a returned call: half a second later the retry is sent,
\* if the phone still is where it was.
SendRetry(n) ==
  /\ Runs("retry", n)
  /\ phone' = Ended("retry", n)
  /\ IF phone.state = "CALLING" THEN Ask("call_return_retry", n) ELSE UNCHANGED up
  /\ UNCHANGED <<server, down, spare, excused>>

\* scheduleCallReturnDialtoneReset: the state is read, and then reset.
DialtoneReset ==
  \/ /\ Runs("reset", NoNumber)
     /\ Only(IF phone.state = "CALL_RETURN" THEN Spawned(Ended("reset", NoNumber), "dialtone", NoNumber)
                                            ELSE Ended("reset", NoNumber))
     /\ UNCHANGED spare
  \/ /\ Runs("dialtone", NoNumber)
     /\ Only([Ended("dialtone", NoNumber) EXCEPT !.state = "DIALTONE"])
     /\ UNCHANGED spare

Hears(type) == down # <<>> /\ Head(down)[1] = type /\ down' = Tail(down)
Heard == Head(down)[2]
Becomes(p) == phone' = p /\ UNCHANGED <<server, up, spare, excused>>

OnResult ==
  /\ Hears("call_return_result")
  /\ Becomes(IF Heard = NoNumber THEN Spawned(phone, "reset", NoNumber)
                                 ELSE [phone EXCEPT !.number = Heard])
OnCancelled ==
  /\ Hears("call_return_cancelled")
  /\ Becomes(Spawned(phone, "reset", NoNumber))

\* HandleCallReturnRing: only a phone that is idle rings.
HandleCallReturnRing ==
  /\ Hears("call_return_ring")
  /\ Becomes(IF phone.state = "IDLE"
               THEN [Go("RINGING") EXCEPT !.ringing = TRUE, !.target = Heard] ELSE phone)
OnBusy ==
  /\ Hears("busy")
  /\ Becomes(IF phone.origin THEN Spawned([phone EXCEPT !.origin = FALSE], "retry", Heard) ELSE phone)
OnError == Hears("error") /\ Becomes(phone)
OnSignalRing == Hears("ring") /\ Becomes(IF phone.state = "IDLE" THEN Go("RINGING") ELSE phone)
OnSignalAnswer ==
  Hears("answer") /\ Becomes(IF phone.state = "CALLING" THEN Go("CONNECTED") ELSE phone)

\* onSignalHangup in RINGING.
RingEnds(p) == [p EXCEPT !.state = "IDLE", !.ringing = FALSE, !.target = NoNumber]
OnSignalHangup ==
  /\ Hears("hangup")
  /\ phone' = CASE phone.state = "RINGING" -> RingEnds(phone)
                [] phone.state = "CONNECTED" -> [Go("REMOTE_HANGUP") EXCEPT !.origin = FALSE]
                [] OTHER -> phone
  /\ IF phone.state = "CONNECTED" THEN Ask("hangup", NoNumber) ELSE UNCHANGED up
  /\ UNCHANGED <<server, spare, excused>>

\* The WebSocket is back: a connected call is resumed, anything else that is not
\* idle is hung up and reset.
Reconnected ==
  /\ Requester \notin online /\ HandlerAt("loop", "idle")
  /\ online' = online \cup {Requester}
  /\ IF phone.state \in {"IDLE", "CONNECTED"} THEN UNCHANGED <<phone, up>>
     ELSE /\ phone' = [Cleared(phone) EXCEPT !.origin = FALSE]
          /\ up' = Append(up, <<"hangup", NoNumber>>)
  /\ UNCHANGED <<tracker, pending, handler, down, spare, excused>>

Phone ==
  \/ OnHookOff \/ OnHookOn \/ PressOne
  \/ \E code \in {"*69", "*89"} \cup Others : Dial(code)
  \/ OnCallReturn \/ OnCallReturnCancel \/ OnCallReturnAbandon \/ DialtoneReset
  \/ \E n \in Others : DialDelay(n) \/ SendRetry(n)
  \/ OnResult \/ OnCancelled \/ HandleCallReturnRing \/ OnBusy \/ OnError
  \/ OnSignalRing \/ OnSignalAnswer \/ OnSignalHangup \/ Reconnected

ReturnNext == (\E g \in Goroutines : Look(g)) \/ Handle \/ Surroundings \/ Phone

-----------------------------------------------------------------------------
\* No missed wake-up: once nobody is looking, a retry only waits while one of
\* its two lines is busy, unless one of them was unreachable or in a conference
\* meanwhile, or the end of its call could not be recorded: what ends those
\* does not look at retries (OnCallEndedNotify and checkPendingReturn, against
\* calls that end in several goroutines at once).
FreeRetryFires ==
  /\ Pending /\ ~pending.expired /\ ~excused
  /\ \A g \in Goroutines : HandlerAt(g, "idle")
  => Busy(Requester) \/ Busy(pending.target)

=============================================================================
