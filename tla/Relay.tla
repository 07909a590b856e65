------------------------------- MODULE Relay -------------------------------
(***************************************************************************)
(* Connections, two-party calls and the reconnect grace window of the      *)
(* signaling server: the WebSocket read loop (web/handler_ws.go), the      *)
(* relay (signaling/relay.go) and what it asks of the hub                  *)
(* (signaling/hub.go).                                                     *)
(*                                                                         *)
(* Every connection is served by a read loop of its own.  A loop registers *)
(* its connection with the hub, handles the device's messages one at a     *)
(* time, and when the socket closes runs OnConnClosed and then Unregister. *)
(* A device may connect again before its old loop has unwound: the hub     *)
(* then replaces the old connection, and both loops go on.  A step here is *)
(* what a loop, or the callback of a grace timer, does under one lock.     *)
(*                                                                         *)
(* The tracker is a set of calls here: CallTracker models its locks, its   *)
(* rows and the conferences.  One server process; no Redis.                *)
(***************************************************************************)
EXTENDS Naturals, FiniteSets

CONSTANTS
  Lines,          \* line numbers
  Devices,        \* hardware ids
  LineOf,         \* the line each device is paired to
  Callers,        \* bound: the lines that dial
  MaxConns,       \* bound: connections a device may make
  NoLine          \* "no line"

ASSUME LinesAssumption ==
  /\ NoLine \notin Lines
  /\ LineOf \in [Devices -> Lines]
  /\ Callers \subseteq Lines
ASSUME MaxConnsAssumption == MaxConns \in Nat \ {0}

VARIABLES
  conn,        \* the hub: the current connection of each device, 0 if none
  loop,        \* loop[d][e]: where the read loop of d's e-th connection is
  calls,       \* the tracker: active calls, <<caller, callee>>
  ext,         \* extensions: the peer an extension device is connected to
  timer,       \* a grace timer is armed for the device on its line
  firing,      \* the callback of a timer that fired: none | recheck | end
  seated,      \* history: the device has been registered since its timer fired
  vanished     \* history: lines all of whose devices left counting on each other

vars == <<conn, loop, calls, ext, timer, firing, seated, vanished>>

Epochs == 1 .. MaxConns

LoopPCs == {"none", "registered", "open", "dialing", "pickup", "closed", "current",
            "holding", "arm", "clear", "unregister", "done"}
Loop == [pc : LoopPCs, to : Lines \cup {NoLine}]
At(d, e, pc) == loop[d][e].pc = pc
Go(d, e, pc) == loop' = [loop EXCEPT ![d][e] = [pc |-> pc, to |-> NoLine]]
GoWith(d, e, pc, line) == loop' = [loop EXCEPT ![d][e] = [pc |-> pc, to |-> line]]

-----------------------------------------------------------------------------
(* What the relay asks of the hub and of the tracker.                      *)

DevicesOn(n) == {d \in Devices : LineOf[d] = n}
ConnectionCount(n) == Cardinality({d \in DevicesOn(n) : conn[d] # 0})
IsOnline(n) == \E d \in DevicesOn(n) : conn[d] # 0
HardwareOnlineOnLine(d) == conn[d] # 0

CallsOf(n) == {c \in calls : n \in {c[1], c[2]}}
Busy(n) == CallsOf(n) # {}
CanAddAsHost(n) ==
  /\ \A c \in calls : c[2] # n
  /\ Cardinality({c \in calls : c[1] = n}) = 1
PeersOf(n) == {m \in Lines : <<n, m>> \in calls \/ <<m, n>> \in calls}

ExtensionsOn(n) == {d \in DevicesOn(n) : ext[d] # NoLine}
ClearExtensions(S) == ext' = [d \in Devices |-> IF d \in S THEN NoLine ELSE ext[d]]

(* Mutant: the calls the line placed are overlooked.                       *)
MutEndCallsAsCallee(n) ==
  /\ calls' = {c \in calls : c[2] # n}
  /\ IF PeersOf(n) = {} THEN UNCHANGED ext ELSE ClearExtensions(ExtensionsOn(n))

(* endActiveCallsAsHangup: without a peer it returns early and leaves the  *)
(* extensions of the line alone.                                           *)
endActiveCallsAsHangup(n) ==
  /\ calls' = calls \ CallsOf(n)
  /\ IF PeersOf(n) = {} THEN UNCHANGED ext ELSE ClearExtensions(ExtensionsOn(n))

-----------------------------------------------------------------------------
(* A connection begins.                                                    *)

(* Hub.Register: the device's new connection replaces the one it has.      *)
HubRegister(d, e) ==
  /\ At(d, e, "none")
  /\ \A f \in Epochs : f < e => ~ At(d, f, "none")
  /\ conn' = [conn EXCEPT ![d] = e]
  /\ Go(d, e, "registered")
  /\ vanished' = vanished \ {LineOf[d]}
  /\ UNCHANGED <<calls, ext, timer, firing, seated>>

(* OnReconnect: cancelGraceLocal.                                          *)
OnReconnect(d, e) ==
  /\ At(d, e, "registered")
  /\ timer' = [timer EXCEPT ![d] = FALSE]
  /\ Go(d, e, "open")
  /\ UNCHANGED <<conn, calls, ext, firing, seated, vanished>>

-----------------------------------------------------------------------------
(* The device's messages, handled in its read loop.  A device has one      *)
(* socket: it sends on its newest connection.                              *)

IsNewest(d, e) == \A f \in Epochs : f > e => At(d, f, "none")

(* handleCall up to its last check.                                        *)
DialCheck(d, e, to) ==
  /\ At(d, e, "open") /\ IsNewest(d, e)
  /\ LineOf[d] \in Callers /\ to # LineOf[d]
  /\ IsOnline(to) /\ ~ Busy(to)
  /\ ~ Busy(LineOf[d]) \/ CanAddAsHost(LineOf[d])
  /\ GoWith(d, e, "dialing", to)
  /\ UNCHANGED <<conn, calls, ext, timer, firing, seated, vanished>>

(* OnCallInitiated.                                                        *)
DialInitiate(d, e) ==
  /\ At(d, e, "dialing")
  /\ calls' = calls \cup {<<LineOf[d], loop[d][e].to>>}
  /\ Go(d, e, "open")
  /\ UNCHANGED <<conn, ext, timer, firing, seated, vanished>>

(* handleHangup: an extension device only ends its extension.              *)
handleHangup(d, e) ==
  /\ At(d, e, "open") /\ IsNewest(d, e)
  /\ \/ /\ ext[d] # NoLine
        /\ ClearExtensions({d})
        /\ UNCHANGED calls
     \/ /\ ext[d] = NoLine
        /\ Busy(LineOf[d])
        /\ endActiveCallsAsHangup(LineOf[d])
  /\ UNCHANGED <<conn, loop, timer, firing, seated, vanished>>

(* handleExtensionPickup reads the peer, then stores the extension.        *)
PickupCheck(d, e, peer) ==
  /\ At(d, e, "open") /\ IsNewest(d, e)
  /\ peer \in PeersOf(LineOf[d])
  /\ GoWith(d, e, "pickup", peer)
  /\ UNCHANGED <<conn, calls, ext, timer, firing, seated, vanished>>

PickupStore(d, e) ==
  /\ At(d, e, "pickup")
  /\ ext' = [ext EXCEPT ![d] = IF @ = NoLine THEN loop[d][e].to ELSE @]
  /\ Go(d, e, "open")
  /\ UNCHANGED <<conn, calls, timer, firing, seated, vanished>>

-----------------------------------------------------------------------------
(* A connection ends: the deferred calls of the read loop, in their order. *)

(* The socket fails, or the device or the hub closes it.  A timing         *)
(* assumption: a handler is done before the device's next connection has   *)
(* come and gone (milliseconds against a reconnect with its backoff).      *)
Handling(d, e) == loop[d][e].pc \in {"registered", "dialing", "pickup"}
SocketCloses(d, e) ==
  /\ At(d, e, "open")
  /\ \A f \in Epochs : f < e => ~ Handling(d, f)
  /\ Go(d, e, "closed")
  /\ UNCHANGED <<conn, calls, ext, timer, firing, seated, vanished>>

(* OnConnClosed: only the hub's current connection goes on to OnDisconnect.*)
OnConnClosed(d, e) ==
  /\ At(d, e, "closed")
  /\ Go(d, e, IF conn[d] = e THEN "current" ELSE "unregister")
  /\ UNCHANGED <<conn, calls, ext, timer, firing, seated, vanished>>

(* A device whose loop has yet to decide about the call of its line.       *)
Stays(d) == conn[d] # 0 /\ ~ At(d, conn[d], "unregister")

(* Mutant: the departing connection is taken for a sibling.                *)
MutCountsItself(d, e) ==
  /\ At(d, e, "current")
  /\ ClearExtensions({d})
  /\ Go(d, e, IF ConnectionCount(LineOf[d]) > 0 THEN "unregister" ELSE "holding")
  /\ UNCHANGED <<conn, calls, timer, firing, seated, vanished>>

(* OnDisconnect: the extension goes; with a sibling on the line nothing    *)
(* else happens, even if the sibling's loop is itself past this point.     *)
OnDisconnect(d, e) ==
  LET siblings == ConnectionCount(LineOf[d]) > 1
      staying == \E x \in DevicesOn(LineOf[d]) : Stays(x) /\ <<x, conn[x]>> # <<d, e>>
  IN  /\ At(d, e, "current")
      /\ ClearExtensions({d})
      /\ Go(d, e, IF siblings THEN "unregister" ELSE "holding")
      /\ vanished' = IF siblings /\ ~ staying THEN vanished \cup {LineOf[d]} ELSE vanished
      /\ UNCHANGED <<conn, calls, timer, firing, seated>>

(* PeerOf: a call is held by a timer, an idle line is cleared.             *)
OnDisconnectPeer(d, e) ==
  /\ At(d, e, "holding")
  /\ Go(d, e, IF PeersOf(LineOf[d]) # {} THEN "arm" ELSE "clear")
  /\ UNCHANGED <<conn, calls, ext, timer, firing, seated, vanished>>

(* startGraceTimer: replaces a timer that is already armed.                *)
startGraceTimer(d, e) ==
  /\ At(d, e, "arm")
  /\ timer' = [timer EXCEPT ![d] = TRUE]
  /\ Go(d, e, "unregister")
  /\ UNCHANGED <<conn, calls, ext, firing, seated, vanished>>

(* ClearByNumber and clearExtensionsForCall.                               *)
ClearLine(d, e) ==
  /\ At(d, e, "clear")
  /\ calls' = calls \ CallsOf(LineOf[d])
  /\ ClearExtensions(ExtensionsOn(LineOf[d]))
  /\ Go(d, e, "unregister")
  /\ UNCHANGED <<conn, timer, firing, seated, vanished>>

(* Hub.Unregister: removes this connection and no other.                   *)
HubUnregister(d, e) ==
  /\ At(d, e, "unregister")
  /\ conn' = [conn EXCEPT ![d] = IF @ = e THEN 0 ELSE @]
  /\ seated' = [seated EXCEPT ![d] = @ /\ conn[d] # e]
  /\ Go(d, e, "done")
  /\ UNCHANGED <<calls, ext, timer, firing, vanished>>

-----------------------------------------------------------------------------
(* The callback of the grace timer.                                        *)

(* The timer fires and its callback removes it from the table.  The window *)
(* is seconds long: the loop that armed the timer has unregistered by then,*)
(* and so has the callback of an earlier timer ended.                      *)
GraceFires(d) ==
  /\ timer[d] /\ firing[d] = "none"
  /\ \A e \in Epochs : ~ At(d, e, "unregister")
  /\ timer' = [timer EXCEPT ![d] = FALSE]
  /\ firing' = [firing EXCEPT ![d] = "recheck"]
  /\ seated' = [seated EXCEPT ![d] = conn[d] # 0]
  /\ UNCHANGED <<conn, loop, calls, ext, vanished>>

(* Mutant: no recheck, an expired window ends the call.                    *)
MutNoRecheck(d) ==
  /\ firing[d] = "recheck"
  /\ firing' = [firing EXCEPT ![d] = "end"]
  /\ UNCHANGED <<conn, loop, calls, ext, timer, seated, vanished>>

(* The fire-time recheck of live presence.                                 *)
GraceRecheck(d) ==
  /\ firing[d] = "recheck"
  /\ firing' = [firing EXCEPT ![d] = IF HardwareOnlineOnLine(d) THEN "none" ELSE "end"]
  /\ UNCHANGED <<conn, loop, calls, ext, timer, seated, vanished>>

GraceEnds(d) ==
  /\ firing[d] = "end"
  /\ firing' = [firing EXCEPT ![d] = "none"]
  /\ endActiveCallsAsHangup(LineOf[d])
  /\ UNCHANGED <<conn, loop, timer, seated, vanished>>

-----------------------------------------------------------------------------

Init ==
  /\ conn = [d \in Devices |-> 0]
  /\ loop = [d \in Devices |-> [e \in Epochs |-> [pc |-> "none", to |-> NoLine]]]
  /\ calls = {}
  /\ ext = [d \in Devices |-> NoLine]
  /\ timer = [d \in Devices |-> FALSE]
  /\ firing = [d \in Devices |-> "none"]
  /\ seated = [d \in Devices |-> FALSE]
  /\ vanished = {}

(* The people at the phones and the network: nothing obliges them.         *)
Environment(d, e) ==
  \/ HubRegister(d, e)
  \/ SocketCloses(d, e)
  \/ \E n \in Lines : DialCheck(d, e, n) \/ PickupCheck(d, e, n)
  \/ handleHangup(d, e)

(* The steps of a read loop that has begun something.                      *)
LoopStep(d, e) ==
  /\ ~ At(d, e, "none") /\ ~ At(d, e, "open")
  /\ \/ OnReconnect(d, e) \/ DialInitiate(d, e) \/ PickupStore(d, e)
     \/ OnConnClosed(d, e) \/ OnDisconnect(d, e) \/ OnDisconnectPeer(d, e)
     \/ startGraceTimer(d, e) \/ ClearLine(d, e) \/ HubUnregister(d, e)

GraceStep(d) == GraceFires(d) \/ GraceRecheck(d) \/ GraceEnds(d)

Next ==
  \E d \in Devices :
    \/ \E e \in Epochs : Environment(d, e) \/ LoopStep(d, e)
    \/ GraceStep(d)

(* A goroutine that can go on does; an armed timer fires.                  *)
Fairness ==
  /\ \A d \in Devices, e \in Epochs : WF_vars(LoopStep(d, e))
  /\ \A d \in Devices : WF_vars(GraceStep(d))

Spec == Init /\ [][Next]_vars /\ Fairness

-----------------------------------------------------------------------------
(* Properties.                                                             *)

(* Types: connections, read loops, calls, extensions and grace timers of   *)
(* relay.go; the hub's connection of a device is one that it made.         *)
TypeOK ==
  /\ conn \in [Devices -> 0 .. MaxConns]
  /\ loop \in [Devices -> [Epochs -> Loop]]
  /\ calls \in SUBSET (Lines \X Lines)
  /\ ext \in [Devices -> Lines \cup {NoLine}]
  /\ timer \in [Devices -> BOOLEAN]
  /\ firing \in [Devices -> {"none", "recheck", "end"}]
  /\ seated \in [Devices -> BOOLEAN]
  /\ vanished \subseteq Lines

(* A line is settled when none of its loops and callbacks is at work.      *)
LoopAtRest(d, e) == loop[d][e].pc \in {"none", "open", "done"}
Settled(n) ==
  \A d \in DevicesOn(n) : /\ \A e \in Epochs : LoopAtRest(d, e)
                          /\ ~ timer[d]
                          /\ firing[d] = "none"

(* The teardown of a grace window is never for a device that came back     *)
(* before the timer fired and stayed, also when OnReconnect ran before the *)
(* old loop armed the timer and so found nothing to cancel.                *)
ReconnectKeepsCall == \A d \in Devices : firing[d] = "end" => ~ seated[d]

(* No orphan: once a line has settled, a call it placed is gone if all its *)
(* devices are; a call without its caller would keep both lines busy with  *)
(* nobody left to hang up.  The exception is a line whose last devices     *)
(* left together, each counting the other (OnDisconnect).                  *)
NoOrphanCall ==
  \A c \in calls : Settled(c[1]) => IsOnline(c[1]) \/ c[1] \in vanished

(* The same as a promise: a call whose caller's line went offline ends, or *)
(* the caller comes back.                                                  *)
CallerGoneEndsCall ==
  \A c \in {p \in Callers \X Lines : p[1] # p[2]} :
    (c \in calls /\ ~ IsOnline(c[1])) ~>
      (c \notin calls \/ IsOnline(c[1]) \/ c[1] \in vanished)

=============================================================================
