------------------------------ MODULE ThreeWay ------------------------------
(***************************************************************************)
(* Three-way calling: phones (ConferencePhone), the relay's two-party and  *)
(* conference handlers (signaling/relay.go, signaling/conference.go), the  *)
(* WebSockets between them with the relay's reconnect grace, and the media *)
(* of the two-party calls with its ICE recovery.                           *)
(*                                                                         *)
(* Host is in a call with one phone and a third phone is idle.  Users hook,*)
(* flash and dial; a socket may break, with everything in flight on it,    *)
(* and media may fail.  The tracker's operations are atomic here           *)
(* (CallTracker has their steps).                                          *)
(***************************************************************************)
EXTENDS ConferencePhone, FiniteSets

CONSTANTS
  Host, Peer,      \* in a call at the start
  Flashers,        \* the phones whose users flash
  Budgets          \* bounds: what users and networks do, see Budget

Budget == [hooks : Nat, flashes : Nat, drops : Nat, losses : Nat]

StartOK == /\ Host \in Phones /\ Peer \in Phones /\ Host # Peer /\ Flashers \subseteq Phones
           /\ Budgets \subseteq Budget

VARIABLES
  phone,           \* the daemons
  up,              \* the lifted handsets
  inbox, outbox,   \* messages to and from each phone
  conn,            \* WebSockets: "live", "stale" (broken, unnoticed), "none"
  resuming,        \* phones connected again whose call is not yet settled
  grace,           \* phones with a running grace timer
  calls,           \* the tracker's active calls, <<caller, callee>>
  conf,            \* the tracker's conference
  confs,           \* conferences so far
  sids,            \* negotiations so far
  lost,            \* a message was lost with its socket
  budget           \* what is left of it

server == <<calls, conf, confs, grace>>
vars == <<phone, up, inbox, outbox, conn, resuming, server, sids, lost, budget>>

NoConf == [id |-> 0, host |-> Nobody, members |-> {}]

Init ==
  /\ phone = [p \in Phones |-> CASE p = Host -> InCallWith(Peer, TRUE, 1)
                                 [] p = Peer -> InCallWith(Host, FALSE, 1)
                                 [] OTHER    -> Idle]
  /\ up = {Host, Peer}
  /\ inbox = [p \in Phones |-> <<>>]
  /\ outbox = [p \in Phones |-> <<>>]
  /\ conn = [p \in Phones |-> "live"]
  /\ resuming = {} /\ grace = {}
  /\ calls = {<<Host, Peer>>}
  /\ conf = NoConf /\ confs = 0 /\ sids = 1
  /\ lost = FALSE
  /\ budget \in Budgets

Spend(what) == budget[what] > 0 /\ budget' = [budget EXCEPT ![what] = @ - 1]

-----------------------------------------------------------------------------
(* Phones.                                                                 *)

(* The daemon of p becomes c; what it sent goes to the server, or is lost  *)
(* with the socket.                                                        *)
Become(p, c) ==
  /\ phone' = [phone EXCEPT ![p] = [c EXCEPT !.out = <<>>]]
  /\ outbox' = [outbox EXCEPT ![p] = IF conn[p] = "live" THEN @ \o c.out ELSE @]
  /\ lost' = (lost \/ (conn[p] # "live" /\ c.out # <<>>))

Daemon(p, c) ==
  /\ Become(p, c)
  /\ UNCHANGED <<up, inbox, conn, resuming, server, sids, budget>>

Lift(p) ==
  /\ p \notin up /\ Spend("hooks")
  /\ up' = up \cup {p}
  /\ Become(p, OnHookOff(phone[p]))
  /\ UNCHANGED <<inbox, conn, resuming, server, sids>>

Cradle(p) ==
  /\ p \in up /\ Spend("hooks")
  /\ up' = up \ {p}
  /\ Become(p, OnHookOn(phone[p]))
  /\ UNCHANGED <<inbox, conn, resuming, server, sids>>

(* The Pico reports a flash while detection is on: from the call's         *)
(* connection to the hang-up.                                              *)
Flash(p) ==
  /\ p \in up \cap Flashers /\ Spend("flashes")
  /\ phone[p].state \in AddStates \cup {"CONNECTED", "CONFERENCE_MERGED"}
  /\ Become(p, OnHookFlash(phone[p]))
  /\ UNCHANGED <<up, inbox, conn, resuming, server, sids>>

(* The seventh digit dials.  An aborted add's dial delay (0.8 s) is over   *)
(* by then: two flashes and seven keys take longer.                        *)
AddDial(p, number) ==
  /\ p \in up /\ phone[p].state = "ADD_DIALTONE" /\ number # p
  /\ \A t \in phone[p].tasks : t.kind \notin Delays
  /\ Daemon(p, DialThirdParty(phone[p], number))

DialDelayEnds(p) ==
  \E t \in phone[p].tasks, result \in {"sent", "unsent", "failed"} :
    /\ t.kind = "dial"
    /\ result = "unsent" => conn[p] # "live"
    /\ sids' = sids + 1
    /\ Become(p, InitiateCallAfterDelay(phone[p], t.number, sids', result))
    /\ UNCHANGED <<up, inbox, conn, resuming, server, budget>>

AddFailed(p) ==
  /\ \E t \in phone[p].tasks : t.kind = "intercept"
  /\ Daemon(p, Intercept(phone[p]))

(* triggerHangup's goroutine: whatever call is current by now.             *)
TriggeredHangup(p) ==
  LET t == [kind |-> "hangup", number |-> Nobody]
  IN  /\ t \in phone[p].tasks
      /\ Daemon(p, OnSignalHangup([phone[p] EXCEPT !.tasks = @ \ {t}], Nobody, FALSE))

ConnectDeadlinePasses(p) ==
  /\ phone[p].deadline # 0
  /\ Daemon(p, ConnectDeadline(phone[p]))

(* The main loop takes a message; while the reconnect goroutine has the    *)
(* new socket the loop does not read it.                                   *)
Receive(p) ==
  /\ inbox[p] # <<>> /\ p \notin resuming
  /\ LET m == Head(inbox[p])
         offers == m.type = "connect" /\ m.flag /\ m.conf = phone[p].confID
     IN  /\ sids' = IF offers THEN sids + 1 ELSE sids
         /\ Become(p, HandleSignal(phone[p], p, m, sids'))
  /\ inbox' = [inbox EXCEPT ![p] = Tail(@)]
  /\ UNCHANGED <<up, conn, resuming, server, budget>>

-----------------------------------------------------------------------------
(* Media of the two-party peers.                                           *)

(* The other phone's end of p's two-party peer, wherever it keeps it.      *)
FarEnd(p) ==
  LET q == phone[p].callPeer
  IN  IF q = Nobody \/ ~ Exists(phone[p].pm) THEN NoPeer
      ELSE IF phone[q].callPeer = p /\ Exists(phone[q].pm) THEN phone[q].pm
      ELSE phone[q].mesh[p]
Joined(p) ==
  /\ phone[p].pm.sig = "stable"
  /\ FarEnd(p).sig = "stable" /\ FarEnd(p).sid = phone[p].pm.sid

MediaConnects(p) ==
  /\ Joined(p) /\ phone[p].link \in {"new", "disconnected"}
  /\ Daemon(p, HandleConnectionStateChange(phone[p], "connected", TRUE))

(* The path breaks, or the far end is gone.                                *)
MediaFails(p, state) ==
  /\ Exists(phone[p].pm)
  /\ \/ state = "disconnected" /\ phone[p].link = "connected"
     \/ state = "failed" /\ phone[p].link \in {"new", "connected", "disconnected"}
  /\ IF Joined(p) THEN Spend("losses") ELSE phone[p].link # "new" /\ UNCHANGED budget
  /\ \E offered \in BOOLEAN :
       Become(p, HandleConnectionStateChange(phone[p], state, offered))
  /\ UNCHANGED <<up, inbox, conn, resuming, server, sids>>

DisconnectDebounce(p) ==
  /\ phone[p].debounce
  /\ Daemon(p, DebounceExpires(phone[p], TRUE))

RestartTimer(p) ==
  /\ phone[p].timer
  /\ Daemon(p, RestartTimeout(phone[p]))

-----------------------------------------------------------------------------
(* The server.                                                             *)

AllPeersOf(p) == {q \in Phones : <<p, q>> \in calls \/ <<q, p>> \in calls}
InCall(p, q) == q \in AllPeersOf(p)
IsBusy(p) == p \in conf.members
Busy(p) == AllPeersOf(p) # {} \/ IsBusy(p)
CanAddAsHost(p) ==
  /\ \A q \in Phones : <<q, p>> \notin calls
  /\ Cardinality({q \in Phones : <<p, q>> \in calls}) = 1
InCallOrConference(p, q) == InCall(p, q) \/ {p, q} \subseteq conf.members

(* To(q, m) for each phone in turn; a message to a socket that is not live *)
(* is lost.                                                                *)
Deliver(to) ==
  /\ inbox' = [q \in Phones |-> IF conn[q] = "live" THEN inbox[q] \o to[q] ELSE inbox[q]]
  /\ lost' = (lost \/ \E q \in Phones : conn[q] # "live" /\ to[q] # <<>>)
Nothing == [q \in Phones |-> <<>>]
To(q, m) == [Nothing EXCEPT ![q] = <<m>>]

HandleCall(p, m) ==
  /\ IF conn[m.peer] = "none"
       THEN /\ Deliver(To(p, IF Busy(m.peer) THEN Msg("busy", m.peer) ELSE Msg("error", Nobody)))
            /\ UNCHANGED calls
     ELSE IF Busy(m.peer) \/ (Busy(p) /\ ~ CanAddAsHost(p))
       THEN Deliver(To(p, Msg("busy", m.peer))) /\ UNCHANGED calls
     ELSE Deliver(To(m.peer, Msg("ring", p))) /\ calls' = calls \cup {<<p, m.peer>>}
  /\ UNCHANGED <<conf, confs, grace>>

HandleAnswer(p, m) ==
  /\ Deliver(IF InCallOrConference(p, m.peer) THEN To(m.peer, [m EXCEPT !.peer = p]) ELSE Nothing)
  /\ UNCHANGED server

HandleSignalingForward(p, m) ==
  /\ LET member == conf.id # 0 /\ m.conf = conf.id /\ {p, m.peer} \subseteq conf.members
     IN  Deliver(IF m.peer # Nobody /\ (member \/ InCallOrConference(p, m.peer))
                   THEN To(m.peer, [m EXCEPT !.peer = p]) ELSE Nothing)
  /\ UNCHANGED server

(* SendToWithTimeout waits for room in a full queue; a queue never is here. *)
SendToWithTimeout(q, m) == Deliver(To(q, m))

HandleICERestart(p, m) ==
  /\ IF m.peer = Nobody THEN Deliver(Nothing)
     ELSE IF InCallOrConference(p, m.peer) THEN SendToWithTimeout(m.peer, [m EXCEPT !.peer = p])
     ELSE Deliver(To(p, Msg("error", Nobody)))
  /\ UNCHANGED server

EndConf(conference) == [Msg("end", Nobody) EXCEPT !.conf = conference.id]

EndActiveCallsAsHangup(p, timeout) ==
  /\ Deliver([q \in Phones |-> IF InCall(p, q)
                THEN <<[Msg("hangup", p) EXCEPT !.flag = timeout]>> ELSE <<>>])
  /\ calls' = {c \in calls : c[1] # p /\ c[2] # p}
  /\ UNCHANGED <<conf, confs>>

EndConference ==
  /\ Deliver([q \in Phones |-> IF q \in conf.members THEN <<EndConf(conf)>> ELSE <<>>])
  /\ conf' = NoConf
  /\ UNCHANGED <<calls, confs>>

(* The rest get a continuation call, and at once the conference's end.     *)
DropMember(p) ==
  /\ LET rest == conf.members \ {p}
         first == CHOOSE q \in rest : \A r \in rest : q <= r
         leave == [Msg("leave", p) EXCEPT !.conf = conf.id]
     IN  /\ Deliver([q \in Phones |-> IF q \in rest THEN <<leave, EndConf(conf)>> ELSE <<>>])
         /\ calls' = calls \cup {<<first, q>> : q \in rest \ {first}}
  /\ conf' = NoConf
  /\ UNCHANGED confs

HandleHangup(p, m) ==
  /\ CASE IsBusy(p) /\ conf.host = p -> EndConference
       [] IsBusy(p) /\ conf.host # p -> DropMember(p)
       [] OTHER -> EndActiveCallsAsHangup(p, m.flag)
  /\ UNCHANGED grace

(* Both calls of the host become the conference.  The held and the active  *)
(* party are told to connect, and the smaller number offers; nothing asks  *)
(* whether they are two.                                                   *)
HandleConferenceMerge(p, m) ==
  /\ LET held == m.peer
         active == m.other
         members == {p, held, active}
         member == [Msg("member", p) EXCEPT !.conf = confs + 1]
         connect(q, initiator) == [Msg("connect", q) EXCEPT !.conf = confs + 1, !.flag = initiator]
     IN  IF {held, active} \subseteq AllPeersOf(p) /\ ~ IsBusy(held) /\ ~ IsBusy(active)
           THEN /\ calls' = {c \in calls : c[1] \notin members /\ c[2] \notin members}
                /\ confs' = confs + 1
                /\ conf' = [id |-> confs', host |-> p, members |-> members]
                /\ Deliver([q \in Phones |->
                     (IF q \in members THEN <<member>> ELSE <<>>)
                     \o (IF q = held THEN <<connect(active, held < active)>> ELSE <<>>)
                     \o (IF q = active THEN <<connect(held, ~ (held < active))>> ELSE <<>>)])
           ELSE Deliver(To(p, Msg("rejected", Nobody))) /\ UNCHANGED <<calls, conf, confs>>
  /\ UNCHANGED grace

(* HandleMessage.                                                          *)
Serve(p) ==
  /\ outbox[p] # <<>>
  /\ LET m == Head(outbox[p])
     IN  CASE m.type = "call"    -> HandleCall(p, m)
           [] m.type = "answer"  -> HandleAnswer(p, m)
           [] m.type = "sdp"     -> HandleSignalingForward(p, m)
           [] m.type = "restart" -> HandleICERestart(p, m)
           [] m.type = "hangup"  -> HandleHangup(p, m)
           [] m.type = "merge"   -> HandleConferenceMerge(p, m)
  /\ outbox' = [outbox EXCEPT ![p] = Tail(@)]
  /\ UNCHANGED <<phone, up, conn, resuming, sids, budget>>

-----------------------------------------------------------------------------
(* Sockets.                                                                *)

(* The socket breaks with what is in flight on it; the server does not     *)
(* know yet.                                                               *)
SocketBreaks(p) ==
  /\ conn[p] = "live" /\ p \notin resuming /\ Spend("drops")
  /\ conn' = [conn EXCEPT ![p] = "stale"]
  /\ inbox' = [inbox EXCEPT ![p] = <<>>]
  /\ outbox' = [outbox EXCEPT ![p] = <<>>]
  /\ lost' = (lost \/ inbox[p] # <<>> \/ outbox[p] # <<>>)
  /\ UNCHANGED <<phone, up, resuming, server, sids>>

(* OnConnClosed: a conference ends at once, a two-party call is held.      *)
OnDisconnect(p) ==
  /\ conn[p] = "stale"
  /\ conn' = [conn EXCEPT ![p] = "none"]
  /\ IF IsBusy(p)
       THEN /\ EndConference /\ UNCHANGED grace
       ELSE /\ grace' = IF AllPeersOf(p) # {} THEN grace \cup {p} ELSE grace
            /\ UNCHANGED <<calls, conf, confs, inbox, lost>>
  /\ UNCHANGED <<phone, up, outbox, resuming, sids, budget>>

GraceExpires(p) ==
  /\ p \in grace
  /\ grace' = grace \ {p}
  /\ IF conn[p] = "none" THEN EndActiveCallsAsHangup(p, FALSE)
     ELSE UNCHANGED <<calls, conf, confs, inbox, lost>>
  /\ UNCHANGED <<phone, up, outbox, conn, resuming, sids, budget>>

(* reconnectLoop: the new socket registers, which ends the grace; then the *)
(* goroutine settles the call.                                             *)
Reconnect(p) ==
  /\ conn[p] # "live"
  /\ conn' = [conn EXCEPT ![p] = "live"]
  /\ grace' = grace \ {p}
  /\ resuming' = resuming \cup {p}
  /\ UNCHANGED <<phone, up, inbox, outbox, calls, conf, confs, sids, lost, budget>>

ReconnectSettles(p) ==
  /\ p \in resuming
  /\ resuming' = resuming \ {p}
  /\ \E offered \in BOOLEAN : Become(p, ResumeAfterReconnect(phone[p], offered))
  /\ UNCHANGED <<up, inbox, conn, server, sids, budget>>

-----------------------------------------------------------------------------
Next ==
  \E p \in Phones :
    \/ Lift(p)
    \/ Cradle(p)
    \/ Flash(p)
    \/ \E number \in Phones : AddDial(p, number)
    \/ DialDelayEnds(p)
    \/ AddFailed(p)
    \/ TriggeredHangup(p)
    \/ ConnectDeadlinePasses(p)
    \/ Receive(p)
    \/ MediaConnects(p)
    \/ \E state \in {"disconnected", "failed"} : MediaFails(p, state)
    \/ DisconnectDebounce(p)
    \/ RestartTimer(p)
    \/ Serve(p)
    \/ SocketBreaks(p)
    \/ OnDisconnect(p)
    \/ GraceExpires(p)
    \/ Reconnect(p)
    \/ ReconnectSettles(p)

Spec == Init /\ [][Next]_vars

-----------------------------------------------------------------------------
(* Properties.                                                             *)

(* Nothing is under way: no message, goroutine, timer or socket, and no    *)
(* media that has lost its far end without noticing.                       *)
Quiet ==
  /\ resuming = {} /\ grace = {}
  /\ \A p \in Phones :
       /\ inbox[p] = <<>> /\ outbox[p] = <<>> /\ conn[p] = "live"
       /\ phone[p].tasks = {} /\ ~ phone[p].timer /\ ~ phone[p].debounce
       /\ phone[p].deadline = 0
       /\ phone[p].link = "connected" /\ Exists(phone[p].pm) => Joined(p)
       /\ Joined(p) => phone[p].link \notin {"new", "disconnected"}

(* p hears q: the two have the ends of one negotiation, q's carries its    *)
(* user's voice and p's plays what arrives.                                *)
Hears(p, q) ==
  \E a \in RemoteTrack(phone[p]) \cup MeshRemoteTracks(phone[p]), b \in Encoded(phone[q]) :
    a.sig = "stable" /\ b.sig = "stable" /\ a.sid = b.sid

(* During an add the host and the party its controller holds do not hear   *)
(* each other, unless it hung up and is the party being added, and a mute  *)
(* never outlives its add, however it ends (enterAddDialtone, abortAdd,    *)
(* requestMerge, HandleConferenceRejected).                                *)
Held(p) == IF phone[p].state \in AddStates THEN {phone[p].held} \ {Nobody} ELSE {}
MutesEndWithTheAdd ==
  \A p \in Phones : /\ \A q \in Phones \ Held(p) : ~ phone[p].mesh[q].muted
                    /\ ~ phone[p].pm.muted
MutesMatchHold ==
  /\ \A p \in Phones : \A q \in Held(p) \ {phone[p].adding} : ~ Hears(p, q) /\ ~ Hears(q, p)
  /\ MutesEndWithTheAdd

(* Silent hold, as the table of states promises it: during an add nobody   *)
(* but the party being added hears the host or is heard by it              *)
(* (docs/architecture/party-line.md:19).  The code keeps it only while     *)
(* callPeer names a party of the call (TearDownPeer).                      *)
HoldIsSilent ==
  \A p \in Phones : phone[p].state \in AddStates =>
    \A q \in Phones \ {p, phone[p].adding} : ~ Hears(p, q) /\ ~ Hears(q, p)

(* Once everything has settled and nothing was lost with a socket, the     *)
(* three of a live conference hear each other (handleConferenceMerge,      *)
(* AddMeshPeer, setupMeshResponder, MigrateToMesh).                        *)
MeshIsComplete ==
  Quiet /\ ~ lost /\ Cardinality(conf.members) = 3 =>
    \A p, q \in conf.members : p # q => Hears(p, q)

(* Once everything has settled, a connected phone that has a peer has      *)
(* somebody at its other end: a dead peer never outlives its call          *)
(* (connectDeadline, the hang-ups of the grace timer, enterICERecovery).   *)
DeadPeersAreDropped ==
  Quiet => \A p \in Phones :
    phone[p].state = "CONNECTED" /\ Exists(phone[p].pm) => Joined(p)

(* A recovery of the current two-party call always ends: its timeout runs  *)
(* or has already asked for the hang-up (enterICERecovery, ICERestart).    *)
RecoveryIsTimed ==
  \A p \in Phones :
    phone[p].restarting /\ Exists(phone[p].pm) /\ phone[p].state = "CONNECTED" =>
      phone[p].timer \/ [kind |-> "hangup", number |-> Nobody] \in phone[p].tasks
=============================================================================
