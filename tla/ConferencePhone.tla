-------------------------- MODULE ConferencePhone --------------------------
(***************************************************************************)
(* One digitsd in two-party and three-way calls: the controller's state    *)
(* machine (internal/phone/controller.go), the two-party peer and its ICE  *)
(* recovery (cmd/digitsd/webrtc.go), the conference mesh (conference.go,   *)
(* internal/webrtc/mesh.go, peer.go) and the signaling dispatch            *)
(* (dispatch.go).                                                          *)
(*                                                                         *)
(* A handler is an operator from a daemon to a daemon; what it sends is    *)
(* collected in out and leaves with the step that runs it.  SDP is reduced *)
(* to the number of its negotiation: an answer that belongs to another     *)
(* offer is accepted by the peer connection and never carries media.       *)
(*                                                                         *)
(* Left out: tones and LEDs, candidates, the audio pipeline, the peer that *)
(* is prepared while the phone rings (Handset has it), voicemail, call     *)
(* return, a number that is one's own or no contact.                       *)
(***************************************************************************)
EXTENDS Naturals, Sequences

CONSTANT Phones      \* the numbers; 0 stands for none

PhonesOK == Phones \subseteq Nat \ {0}

Nobody == 0

(* The digits of an add change nothing but the tone: ADD_DIALING is not    *)
(* told from ADD_DIALTONE.                                                 *)
AddStates == {"ADD_DIALTONE", "ADD_CALLING", "ADD_PRIVATE", "ADD_INTERCEPT"}
States == {"IDLE", "DIALTONE", "RINGING", "CONNECTED", "CONFERENCE_MERGED",
           "REMOTE_HANGUP", "CALL_FAILED"} \cup AddStates

(* A peer connection: its signaling state, its negotiation, both audio     *)
(* directions muted.  "crossed" is one that took a foreign answer.         *)
NoPeer == [sig |-> "none", sid |-> 0, muted |-> FALSE]
Exists(peer) == peer.sig # "none"
Offering(sid) == [sig |-> "offering", sid |-> sid, muted |-> FALSE]
Accepted(sid) == [sig |-> "stable", sid |-> sid, muted |-> FALSE]

SetAnswer(peer, sid) ==
  IF peer.sig # "offering" THEN peer
  ELSE [peer EXCEPT !.sig = IF sid = peer.sid THEN "stable" ELSE "crossed"]

NoMesh == [q \in Phones |-> NoPeer]

(* A message's fields: peer is the other phone it names, sid its           *)
(* negotiation, conf its conference, flag "connect_timeout" of a hangup    *)
(* and "initiator" of a connect, other the second leg of a merge.          *)
Msg(type, peer) ==
  [type |-> type, peer |-> peer, other |-> Nobody, conf |-> 0, sid |-> 0, flag |-> FALSE]

\* The goroutines of a dialled add: its dial delay, and its failure.
Delays == {"dial", "intercept"}

Send(c, m) == [c EXCEPT !.out = Append(@, m)]
Spawn(c, kind, number) == [c EXCEPT !.tasks = @ \cup {[kind |-> kind, number |-> number]}]

(* A daemon that has just started, and one in a two-party call.            *)
Idle ==
  [state |-> "IDLE", held |-> Nobody, adding |-> Nobody, confID |-> 0, isHost |-> FALSE,
   callPeer |-> Nobody, pm |-> NoPeer, isCaller |-> FALSE, link |-> "new",
   caller |-> Nobody, offer |-> 0, restarting |-> FALSE, timer |-> FALSE,
   debounce |-> FALSE, deadline |-> 0, hasMesh |-> FALSE, mesh |-> NoMesh,
   tasks |-> {}, out |-> <<>>]
InCallWith(q, caller, sid) ==
  [Idle EXCEPT !.state = "CONNECTED", !.callPeer = q, !.pm = Accepted(sid),
               !.isCaller = caller, !.link = "connected"]

-----------------------------------------------------------------------------
(* The mesh.                                                               *)

RemoveMeshPeer(c, q) == [c EXCEPT !.mesh[q] = NoPeer]

TearDownAllMeshPeers(c) == [c EXCEPT !.mesh = NoMesh]

(* The two-party peer moves into the mesh; a peer that is there already    *)
(* stays and the one that arrives is closed.                               *)
MigrateToMesh(c, q) ==
  IF ~ Exists(c.pm) \/ c.callPeer # q THEN c
  ELSE [c EXCEPT !.hasMesh = TRUE, !.pm = NoPeer,
                 !.mesh[q] = IF Exists(@) THEN @ ELSE c.pm]

SetPeerMuted(c, q, muted) ==
  IF c.hasMesh /\ Exists(c.mesh[q]) THEN [c EXCEPT !.mesh[q].muted = muted]
  ELSE IF Exists(c.pm) /\ c.callPeer = q THEN [c EXCEPT !.pm.muted = muted]
  ELSE c

(* The recovery's flag and timers stay as they are.                        *)
TearDownPeer(c, q) ==
  LET c1 == IF Exists(c.pm) /\ c.callPeer = q
              THEN [c EXCEPT !.pm = NoPeer, !.callPeer = Nobody] ELSE c
  IN  IF q \in Phones THEN RemoveMeshPeer(c1, q) ELSE c1

ActivePeers(c) == {q \in Phones : Exists(c.mesh[q])}

CurrentPeer(c) ==
  CASE c.state = "CONNECTED" ->
         IF c.callPeer # Nobody THEN c.callPeer
         ELSE IF \E q \in Phones : ActivePeers(c) = {q}
                THEN CHOOSE q \in Phones : ActivePeers(c) = {q}
                ELSE Nobody
    [] c.state \in AddStates \cup {"CONFERENCE_MERGED"} -> c.callPeer
    [] OTHER -> Nobody

\* Mutant: whoever is told to connect offers.
MutBothOffer(c, q, initiator, sid) ==
  Send([c EXCEPT !.hasMesh = TRUE, !.mesh[q] = Offering(sid)],
       [Msg("sdp", q) EXCEPT !.conf = c.confID, !.sid = sid])

(* The initiator makes the peer and offers; an existing one offers anew.   *)
AddMeshPeer(c, q, initiator, sid) ==
  IF ~ initiator THEN c
  ELSE Send([c EXCEPT !.hasMesh = TRUE,
                      !.mesh[q] = [Offering(sid) EXCEPT !.muted = c.mesh[q].muted]],
            [Msg("sdp", q) EXCEPT !.conf = c.confID, !.sid = sid])

(* Audio.  The encode loop gives each frame to the two-party peer and to   *)
(* every mesh peer, and a muted one sends silence; of what arrives, a      *)
(* muted peer's frames are dropped before the mixer.  The peers that carry *)
(* the user's voice, and those the user hears:                             *)
SendPCMFrame(peer) == Exists(peer) /\ ~ peer.muted
SendPCMFrameToAll(c) == {peer \in {c.mesh[q] : q \in Phones} : SendPCMFrame(peer)}
Encoded(c) == SendPCMFrameToAll(c) \cup {peer \in {c.pm} : SendPCMFrame(peer)}
RemoteTrack(c) == {peer \in {c.pm} : Exists(peer) /\ ~ peer.muted}
MeshRemoteTracks(c) == {peer \in {c.mesh[q] : q \in Phones} : Exists(peer) /\ ~ peer.muted}

-----------------------------------------------------------------------------
(* The two-party call.                                                     *)

(* Every peer and timer goes, the mesh with them; a call of the waiting    *)
(* goroutines is not taken back.                                           *)
HangupCall(c, timeout) ==
  Send([c EXCEPT !.offer = 0, !.caller = Nobody, !.callPeer = Nobody, !.isCaller = FALSE,
                 !.restarting = FALSE, !.timer = FALSE, !.debounce = FALSE,
                 !.deadline = 0, !.pm = NoPeer, !.hasMesh = FALSE, !.mesh = NoMesh],
       [Msg("hangup", c.callPeer) EXCEPT !.flag = timeout])

(* The call leaves first, the offer when the peer connection is made; if   *)
(* that fails the call is taken back.                                      *)
InitiateCall(c, number, sid) ==
  Send(Send([c EXCEPT !.callPeer = number, !.pm = Offering(sid), !.isCaller = TRUE,
                      !.link = "new", !.restarting = FALSE],
            Msg("call", number)),
       [Msg("sdp", number) EXCEPT !.sid = sid])
InitiateCallFails(c, number) ==
  Send(Send([c EXCEPT !.pm = NoPeer], Msg("call", number)), Msg("hangup", number))

\* Mutant: the answering side arms no deadline.
MutAnswerUntimed(c) ==
  IF c.offer = 0 THEN c
  ELSE Send([c EXCEPT !.callPeer = c.caller, !.pm = Accepted(c.offer), !.isCaller = FALSE,
                      !.link = "new", !.restarting = FALSE, !.offer = 0, !.caller = Nobody],
            [Msg("answer", c.caller) EXCEPT !.sid = c.offer])

AnswerCall(c) ==
  IF c.offer = 0 THEN c
  ELSE Send([c EXCEPT !.callPeer = c.caller, !.pm = Accepted(c.offer), !.isCaller = FALSE,
                      !.link = "new", !.restarting = FALSE, !.offer = 0, !.caller = Nobody,
                      !.deadline = c.offer],
            [Msg("answer", c.caller) EXCEPT !.sid = c.offer])

-----------------------------------------------------------------------------
(* ICE recovery.                                                           *)

\* Mutant: only the caller, who acts, is timed.
MutCalleeUntimed(c, offered) ==
  IF ~ Exists(c.pm) \/ c.restarting THEN c
  ELSE LET c1 == [c EXCEPT !.restarting = TRUE, !.debounce = FALSE]
       IN  IF ~ c.isCaller THEN c1
           ELSE Send([c1 EXCEPT !.pm.sig = "offering", !.link = "new", !.timer = TRUE],
                     [Msg("restart", c.callPeer) EXCEPT !.sid = c.pm.sid])

(* Caller: new credentials and a fresh offer, or a hang-up if there is     *)
(* none.  Callee: wait for the caller's.  Either way the timeout runs.     *)
EnterICERecovery(c, offered) ==
  IF ~ Exists(c.pm) \/ c.restarting THEN c
  ELSE LET c1 == [c EXCEPT !.restarting = TRUE, !.debounce = FALSE, !.timer = TRUE]
       IN  IF ~ c.isCaller THEN c1
           ELSE IF offered
             THEN Send([c1 EXCEPT !.pm.sig = "offering", !.link = "new"],
                       [Msg("restart", c.callPeer) EXCEPT !.sid = c.pm.sid])
             ELSE Spawn([c1 EXCEPT !.restarting = FALSE, !.timer = FALSE], "hangup", Nobody)

ConnStateAction(state, recovering, debouncing) ==
  CASE state = "connected" -> "clearRecovery"
    [] state = "disconnected" /\ ~ recovering /\ ~ debouncing -> "startDebounce"
    [] state = "failed" /\ ~ recovering -> "enterRecovery"
    [] OTHER -> "none"

HandleConnectionStateChange(c, state, offered) ==
  LET action == ConnStateAction(state, c.restarting, c.debounce)
      c1 == [c EXCEPT !.link = state]
  IN  CASE action = "clearRecovery" ->
             [c1 EXCEPT !.restarting = FALSE, !.debounce = FALSE, !.timer = FALSE,
                        !.deadline = 0]
        [] action = "startDebounce" -> [c1 EXCEPT !.debounce = TRUE]
        [] action = "enterRecovery" ->
             EnterICERecovery([c1 EXCEPT !.debounce = FALSE], offered)
        [] OTHER -> c1

DebounceExpires(c, offered) ==
  LET c1 == [c EXCEPT !.debounce = FALSE]
  IN  IF c.link = "connected" THEN c1 ELSE EnterICERecovery(c1, offered)

(* The timeout asks only whether a recovery is under way.                  *)
RestartTimeout(c) ==
  LET c1 == [c EXCEPT !.timer = FALSE]
  IN  IF c.restarting THEN Spawn(c1, "hangup", Nobody) ELSE c1

(* After the WebSocket has come back: an established two-party call goes   *)
(* on, anything else is torn down.                                         *)
ReconnectAction(c) ==
  IF ~ Exists(c.pm) \/ c.hasMesh \/ c.state # "CONNECTED" THEN "teardown"
  ELSE IF c.link = "connected" THEN "noop" ELSE "restart"

Reset(c) == [c EXCEPT !.state = "IDLE"]

ResumeAfterReconnect(c, offered) ==
  CASE c.state = "IDLE" -> c
    [] c.state # "IDLE" /\ ReconnectAction(c) = "noop" -> c
    [] c.state # "IDLE" /\ ReconnectAction(c) = "restart" -> EnterICERecovery(c, offered)
    [] OTHER -> Reset(HangupCall(TearDownAllMeshPeers(c), FALSE))

-----------------------------------------------------------------------------
(* The user: hook, flash, dial.                                            *)

OnHookOff(c) ==
  CASE c.state = "IDLE"    -> [c EXCEPT !.state = "DIALTONE"]
    [] c.state = "RINGING" -> AnswerCall([c EXCEPT !.state = "CONNECTED"])
    [] OTHER -> c

InConferenceFlow(c) == c.confID # 0 \/ c.state \in AddStates \cup {"CONFERENCE_MERGED"}

OnHookOn(c) ==
  IF c.state = "IDLE" THEN c
  ELSE LET c1 == [(IF InConferenceFlow(c) THEN TearDownAllMeshPeers(c) ELSE c) EXCEPT
                    !.state = "IDLE", !.held = Nobody, !.adding = Nobody,
                    !.confID = 0, !.isHost = FALSE]
       IN  IF c.state = "CONNECTED" \/ InConferenceFlow(c) THEN HangupCall(c1, FALSE) ELSE c1

EnterAddDialtone(c, active) ==
  LET c1 == [c EXCEPT !.held = active, !.state = "ADD_DIALTONE"]
  IN  IF active = Nobody THEN c1 ELSE SetPeerMuted(MigrateToMesh(c1, active), active, TRUE)

\* Mutant: the held party is forgotten muted.
MutAbortKeepsMute(c) ==
  [(IF c.adding = Nobody THEN c ELSE TearDownPeer(c, c.adding)) EXCEPT
     !.adding = Nobody, !.held = Nobody, !.state = "CONNECTED"]

(* The third party is not told.                                            *)
AbortAdd(c) ==
  LET c1 == IF c.adding = Nobody THEN c ELSE TearDownPeer(c, c.adding)
      c2 == IF c.held = Nobody THEN c1 ELSE SetPeerMuted(c1, c.held, FALSE)
  IN  [c2 EXCEPT !.adding = Nobody, !.held = Nobody, !.state = "CONNECTED"]

RequestMerge(c) ==
  LET c1 == IF c.held = Nobody THEN c ELSE SetPeerMuted(c, c.held, FALSE)
      c2 == IF c.adding = Nobody THEN c1 ELSE MigrateToMesh(c1, c.adding)
  IN  Send([c2 EXCEPT !.state = "CONFERENCE_MERGED"],
           [Msg("merge", c.held) EXCEPT !.other = c.adding])

OnHookFlash(c) ==
  IF c.confID # 0 /\ ~ c.isHost THEN c
  ELSE CASE c.state = "CONNECTED"   -> EnterAddDialtone(c, CurrentPeer(c))
         [] c.state = "ADD_PRIVATE" -> RequestMerge(c)
         [] c.state \in AddStates \ {"ADD_PRIVATE"} -> AbortAdd(c)
         [] OTHER -> c

DialThirdParty(c, number) ==
  Spawn([c EXCEPT !.adding = number, !.state = "ADD_CALLING"], "dial", number)

(* After the delay, if the add is still calling: the call is placed, or    *)
(* fails at once (unsent, or without a peer connection).                   *)
InitiateCallAfterDelay(c, number, sid, result) ==
  LET c1 == [c EXCEPT !.tasks = @ \ {[kind |-> "dial", number |-> number]}]
  IN  IF c.state # "ADD_CALLING" THEN c1
      ELSE CASE result = "sent"   -> InitiateCall(c1, number, sid)
             [] result = "unsent" -> Spawn(c1, "intercept", Nobody)
             [] result = "failed" -> Spawn(InitiateCallFails(c1, number), "intercept", Nobody)
Intercept(c) ==
  LET c1 == [c EXCEPT !.tasks = @ \ {[kind |-> "intercept", number |-> Nobody]}]
  IN  IF c.state = "ADD_CALLING" THEN [c1 EXCEPT !.state = "ADD_INTERCEPT"] ELSE c1

-----------------------------------------------------------------------------
(* Signals to the controller.  In ADD_* states only the added party's      *)
(* count; Nobody is the sender of an error and of the daemon's own hangup. *)

FromAdded(c, sender) == sender \in {Nobody, c.adding}

OnSignalRing(c) == IF c.state = "IDLE" THEN [c EXCEPT !.state = "RINGING"] ELSE c

OnSignalAnswer(c, sender) ==
  IF c.state = "ADD_CALLING" /\ FromAdded(c, sender)
    THEN [c EXCEPT !.state = "ADD_PRIVATE"] ELSE c

OnSignalHangup(c, sender, timeout) ==
  CASE c.state = "RINGING" -> [c EXCEPT !.state = "IDLE"]
    [] c.state = "CONNECTED" ->
         HangupCall([c EXCEPT !.state = IF timeout THEN "CALL_FAILED" ELSE "REMOTE_HANGUP"],
                    timeout)
    [] c.state \in {"ADD_CALLING", "ADD_PRIVATE"} /\ FromAdded(c, sender) ->
         TearDownPeer([c EXCEPT !.state = "ADD_INTERCEPT"], c.adding)
    [] OTHER -> c

(* The connect deadline of the peer it was armed for.                      *)
ConnectDeadline(c) ==
  LET c1 == [c EXCEPT !.deadline = 0]
  IN  IF c.deadline # c.pm.sid \/ c.link = "connected" THEN c1
      ELSE OnSignalHangup(c1, c.callPeer, TRUE)

(* Busy and error: the added party goes, the held one waits for a flash.   *)
OnSignalRefused(c, sender) ==
  IF c.state = "ADD_CALLING" /\ FromAdded(c, sender)
    THEN TearDownPeer([c EXCEPT !.state = "ADD_INTERCEPT"], c.adding) ELSE c

HandleConferenceMember(c, me, conf, host) ==
  [c EXCEPT !.confID = conf, !.isHost = (me = host)]

HandleConferenceConnect(c, conf, q, initiator, sid) ==
  IF c.confID # conf THEN c ELSE AddMeshPeer(c, q, initiator, sid)

HandleConferenceLeave(c, conf, q) ==
  IF c.confID = 0 \/ c.confID # conf THEN c ELSE RemoveMeshPeer(c, q)

(* A phone whose state is CONNECTED goes to IDLE, lifted or not.           *)
HandleConferenceEnd(c, conf) ==
  IF c.confID = 0 \/ c.confID # conf THEN c
  ELSE [HangupCall(TearDownAllMeshPeers(c), FALSE) EXCEPT
          !.confID = 0, !.isHost = FALSE, !.held = Nobody, !.adding = Nobody,
          !.state = IF c.state \in AddStates \cup {"CONFERENCE_MERGED"}
                      THEN "REMOTE_HANGUP" ELSE "IDLE"]

HandleConferenceRejected(c) ==
  IF c.state # "CONFERENCE_MERGED" THEN c
  ELSE LET c1 == IF c.adding = Nobody THEN c ELSE TearDownPeer(c, c.adding)
           c2 == IF c.held = Nobody THEN c1 ELSE SetPeerMuted(c1, c.held, FALSE)
       IN  [c2 EXCEPT !.adding = Nobody, !.held = Nobody, !.state = "CONNECTED",
                      !.confID = 0, !.isHost = FALSE]

-----------------------------------------------------------------------------
(* handleSignal.                                                           *)

(* With a mesh peer for the sender it is an answer, otherwise an offer.    *)
ConferenceSDP(c, m) ==
  IF c.hasMesh /\ Exists(c.mesh[m.peer])
    THEN [c EXCEPT !.mesh[m.peer] = SetAnswer(@, m.sid)]
    ELSE Send([c EXCEPT !.hasMesh = TRUE, !.mesh[m.peer] = Accepted(m.sid)], m)

(* Without a peer it is the offer of a call to come; with one, the answer  *)
(* of a restart, or nothing.                                               *)
CallSDP(c, m) ==
  CASE ~ Exists(c.pm) ->
         [c EXCEPT !.offer = m.sid, !.caller = IF @ = Nobody THEN m.peer ELSE @]
    [] Exists(c.pm) /\ c.restarting ->
         [c EXCEPT !.pm = SetAnswer(@, m.sid)]
    [] OTHER -> c

(* The offer is answered whichever peer is current, and the timeout runs   *)
(* from here.                                                              *)
ICERestart(c, m) ==
  IF ~ Exists(c.pm) \/ c.pm.sig = "offering" THEN c
  ELSE Send([c EXCEPT !.pm.sig = "stable", !.pm.sid = m.sid, !.link = "new",
                      !.restarting = TRUE, !.timer = TRUE],
            [Msg("sdp", IF c.callPeer = Nobody THEN m.peer ELSE c.callPeer)
               EXCEPT !.sid = m.sid])

Answer(c, m) ==
  OnSignalAnswer(IF Exists(c.pm) THEN [c EXCEPT !.pm = SetAnswer(@, m.sid), !.deadline = c.pm.sid]
                                 ELSE c, m.peer)

HandleSignal(c, me, m, sid) ==
  CASE m.type = "ring"     -> OnSignalRing([c EXCEPT !.caller = m.peer])
    [] m.type = "answer"   -> Answer(c, m)
    [] m.type = "hangup"   -> OnSignalHangup(c, m.peer, m.flag)
    [] m.type \in {"busy", "error"} -> OnSignalRefused(c, m.peer)
    [] m.type = "sdp"      -> IF m.conf # 0 THEN ConferenceSDP(c, m) ELSE CallSDP(c, m)
    [] m.type = "restart"  -> ICERestart(c, m)
    [] m.type = "member"   -> HandleConferenceMember(c, me, m.conf, m.peer)
    [] m.type = "connect"  -> HandleConferenceConnect(c, m.conf, m.peer, m.flag, sid)
    [] m.type = "leave"    -> HandleConferenceLeave(c, m.conf, m.peer)
    [] m.type = "end"      -> HandleConferenceEnd(c, m.conf)
    [] m.type = "rejected" -> HandleConferenceRejected(c)
=============================================================================
