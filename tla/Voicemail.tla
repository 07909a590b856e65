----------------------------- MODULE Voicemail -----------------------------
(***************************************************************************)
(* The answering machine of a phone: the controller's voicemail states     *)
(* (internal/phone/controller.go), the daemon's recorder, greeting and     *)
(* playback (cmd/digitsd/voicemail.go), the message store (MessageStore)   *)
(* and the count of unheard messages at the server.                        *)
(*                                                                         *)
(* Handlers hold the controller's lock and are operators from daemon state *)
(* to daemon state.  Everything that sleeps, speaks or waits is a          *)
(* goroutine: a task, named for what it does next, that takes the locks it *)
(* needs when it gets there.  ringTimeoutGen is kept as the set of tasks   *)
(* that still carry its current value; a session pointer as the loop being *)
(* current ("loop") or not ("oldloop").                                    *)
(*                                                                         *)
(* Left out: outgoing calls and call return, tones, the LED, the audio     *)
(* itself; the wire to the Pico and signaling messages are instantaneous   *)
(* (Handset has them).                                                     *)
(***************************************************************************)
EXTENDS MessageStore

CONSTANTS
  MaxFrames,       \* messageMaxDuration, in frames
  MaxSteps,        \* bound: hook movements, keys, calls, lost connections,
                   \* restarts and failures, together
  MaxCalls,        \* bound: incoming calls
  MaxFaults        \* bound: failures of disk and peer

\* Two recordings are those the disk may hold already.
ASSUME VoicemailAssumption ==
  /\ MaxRecordings >= 2
  /\ MaxFrames \in Nat \ {0}
  /\ MaxSteps \in Nat /\ MaxCalls \in Nat \ {0} /\ MaxFaults \in Nat

VARIABLES
  d,               \* the daemon and its disk
  hook,            \* the handset: on the hook or off it
  far,             \* the caller on the line, 0 for none
  ws,              \* connected to the server
  badge,           \* the unheard count the server shows, -1 for none
  used             \* what is spent of the bounds

vars == <<d, hook, far, ws, badge, used>>

States == {"IDLE", "RINGING", "DIALTONE", "DIALING", "CONNECTED", "REMOTE_HANGUP",
           "VM_GREETING", "VM_RECORDING", "VM_PLAYBACK", "VM_PLAY_GREETING", "VM_RECORD_GREETING"}

Callers == 0 .. MaxCalls

Task(k, a) == [k |-> k, a |-> a]
Tasks == [k : {"watch", "answer", "revert", "wait", "greet", "mute", "ended", "hangup",
               "loop", "oldloop", "saved", "exit", "record", "finish", "audition", "erase",
               "7", "9", "#", "*", "reset", "publish"},
          a : Callers]

NoSession == [id |-> 0, saved |-> FALSE, on |-> FALSE]

(* state; pendingOffer and callPeer by their call; recorder, its frames,   *)
(* voicemailRecordArmed, the muted microphone, voicemailWebRTCCh and       *)
(* whether it feeds the earpiece; the greeting recorder's frames, -1 for   *)
(* no recorder; voicemailPlayback, the saved messages still to review, the *)
(* mixer source; publishVMLast; recordings begun; goroutines; whether the  *)
(* step sends a hangup.                                                    *)
Daemon ==
  [st : States, offer : Callers, peer : Callers, rec : 0 .. MaxRecordings, frames : 0 .. MaxFrames,
   armed : BOOLEAN, muted : BOOLEAN, chan : BOOLEAN, bridged : BOOLEAN, grec : -1 .. 1,
   sess : [id : 0 .. MaxRecordings, saved : BOOLEAN, on : BOOLEAN], queue : SUBSET Ids, mixer : BOOLEAN,
   last : -1 .. MaxRecordings, begun : 0 .. MaxRecordings, tasks : SUBSET Tasks, sent : BOOLEAN,
   disk : Disk]

Spawn(c, k)   == [c EXCEPT !.tasks = @ \cup {Task(k, 0)}]
Without(c, t) == [c EXCEPT !.tasks = @ \ {t}]

UnheardCount(c) == Cardinality(Unheard(c.disk))

-----------------------------------------------------------------------------
(* The recorder and the call.                                              *)

(* ringTimeoutGen++: a watcher that sleeps will give up, one that is       *)
(* answering will not revert.                                              *)
Bump(c) ==
  [c EXCEPT !.tasks = {IF t.k \in {"answer", "revert"} THEN Task(t.k, 0) ELSE t :
                         t \in {u \in @ : u.k # "watch"}}]

finalizeRecorder(c, outcome) ==
  [c EXCEPT !.disk = IF c.rec = 0 THEN @ ELSE Finalize(@, c.rec, c.frames, outcome),
            !.rec = 0, !.frames = 0]

(* Mutant: nobody is told of the message.                                  *)
MutUnpublished(c, outcome) == finalizeRecorder(c, outcome)

(* ... and the new count is published when that made a message.            *)
finalizeAndPublish(c, outcome) ==
  LET f == finalizeRecorder(c, outcome)
  IN  IF c.rec # 0 /\ Stored(c.frames, outcome) THEN Spawn(f, "publish") ELSE f

finalizeGreeting(c, outcome) ==
  [c EXCEPT !.disk.greeting = c.disk.greeting \/ (c.grec > 0 /\ outcome # "lost"), !.grec = -1]

(* Mutant: only the greeting is finished.                                  *)
MutForgetsRecorder(c, outcome) ==
  [finalizeGreeting(c, outcome) EXCEPT
     !.offer = 0, !.peer = 0, !.chan = FALSE, !.bridged = FALSE, !.muted = FALSE, !.sent = TRUE]

(* Both recordings are finished, the call's state is cleared, and a hangup *)
(* is sent.  The pipeline goes too, and with it the muting.                *)
HangupCall(c, outcome) ==
  [finalizeGreeting(finalizeAndPublish(c, outcome), outcome) EXCEPT
     !.offer = 0, !.peer = 0, !.chan = FALSE, !.bridged = FALSE, !.muted = FALSE, !.sent = TRUE]

abortVoicemailLocked(c, outcome) == HangupCall([c EXCEPT !.st = "IDLE"], outcome)

Reset(c) == Bump([c EXCEPT !.st = "IDLE"])

ResetToDialtone(c) == [c EXCEPT !.st = "DIALTONE"]

AnswerCall(c) ==
  IF c.offer = 0 THEN c ELSE [c EXCEPT !.peer = c.offer, !.offer = 0, !.bridged = TRUE]

(* What was said so far is a message.  Without a peer, or with nothing     *)
(* decoded for it yet, there is nobody to bridge to.                       *)
VoicemailPickup(c, outcome) ==
  LET f == finalizeAndPublish(c, outcome)
  IN  IF f.peer = 0 \/ ~ f.chan THEN f
      ELSE [f EXCEPT !.chan = FALSE, !.bridged = TRUE, !.muted = FALSE]

-----------------------------------------------------------------------------
(* Playback.                                                               *)

(* Whoever held the session before, its loop is no longer current.         *)
Retire(c) == [c EXCEPT !.tasks = {IF t.k = "loop" THEN Task("oldloop", 0) ELSE t : t \in @}]

teardownPlayback(c) == [Retire(c) EXCEPT !.sess = NoSession]

newPlaybackSession(c, id, saved) ==
  Spawn([Retire(c) EXCEPT !.sess = [id |-> id, saved |-> saved, on |-> FALSE]], "loop")

openNextUnheard(c, after) ==
  LET S == {id \in Unheard(c.disk) : id > after}
  IN  IF S = {} THEN c ELSE newPlaybackSession(c, Min(S), FALSE)

(* Oldest first; messages deleted since the snapshot are skipped.          *)
openNextSaved(c) ==
  LET kept == c.queue \cap c.disk.frames
  IN  IF kept = {} THEN [c EXCEPT !.queue = {}]
      ELSE newPlaybackSession([c EXCEPT !.queue = kept \ {Min(kept)}], Min(kept), TRUE)

(* No further message: the saved ones follow the new ones, and then the    *)
(* way out.                                                                *)
Advance(c, wasSaved) ==
  CASE c.sess # NoSession -> c
    [] c.sess = NoSession /\ ~ wasSaved /\ c.queue # {} -> Spawn(c, "saved")
    [] c.sess = NoSession /\ (wasSaved \/ c.queue = {}) -> Spawn([c EXCEPT !.mixer = FALSE], "exit")

(* The heard messages are noted for review before any other becomes heard. *)
VoicemailEnterPlayback(c, listed) ==
  LET entered == [c EXCEPT !.mixer = TRUE, !.queue = c.disk.frames \ Unheard(c.disk)]
  IN  CASE c.peer # 0 -> Spawn(c, "exit")
        [] c.peer = 0 /\ ~ listed -> Spawn([c EXCEPT !.mixer = FALSE, !.queue = {}], "exit")
        [] c.peer = 0 /\ listed ->
             IF Unheard(c.disk) # {} THEN openNextUnheard(entered, 0) ELSE Advance(entered, FALSE)

VoicemailExitPlayback(c) == [teardownPlayback(c) EXCEPT !.mixer = FALSE, !.queue = {}]

(* 7 deletes, 9 saves, # skips and * repeats.                              *)
VoicemailKey(c, digit) ==
  LET id      == c.sess.id
      saved   == c.sess.saved
      torn    == teardownPlayback(c)
      changed == CASE digit = "7" -> Spawn([torn EXCEPT !.disk = removeMessageLocked(@, {id})], "publish")
                   [] digit = "9" /\ ~ saved -> Spawn([torn EXCEPT !.disk = MarkHeard(@, id)], "publish")
                   [] digit \in {"#", "*"} \/ (digit = "9" /\ saved) -> torn
      opened  == CASE saved -> openNextSaved(changed)
                   [] ~ saved -> openNextUnheard(changed, IF digit = "#" THEN id ELSE 0)
  IN  IF c.sess = NoSession THEN c
      ELSE CASE digit = "*" /\ id \in c.disk.frames -> newPlaybackSession(torn, id, saved)
             [] digit = "*" /\ id \notin c.disk.frames -> Spawn([torn EXCEPT !.mixer = FALSE], "exit")
             [] digit # "*" -> Advance(opened, saved)

(* A new message that was played to its end is heard.                      *)
voicemailAdvanceFromEOF(c) ==
  LET torn == teardownPlayback(c)
      mark == Spawn([torn EXCEPT !.disk = MarkHeard(@, c.sess.id)], "publish")
  IN  IF c.sess.saved THEN Advance(openNextSaved(torn), TRUE)
      ELSE Advance(openNextUnheard(mark, 0), FALSE)

(* A loop that finds no mixer source leaves playback, whoever removed it;  *)
(* one whose session is over ends.                                         *)
voicemailPlaybackLoop(c, current) ==
  CASE ~ c.mixer -> Spawn(IF current THEN teardownPlayback(c) ELSE c, "exit")
    [] c.mixer /\ current   -> [c EXCEPT !.sess.on = TRUE]
    [] c.mixer /\ ~ current -> c

transitionToSavedPhase(c) == Advance(openNextSaved(c), TRUE)

-----------------------------------------------------------------------------
(* The controller's handlers.                                              *)

onHookOff(c, outcome) ==
  CASE c.st = "IDLE"    -> [c EXCEPT !.st = "DIALTONE"]
    [] c.st = "RINGING" -> AnswerCall(Bump([c EXCEPT !.st = "CONNECTED"]))
    [] c.st \in {"VM_GREETING", "VM_RECORDING"} -> VoicemailPickup([c EXCEPT !.st = "CONNECTED"], outcome)
    [] c.st \notin {"IDLE", "RINGING", "VM_GREETING", "VM_RECORDING"} -> c

onHookOn(c, outcome) ==
  LET r == [c EXCEPT !.st = "IDLE"]
  IN  CASE c.st \in {"CONNECTED", "VM_GREETING", "VM_RECORDING", "VM_RECORD_GREETING"} -> HangupCall(r, outcome)
        [] c.st = "VM_PLAYBACK" -> VoicemailExitPlayback(r)
        [] c.st \in {"IDLE", "RINGING", "DIALTONE", "DIALING", "REMOTE_HANGUP", "VM_PLAY_GREETING"} -> r

(* The first key leaves the dial tone; *98, *97, *96 and *99 are codes.    *)
onKey(c, key, listed) ==
  CASE c.st = "DIALTONE" -> [c EXCEPT !.st = "DIALING"]
    [] c.st = "DIALING" /\ key = "*98" -> VoicemailEnterPlayback([c EXCEPT !.st = "VM_PLAYBACK"], listed)
    [] c.st = "DIALING" /\ key = "*97" -> Spawn([c EXCEPT !.st = "VM_RECORD_GREETING"], "record")
    [] c.st = "DIALING" /\ key = "*96" -> Spawn([c EXCEPT !.st = "VM_PLAY_GREETING"], "audition")
    [] c.st = "DIALING" /\ key = "*99" -> Spawn([c EXCEPT !.st = "DIALTONE"], "erase")
    [] c.st = "VM_PLAYBACK"            -> Spawn(c, key)
    [] c.st = "VM_RECORD_GREETING"     -> IF key = "#" THEN Spawn(c, "finish") ELSE c

onSignalRing(c, call) ==
  IF c.st # "IDLE" THEN c
  ELSE LET r == Bump([c EXCEPT !.st = "RINGING"])
       IN  [r EXCEPT !.tasks = @ \cup {Task("watch", call)}]

onSignalHangup(c, outcome) ==
  CASE c.st = "RINGING"   -> Bump([c EXCEPT !.st = "IDLE"])
    [] c.st \in {"VM_GREETING", "VM_RECORDING"} -> abortVoicemailLocked(c, outcome)
    [] c.st = "CONNECTED" -> HangupCall([c EXCEPT !.st = "REMOTE_HANGUP"], outcome)
    [] c.st \notin {"RINGING", "VM_GREETING", "VM_RECORDING", "CONNECTED"} -> c

-----------------------------------------------------------------------------
(* The environment.                                                        *)

Init ==
  /\ \E frames \in {{}, {1, 2}}, heard \in SUBSET {1} :
       LET disk == [EmptyDisk EXCEPT !.frames = frames,
                      !.meta = [id \in Ids |-> IF id \notin frames THEN "none"
                                               ELSE IF id \in heard THEN "heard" ELSE "unheard"]]
           n    == Cardinality(Unheard(disk))
       IN  /\ d = [st |-> "IDLE", offer |-> 0, peer |-> 0, rec |-> 0, frames |-> 0, armed |-> FALSE,
                   muted |-> FALSE, chan |-> FALSE, bridged |-> FALSE, grec |-> -1, sess |-> NoSession,
                   queue |-> {}, mixer |-> FALSE, last |-> n, begun |-> 2, tasks |-> {},
                   sent |-> FALSE, disk |-> disk]
           /\ badge = n
  /\ hook = "on"
  /\ far = 0
  /\ ws = TRUE
  /\ used = [moves |-> 0, calls |-> 0, faults |-> 0]

(* A step of the daemon; a hangup it sends ends the call at the server.    *)
Do(c) ==
  /\ d' = [c EXCEPT !.sent = FALSE]
  /\ far' = IF c.sent /\ ws THEN 0 ELSE far

(* What a recording that is finished comes to.                             *)
Outcome(o) ==
  /\ o \in {"ok", "lost", "bare", "kept"}
  /\ o # "ok" => d.frames > 0 \/ d.grec > 0

Charge(o, moves) ==
  LET faults == IF o = "ok" THEN 0 ELSE 1
  IN  /\ used.faults + faults <= MaxFaults
      /\ used.moves + moves + faults <= MaxSteps
      /\ used' = [used EXCEPT !.moves = @ + moves + faults, !.faults = @ + faults]

HookOff(o) ==
  /\ hook = "on"
  /\ Outcome(o)
  /\ Charge(o, 1)
  /\ hook' = "off"
  /\ Do(onHookOff(d, o))
  /\ UNCHANGED <<ws, badge>>

HookOn(o) ==
  /\ hook = "off"
  /\ Outcome(o)
  /\ Charge(o, 1)
  /\ hook' = "on"
  /\ Do(onHookOn(d, o))
  /\ UNCHANGED <<ws, badge>>

Key(key, o) ==
  /\ hook = "off"
  /\ o \in {"ok", "failed"}
  /\ o = "failed" => d.st = "DIALING" /\ key = "*98"
  /\ key \in CASE d.st = "DIALTONE" -> {"*"}
               [] d.st = "DIALING" -> {"*96", "*97", "*98", "*99"}
               [] d.st = "VM_PLAYBACK" -> {"7", "9", "#", "*"}
               [] d.st = "VM_RECORD_GREETING" -> {"#"}
               [] d.st \notin {"DIALTONE", "DIALING", "VM_PLAYBACK", "VM_RECORD_GREETING"} -> {}
  /\ Charge(o, 1)
  /\ Do(onKey(d, key, o = "ok"))
  /\ UNCHANGED <<hook, ws, badge>>

(* A call comes in: the ring, and then the offer, which is kept unless a   *)
(* call has its peer.                                                      *)
Ring ==
  /\ ws
  /\ far = 0
  /\ used.calls < MaxCalls
  /\ used.moves < MaxSteps
  /\ used' = [used EXCEPT !.moves = @ + 1, !.calls = @ + 1]
  /\ far' = used.calls + 1
  /\ d' = onSignalRing(d, used.calls + 1)
  /\ UNCHANGED <<hook, ws, badge>>

Offer ==
  /\ ws
  /\ far # 0
  /\ d.peer = 0
  /\ d.offer # far
  /\ d' = [d EXCEPT !.offer = far]
  /\ UNCHANGED <<hook, far, ws, badge, used>>

(* A hangup for a phone that is not connected is lost.                     *)
CallerHangsUp(o) ==
  /\ far # 0
  /\ Outcome(o)
  /\ Charge(o, 0)
  /\ far' = 0
  /\ d' = IF ws THEN [onSignalHangup(d, o) EXCEPT !.sent = FALSE] ELSE d
  /\ UNCHANGED <<hook, ws, badge>>

(* The server forgets the count with the connection.                       *)
Drop ==
  /\ ws
  /\ used.moves < MaxSteps
  /\ ~ \E t \in d.tasks : t.k = "reset"
  /\ used' = [used EXCEPT !.moves = @ + 1]
  /\ ws' = FALSE
  /\ badge' = -1
  /\ UNCHANGED <<d, hook, far>>

(* A call with a peer goes on; anything else but an idle phone is torn     *)
(* down and then reset.  The count is published if it changed.             *)
Reconnect(o) ==
  /\ ~ ws
  /\ Outcome(o)
  /\ Charge(o, 0)
  /\ ws' = TRUE
  /\ LET torn == d.st # "IDLE" /\ ~ (d.st = "CONNECTED" /\ d.peer # 0)
     IN  /\ d' = IF torn THEN [Spawn(HangupCall(d, o), "reset") EXCEPT !.sent = FALSE] ELSE Spawn(d, "publish")
         /\ far' = IF torn THEN 0 ELSE far
  /\ UNCHANGED <<hook, badge>>

(* The daemon dies and starts again: unfinished recordings are swept away, *)
(* or were just being renamed.  The server ends its call.                  *)
Crash(o) ==
  /\ used.moves < MaxSteps
  /\ o \in {"lost", "bare", "kept"}
  /\ d.frames = 0 /\ d.grec <= 0 => o = "lost"
  /\ used' = [used EXCEPT !.moves = @ + 1]
  /\ LET c == finalizeGreeting(finalizeRecorder(d, o), o)
     IN  /\ d' = [c EXCEPT !.st = "IDLE", !.offer = 0, !.peer = 0, !.armed = FALSE, !.muted = FALSE,
                           !.chan = FALSE, !.bridged = FALSE, !.sess = NoSession, !.queue = {},
                           !.mixer = FALSE, !.tasks = {}, !.last = UnheardCount(c)]
         /\ badge' = UnheardCount(c)
  /\ far' = 0
  /\ ws' = TRUE
  /\ UNCHANGED hook

-----------------------------------------------------------------------------
(* Goroutines.                                                             *)

(* Goroutines that only have to get a lock; the ring timeout, some tens of *)
(* seconds, does not pass while one does.                                  *)
Prompt == {"answer", "revert", "mute", "hangup", "reset"}

(* The ring timed out: the state changes under the lock, the call is       *)
(* answered without it.                                                    *)
ringTimeoutWatcher(t) ==
  /\ t.k = "watch"
  /\ \A u \in d.tasks : u.k \notin Prompt
  /\ d' = IF d.st # "RINGING" THEN Without(d, t)
          ELSE [Without(d, t) EXCEPT !.st = "VM_GREETING", !.tasks = @ \cup {Task("answer", 1)}]
  /\ UNCHANGED <<hook, far, ws, badge, used>>

(* The prepared peer is promoted, decoded sound kept from the earpiece,    *)
(* the recorder disarmed, a recording begun and the pipeline started.      *)
VoicemailAutoAnswer(t, o) ==
  /\ t.k = "answer"
  /\ o = "ok" \/ (o \in {"noPeer", "noRecorder", "noPipeline"} /\ d.offer # 0)
  /\ o \in {"ok", "noPipeline"} => d.offer = 0 \/ d.begun < MaxRecordings
  /\ Charge(o, 0)
  /\ LET c    == Without(d, t)
         live == [c EXCEPT !.peer = d.offer, !.offer = 0, !.chan = TRUE, !.armed = FALSE]
         next == IF o = "ok" THEN Task("wait", d.offer) ELSE Task("revert", t.a)
     IN  d' = CASE d.offer = 0 \/ o = "noPeer" -> [c EXCEPT !.tasks = @ \cup {Task("revert", t.a)}]
                [] d.offer # 0 /\ o = "noRecorder" -> [live EXCEPT !.tasks = @ \cup {next}]
                [] d.offer # 0 /\ o \in {"ok", "noPipeline"} ->
                     [live EXCEPT !.rec = d.begun + 1, !.begun = @ + 1, !.frames = 0,
                                  !.tasks = @ \cup {next}]
  /\ UNCHANGED <<hook, far, ws, badge>>

(* The call did not go live, and its ring is still the last one.           *)
revert(t, o) ==
  /\ t.k = "revert"
  /\ Outcome(o)
  /\ Charge(o, 0)
  /\ Do(IF d.st = "VM_GREETING" /\ t.a = 1 THEN abortVoicemailLocked(Without(d, t), o) ELSE Without(d, t))
  /\ UNCHANGED <<hook, ws, badge>>

(* The peer connects and the greeting plays, or the greeting is abandoned. *)
waitForPeerConnected(t, connected, o) ==
  /\ t.k = "wait"
  /\ connected => d.peer = t.a
  /\ Outcome(o)
  /\ Charge(o, 0)
  /\ LET c == Without(d, t)
     IN  Do(CASE connected -> [c EXCEPT !.tasks = @ \cup {Task("greet", t.a)}]
              [] ~ connected /\ d.st = "VM_GREETING" -> abortVoicemailLocked(c, o)
              [] ~ connected /\ d.st # "VM_GREETING" -> c)
  /\ UNCHANGED <<hook, ws, badge>>

(* After the beep the state is looked at ...                               *)
playVoicemailGreeting(t) ==
  /\ t.k = "greet"
  /\ d' = IF d.st = "VM_GREETING" THEN [Without(d, t) EXCEPT !.tasks = @ \cup {Task("mute", t.a)}]
          ELSE Without(d, t)
  /\ UNCHANGED <<hook, far, ws, badge, used>>

(* ... and then the call's microphone muted, the recorder armed and the    *)
(* state changed, if it is still the greeting's.                           *)
SetVoicemailRecording(t) ==
  /\ t.k = "mute"
  /\ d' = [Without(d, t) EXCEPT !.muted = @ \/ d.peer = t.a, !.armed = TRUE,
                                !.st = IF @ = "VM_GREETING" THEN "VM_RECORDING" ELSE @]
  /\ UNCHANGED <<hook, far, ws, badge, used>>

(* A frame of the caller's; at the cap the recording is finished.          *)
AppendFrame(o) ==
  /\ far # 0 /\ d.peer = far /\ d.rec # 0 /\ d.armed
  /\ o \in {"ok", "lost", "bare", "kept"}
  /\ o # "ok" => d.frames + 1 = MaxFrames
  /\ Charge(o, 0)
  /\ LET more == [d EXCEPT !.frames = @ + 1]
     IN  d' = IF more.frames < MaxFrames THEN more
              ELSE Spawn(finalizeRecorder(more, o), "ended")
  /\ UNCHANGED <<hook, far, ws, badge>>

(* The controller is reset and the call torn down.                         *)
VoicemailRecordEnded(t) ==
  /\ t.k = "ended"
  /\ d' = Spawn(Reset(Without(d, t)), "hangup")
  /\ UNCHANGED <<hook, far, ws, badge, used>>

recordEndedHangup(t, o) ==
  /\ t.k = "hangup"
  /\ Outcome(o)
  /\ Charge(o, 0)
  /\ Do(Spawn(HangupCall(Without(d, t), o), "publish"))
  /\ UNCHANGED <<hook, ws, badge>>

(* Playback: the loop gets its mixer source, a message ends, the saved     *)
(* messages are announced, a key is handled, the way out.                  *)
PlaybackStep(t) ==
  /\ d' = LET c == Without(d, t)
          IN  CASE t.k = "loop"    -> voicemailPlaybackLoop(c, TRUE)
                [] t.k = "oldloop" -> voicemailPlaybackLoop(c, FALSE)
                [] t.k = "saved"   -> transitionToSavedPhase(c)
                [] t.k \in {"7", "9", "#", "*"} -> VoicemailKey(c, t.k)
                [] t.k = "exit"    -> ResetToDialtone(c)
  /\ UNCHANGED <<hook, far, ws, badge, used>>

EndOfMessage ==
  /\ d.sess.on
  /\ d' = voicemailAdvanceFromEOF(d)
  /\ UNCHANGED <<hook, far, ws, badge, used>>

(* The greeting: recorder opened, frames, finished; auditioned; deleted.   *)
VoicemailRecordGreeting(t, o) ==
  /\ t.k = "record"
  /\ o \in {"ok", "failed"}
  /\ Charge(o, 0)
  /\ d' = IF o = "ok" THEN [Without(d, t) EXCEPT !.grec = 0] ELSE ResetToDialtone(Without(d, t))
  /\ UNCHANGED <<hook, far, ws, badge>>

(* A frame of the microphone's; at the cap the recording is finished.      *)
GreetingFrame(atCap) ==
  /\ d.grec >= 0
  /\ atCap \/ d.grec = 0
  /\ d' = IF atCap THEN Spawn([d EXCEPT !.grec = 1], "finish") ELSE [d EXCEPT !.grec = 1]
  /\ UNCHANGED <<hook, far, ws, badge, used>>

finalizeGreetingRecording(t, o) ==
  /\ t.k = "finish"
  /\ o \in {"ok", "lost"}
  /\ o # "ok" => d.grec > 0
  /\ Charge(o, 0)
  /\ d' = IF d.grec = -1 THEN Without(d, t) ELSE Spawn(finalizeGreeting(Without(d, t), o), "exit")
  /\ UNCHANGED <<hook, far, ws, badge>>

FinishGreetingAudition(t) ==
  /\ t.k = "audition"
  /\ d' = IF d.st = "VM_PLAY_GREETING" THEN ResetToDialtone(Without(d, t)) ELSE Without(d, t)
  /\ UNCHANGED <<hook, far, ws, badge, used>>

VoicemailDeleteGreeting(t) ==
  /\ t.k = "erase"
  /\ d' = [Without(d, t) EXCEPT !.disk.greeting = FALSE]
  /\ UNCHANGED <<hook, far, ws, badge, used>>

reconnectReset(t) ==
  /\ t.k = "reset"
  /\ d' = Spawn(Reset(Without(d, t)), "publish")
  /\ UNCHANGED <<hook, far, ws, badge, used>>

(* A count that was sent already is not sent again; one that could not be  *)
(* sent is not noted.                                                      *)
publishVoicemailState(t) ==
  LET n == UnheardCount(d)
  IN  /\ t.k = "publish"
      /\ d' = [Without(d, t) EXCEPT !.last = IF ws THEN n ELSE @]
      /\ badge' = IF ws /\ n # d.last THEN n ELSE badge
      /\ UNCHANGED <<hook, far, ws, used>>

TaskStep ==
  \/ \E t \in d.tasks :
       \/ ringTimeoutWatcher(t)
       \/ \E o \in {"ok", "noPeer", "noRecorder", "noPipeline"} : VoicemailAutoAnswer(t, o)
       \/ playVoicemailGreeting(t)
       \/ SetVoicemailRecording(t)
       \/ VoicemailRecordEnded(t)
       \/ t.k \in {"loop", "oldloop", "saved", "7", "9", "#", "*", "exit"} /\ PlaybackStep(t)
       \/ FinishGreetingAudition(t)
       \/ VoicemailDeleteGreeting(t)
       \/ reconnectReset(t)
       \/ publishVoicemailState(t)
       \/ \E o \in {"ok", "failed"} : VoicemailRecordGreeting(t, o)
       \/ \E o \in {"ok", "lost", "bare", "kept"} :
            \/ revert(t, o)
            \/ \E connected \in BOOLEAN : waitForPeerConnected(t, connected, o)
            \/ recordEndedHangup(t, o)
            \/ finalizeGreetingRecording(t, o)
  \/ EndOfMessage

Environment ==
  \/ \E o \in {"ok", "lost", "bare", "kept"} :
       HookOff(o) \/ HookOn(o) \/ CallerHangsUp(o) \/ Reconnect(o) \/ Crash(o) \/ AppendFrame(o)
  \/ \E key \in {"*", "#", "7", "9", "*96", "*97", "*98", "*99"}, o \in {"ok", "failed"} : Key(key, o)
  \/ Ring
  \/ Offer
  \/ Drop
  \/ \E atCap \in BOOLEAN : GreetingFrame(atCap)

Next == TaskStep \/ Environment

Spec == Init /\ [][Next]_vars

-----------------------------------------------------------------------------
(* Properties.                                                             *)

TypeOK ==
  /\ d \in Daemon
  /\ hook \in {"on", "off"}
  /\ far \in Callers
  /\ ws \in BOOLEAN
  /\ badge \in -1 .. MaxRecordings
  /\ used \in [moves : 0 .. MaxSteps, calls : 0 .. MaxCalls, faults : 0 .. MaxFaults]

(* The messages as the mailbox of the abstract specification.              *)
mailbox ==
  LET k == d.disk
  IN  [id \in Ids |-> IF id \in k.frames THEN (IF Heard(k, id) THEN "heard" ELSE "unheard")
                      ELSE IF id = d.rec \/ id > d.begun THEN "none" ELSE "gone"]

M == INSTANCE Mailbox WITH Ids <- Ids, MaxMessages <- MaxMessages, box <- mailbox

(* Through recordings, playback, hang-ups, failing disks and restarts the  *)
(* store is a mailbox: a message that was stored stays unheard until it is *)
(* heard, heard until it is deleted, and goes before its time only as the  *)
(* oldest of a full mailbox (evictLocked, Finalize, MarkHeard).            *)
StoreIsAMailbox == M!Spec

(* A recorder is open only in a call that has its peer, and then no other  *)
(* call is prepared: however the call ends, its recording is finished, and *)
(* none is replaced unfinished by that of the next caller (HangupCall,     *)
(* VoicemailPickup, VoicemailAutoAnswer).                                  *)
OneRecorder == d.rec # 0 => d.peer # 0 /\ d.offer = 0

Quiet == d.tasks = {} /\ ~ d.sess.on

(* Once the phone is quiet and connected, the server never shows an old    *)
(* number of unheard messages: every way a message comes, is heard or goes *)
(* publishes, and a publish lost with the connection is made up for        *)
(* (publishVoicemailState).  It may show none; BadgeIsSeeded is about that.*)
BadgeIsNotStale == ws /\ Quiet /\ used.faults = 0 => badge \in {-1, UnheardCount(d)}

(* LineVoicemailUnheard: a count that is not known counts as none.         *)
Shown == IF badge = -1 THEN 0 ELSE badge

(* The comments say that the count is sent again on every new connection,  *)
(* changed or not, to seed the server, which forgot it with the old one    *)
(* and shows no messages until then (removeLocked).                        *)
(* reconnectLoop publishes it only if it changed.                          *)
BadgeIsSeeded == ws /\ Quiet /\ used.faults = 0 => Shown = UnheardCount(d)

=============================================================================
