------------------------------ MODULE Recovery ------------------------------
(***************************************************************************)
(* How a handset boots, falls back to recovery and comes out of it: the    *)
(* initramfs hook boot-check.sh, the choice between the station and the    *)
(* setup access point (digits-ap-check), the start of digitsd in its       *)
(* normal, setup and recovery modes, the service codes that reboot the     *)
(* phone, the Wi-Fi set-up portal and the recovery menu with its factory   *)
(* reset.                                                                  *)
(*                                                                         *)
(* What survives a power cut is the data partition (the boot counter and   *)
(* the flags the hook reads, the Wi-Fi back-up and the device token), the  *)
(* root file system and the phase byte of the Pico.  Everything else is    *)
(* memory: mode says what runs on the Pi, rec is the recovery session and  *)
(* portal the set-up portal.  The power may be cut at every step.          *)
(***************************************************************************)
EXTENDS Naturals, ConfigFile

CONSTANTS
  MaxCuts,       \* how often the power is cut while something runs
  MaxFaults,     \* how many reads, writes, commands and partitions fail
  MaxActs        \* how many requests the user makes

ASSUME BoundsAssumption ==
  MaxCuts \in Nat /\ MaxFaults \in Nat /\ MaxActs \in Nat

VARIABLES
  data,     \* the data partition: does it mount, its counter and its flags
  root,     \* the root file system: "good", "sick" (it mounts and hangs), "corrupt"
  conn,     \* a Wi-Fi connection is installed in the root file system
  phase,    \* the phase byte the Pico keeps in its flash
  mode,     \* what the Pi is doing
  rec,      \* the recovery session: its subsystems, its action and its tasks
  portal,   \* the set-up portal's verification: "idle", "saved", "copied", "stuck"
  daemon,   \* the normal daemon's memory: is it paired, and its saves of config.json
  left,     \* what is left of MaxCuts, MaxFaults and MaxActs
  history   \* what the properties remember: the boots since the phone was last usable
            \* and the writes of the boot counter that were lost among them, whether
            \* recovery failed to mount, whether config.json was saved twice, what
            \* hurt it since, and whether the last Load was sound

persistent == <<data, root, conn, phase>>
vars == <<data, root, conn, phase, mode, rec, portal, daemon, left, history>>

THRESHOLD == 3

Phases == {"PAIRED", "UNPAIRED", "SETUP", "RECOVERY"}
Modes == {"off", "initramfs", "counted", "flagged", "root", "daemon", "portal",
          "panic", "flagging", "phasing", "ready", "resetting", "setup",
          "recovering", "session", "recovery", "rebooting", "hung"}
Tasks == {"main", "web", "again"}
Steps == {"idle", "wait", "clear", "phase", "restore", "write", "unmount",
          "mkfs", "mount", "done", "reboot"}

Fresh == [mounts |-> TRUE, counter |-> 0, recovery |-> FALSE, auto |-> FALSE,
          wifi |-> FALSE, backup |-> FALSE, file |-> Missing, bak |-> Missing]
NoSession == [serial |-> FALSE, audio |-> FALSE, mounted |-> FALSE, action |-> "",
              task |-> [t \in Tasks |-> "idle"]]

\* The goroutines that save: the one that handles the server's messages, and
\* the confirmed *#0* code.
Savers == {"dispatch", "repair"}
NoSave == [step |-> "idle", why |-> "", paired |-> FALSE]
NoDaemon == [paired |-> FALSE, save |-> [g \in Savers |-> NoSave]]

Init ==
  /\ data = [Fresh EXCEPT !.wifi = TRUE, !.backup = TRUE,
              !.file = File("good", TRUE, "last"), !.bak = File("good", TRUE, "before")]
  /\ root = "good" /\ conn = TRUE /\ phase = "PAIRED"
  /\ mode = "ready" /\ rec = NoSession /\ portal = "idle"
  /\ daemon = [NoDaemon EXCEPT !.paired = TRUE]
  /\ left = [cuts |-> MaxCuts, faults |-> MaxFaults, acts |-> MaxActs]
  /\ history = [bad |-> 0, lost |-> 0, strayed |-> FALSE, saved |-> TRUE, hurt |-> 0,
                sound |-> TRUE]

Spend(what) == left[what] > 0 /\ left' = [left EXCEPT ![what] = @ - 1]
Fault == Spend("faults")
Fine == UNCHANGED left
Faults(n) == left.faults >= n /\ left' = [left EXCEPT !.faults = @ - n]
\* One more thing happened to the config files, up to two.
Hurt(n) == IF n = 0 THEN 0 ELSE IF n = 1 THEN 1 ELSE 2

\* The phone is usable: the boots that led here are forgotten.
Forgiven(h) == [h EXCEPT !.bad = 0, !.lost = 0]
\* A write of the boot counter is lost.
Lost(h) == [h EXCEPT !.lost = @ + 1]

\* clearRecoveryBootState, clearRecoveryFlags: the counter and the flag go.
Cleared(d) == [d EXCEPT !.counter = 0, !.recovery = FALSE]
\* bootcount.Write: the daemon sets the counter.
SetCounter(n) == [data EXCEPT !.counter = n]

\* The subsystems of each mode; one that is required and fails stops the mode.
RecoverySubsystems ==
  [required |-> {"mounts", "kernel-modules", "web", "reaper"},
   optional |-> {"gpclk0", "serial", "wifi-ap", "audio"}]
SetupSubsystems == [required |-> {"gpclk0", "web"}, optional |-> {"serial", "audio"}]
\* Manager.Run: which subsystems fail, at most one per fault.
Down(subsystems) == {{}} \cup {{s} : s \in subsystems.required \cup subsystems.optional}
\* SerialModule.Init: the Pico answers within its attempts.
SerialReady(down) == "serial" \notin down
Charge(down) == IF down = {} THEN Fine ELSE Fault

PicoStateForToken(token) == IF token THEN "PAIRED" ELSE "UNPAIRED"

Goto(m) == mode' = m
\* Everything in memory is lost, and mode m begins.
Lose(m) == /\ Goto(m) /\ rec' = NoSession /\ portal' = "idle" /\ daemon' = NoDaemon

-----------------------------------------------------------------------------
(* The power, and the Pico's own boot.                                     *)

\* boot-check.sh is about to count this boot, or has truncated the counter.
Counting == mode = "initramfs" /\ root # "corrupt" /\ data.mounts /\ ~data.recovery

\* The power goes.  A write that was under way may leave a partition behind that
\* is damaged, or a config file, or an empty boot counter, which reads as 0.
PowerCut ==
  /\ mode \notin {"off", "hung"}
  /\ Lose("off")
  /\ left.cuts > 0
  /\ \/ /\ left' = [left EXCEPT !.cuts = @ - 1]
        /\ UNCHANGED <<data, root, history>>
     \/ /\ left.faults > 0
        /\ left' = [left EXCEPT !.cuts = @ - 1, !.faults = @ - 1]
        /\ \/ root' \in {"sick", "corrupt"} /\ UNCHANGED data
           \/ data' = [data EXCEPT !.mounts = FALSE] /\ UNCHANGED root
        /\ UNCHANGED history
     \/ /\ left.faults > 0
        /\ left' = [left EXCEPT !.cuts = @ - 1, !.faults = @ - 1]
        /\ \E shape \in {"nulls", "garbled"} :
             \/ data' = [data EXCEPT !.file = Damaged(shape)]
             \/ data' = [data EXCEPT !.bak = Damaged(shape)]
        /\ UNCHANGED root
        /\ history' = [history EXCEPT !.hurt = Hurt(@ + 1)]
     \/ /\ Counting
        /\ left' = [left EXCEPT !.cuts = @ - 1]
        /\ data' = SetCounter(0) /\ history' = Lost(history) /\ UNCHANGED root
  /\ UNCHANGED <<conn, phase>>

\* The user pulls the plug of a phone that hangs.
Unplug ==
  /\ mode = "hung"
  /\ Lose("off")
  /\ UNCHANGED <<persistent, left, history>>

\* Power comes back to the Pi and to the Pico; a Pico that finds * held at boot
\* writes the recovery phase to its flash.
PowerOn(star) ==
  /\ mode = "off"
  /\ Goto("initramfs")
  /\ IF star THEN /\ Spend("acts")
                  /\ phase' = "RECOVERY"
             ELSE Fine /\ UNCHANGED phase
  /\ UNCHANGED <<data, root, conn, rec, portal, daemon, history>>

-----------------------------------------------------------------------------
(* The initramfs: boot-check.sh and recovery-root.sh.                      *)

\* e2fsck finds a corrupt root file system, and repairs it or gives up.
CheckRoot ==
  /\ mode = "initramfs" /\ root = "corrupt"
  /\ \/ root' \in {"good", "sick"} /\ UNCHANGED mode
     \/ Goto("flagged") /\ UNCHANGED root
  /\ UNCHANGED <<data, conn, phase, rec, portal, daemon, left, history>>

\* COUNT, as the script holds it: the counter and this boot.
Count == IF data.counter > THRESHOLD THEN data.counter ELSE data.counter + 1

\* echo > truncates the counter, writes it, and sync follows.  The write may fail:
\* the partition has become read-only and the counter stays what it was, or it is
\* full and the counter is left empty.
WriteCount ==
  \/ data' = SetCounter(Count) /\ Fine /\ UNCHANGED history
  \/ data' \in {data, SetCounter(0)} /\ Fault /\ history' = Lost(history)

\* Mutant: the boot at the threshold still goes to the normal root.
MutOneBootTooMany ==
  /\ mode = "initramfs" /\ root # "corrupt"
  /\ IF Counting
       THEN WriteCount /\ Goto(IF Count <= THRESHOLD THEN "root" ELSE "counted")
       ELSE Goto("flagged") /\ UNCHANGED <<data, left, history>>
  /\ UNCHANGED <<root, conn, phase, rec, portal, daemon>>

\* The data partition is mounted, the persistent flag is read, the counter is
\* written, and COUNT is compared with the threshold.
BootCheck ==
  /\ mode = "initramfs" /\ root # "corrupt"
  /\ IF Counting
       THEN WriteCount /\ Goto(IF Count < THRESHOLD THEN "root" ELSE "counted")
       ELSE Goto("flagged") /\ UNCHANGED <<data, left, history>>
  /\ UNCHANGED <<root, conn, phase, rec, portal, daemon>>

\* At the threshold: the flag in /run is set, and the persistent one, best effort.
FlagRecovery ==
  /\ mode = "counted"
  /\ Goto("flagged")
  /\ \/ data' = [data EXCEPT !.recovery = TRUE] /\ Fine
     \/ UNCHANGED data /\ Fault
  /\ UNCHANGED <<root, conn, phase, rec, portal, daemon, history>>

\* The initramfs has mounted the normal root, and recovery-root.sh swaps it for the
\* recovery partition; if that does not mount, the boot falls back to the normal root.
RecoveryRoot ==
  /\ mode = "flagged"
  /\ \/ Goto("recovering") /\ Fine /\ UNCHANGED history
     \/ Goto("root") /\ Fault /\ history' = [history EXCEPT !.strayed = TRUE]
  /\ UNCHANGED <<persistent, rec, portal, daemon>>

-----------------------------------------------------------------------------
(* The normal root: digits-ap-check init, digitsd and digitsd --mode=setup. *)

\* A sick root hangs.  Otherwise the Wi-Fi flag, the installed connection and
\* the back-up decide between the station and the set-up access point.
ApCheck ==
  /\ mode = "root"
  /\ history' = [history EXCEPT !.bad = @ + 1]
  /\ IF root # "good" THEN Goto("hung") /\ UNCHANGED <<data, conn>>
     ELSE IF ~data.mounts \/ ~data.wifi THEN Goto("portal") /\ UNCHANGED <<data, conn>>
     ELSE IF conn THEN Goto("daemon") /\ UNCHANGED <<data, conn>>
     ELSE IF data.backup THEN Goto("daemon") /\ conn' = TRUE /\ UNCHANGED data
     ELSE /\ Goto("portal") /\ data' = [data EXCEPT !.wifi = FALSE] /\ UNCHANGED conn
  /\ UNCHANGED <<root, phase, rec, portal, daemon, left>>

\* Mutant: the panic phase is left in the Pico.
MutPanicPhaseStays ==
  /\ UNCHANGED <<root, conn, phase, rec, portal, daemon, history>>
  /\ \/ mode = "panic" /\ Goto("flagging") /\ UNCHANGED <<data, left>>
     \/ mode = "flagging" /\ Goto("phasing") /\ UNCHANGED <<data, left>>
     \/ mode = "phasing" /\ Goto("rebooting") /\ UNCHANGED <<data, left>>

\* enterPanicRecovery: the counter is set to the threshold, the flag is written,
\* both best effort, the Pico is given its phase back, and doReboot is called.
EnterPanicRecovery ==
  /\ \/ /\ mode = "panic" /\ Goto("flagging") /\ UNCHANGED phase
        /\ \/ data' = (IF data.mounts THEN SetCounter(THRESHOLD) ELSE data) /\ Fine
           \/ data' = (IF data.mounts THEN SetCounter(0) ELSE data) /\ Fault
     \/ /\ mode = "flagging" /\ Goto("phasing") /\ UNCHANGED phase
        /\ \/ data' = (IF data.mounts THEN [data EXCEPT !.recovery = TRUE] ELSE data) /\ Fine
           \/ UNCHANGED data /\ Fault
     \/ /\ mode = "phasing" /\ Goto("rebooting")
        /\ phase' = PicoStateForToken(daemon.paired) /\ UNCHANGED <<data, left>>
  /\ UNCHANGED <<root, conn, rec, portal, daemon, history>>

\* runSetupMode clears the counter too.
RunSetupMode ==
  /\ data' = IF data.mounts THEN SetCounter(0) ELSE data
  /\ Goto("setup")
  /\ history' = Forgiven(history)

\* What the history says once Load has given l.
Remembered(l) ==
  [history EXCEPT !.hurt = Hurt(@ + l.failed),
                  !.sound = l.config.age # "older" \/ ~history.saved]

\* digitsd loads its configuration and reads the Pico's phase: RECOVERY means the
\* panic button.  Otherwise it restores the phase from its token, starts the
\* supervisor and clears the boot counter.  A failed query is logged and ignored.
StartDaemon ==
  /\ mode = "daemon"
  /\ \E l \in Load(data), failed \in 0..1 :
       LET loaded == [data EXCEPT !.file = l.file]
           asked == phase = "RECOVERY" /\ failed = 0
       IN  /\ Faults(failed + l.failed)
           /\ history' = Forgiven(Remembered(l))
           /\ daemon' = [NoDaemon EXCEPT !.paired = l.config.paired]
           /\ \/ asked /\ Goto("panic") /\ data' = loaded /\ UNCHANGED phase
              \/ /\ ~asked /\ Goto("ready")
                 /\ phase' = PicoStateForToken(l.config.paired)
                 /\ data' = [loaded EXCEPT !.counter = 0]
  /\ UNCHANGED <<root, conn, rec, portal>>

\* A start that ends in log.Fatalf: the serial line, the hook polarity, the codec,
\* the tones or the socket, before or after the phase was restored.  systemd
\* starts the daemon again.
DaemonDies ==
  /\ mode = "daemon"
  /\ \E l \in Load(data) :
       /\ Faults(1 + l.failed)
       /\ data' = [data EXCEPT !.file = l.file]
       /\ history' = Remembered(l)
       /\ \/ UNCHANGED phase
          \/ phase # "RECOVERY" /\ phase' = PicoStateForToken(l.config.paired)
  /\ UNCHANGED <<root, conn, mode, rec, portal, daemon>>

\* The same check in set-up mode, if the serial link came up.  A required
\* subsystem that fails ends the process, and systemd starts it again.
StartPortal ==
  /\ mode = "portal"
  /\ \E down \in Down(SetupSubsystems) :
       /\ Charge(down)
       /\ \/ /\ down \cap SetupSubsystems.required # {}
             /\ UNCHANGED <<data, phase, mode, history>>
          \/ /\ down \cap SetupSubsystems.required = {}
             /\ phase = "RECOVERY" /\ SerialReady(down)
             /\ Goto("panic") /\ history' = Forgiven(history) /\ UNCHANGED <<data, phase>>
          \/ /\ down \cap SetupSubsystems.required = {}
             /\ phase # "RECOVERY" \/ ~SerialReady(down)
             /\ phase' = IF SerialReady(down) THEN "SETUP" ELSE phase
             /\ RunSetupMode
  /\ UNCHANGED <<root, conn, rec, portal, daemon>>

\* doReboot outside recovery: clearRecoveryFlags and the reboot, which may fail.
DoReboot ==
  /\ mode = "rebooting"
  /\ data' = IF data.mounts THEN Cleared(data) ELSE data
  /\ \/ Lose("initramfs") /\ Fine
     \/ Lose("hung") /\ Fault
  /\ UNCHANGED <<root, conn, phase, history>>

-----------------------------------------------------------------------------
(* Requests to a phone that is up: service codes, pairing, the portal.      *)

\* Reboot and shutdown codes.
CodeReboot(m) ==
  /\ mode = "ready" /\ m \in {"initramfs", "off"}
  /\ Spend("acts")
  /\ Lose(m)
  /\ UNCHANGED <<persistent, history>>

\* *#SETUP#: the Wi-Fi flag is removed, or not, and the phone reboots.
CodeSetup ==
  /\ mode = "ready"
  /\ Spend("acts")
  /\ data' \in {[data EXCEPT !.wifi = FALSE], data}
  /\ Lose("initramfs")
  /\ UNCHANGED <<root, conn, phase, history>>

\* No other Save is under way.
Alone(g) == \A o \in Savers \ {g} : daemon.save[o].step \notin {"copy", "write"}

\* Save begins: the memory is marshalled.  Nothing keeps two Saves apart.
Begin(g, why, paired) ==
  /\ mode = "ready" /\ daemon.save[g].step = "idle"
  /\ Spend("acts")
  /\ daemon' = [daemon EXCEPT !.paired = paired,
                  !.save[g] = [step |-> "copy", why |-> why, paired |-> paired]]
  /\ history' = IF Alone(g) THEN history ELSE [history EXCEPT !.hurt = 2]
  /\ UNCHANGED <<persistent, mode, rec, portal>>

\* The server pairs the phone, pushes a setting, or corrects the number.
Paired == ~daemon.paired /\ Begin("dispatch", "paired", TRUE)
SetConfig == Begin("dispatch", "setting", daemon.paired)
LineRenumber == daemon.paired /\ Begin("dispatch", "renumber", TRUE)
\* *#0*, confirmed: the token is dropped.
OnRepair == Begin("repair", "repair", FALSE)

SaveAt(g, step) == mode \in {"ready", "resetting"} /\ daemon.save[g].step = step
SaveGoto(g, step) == daemon' = [daemon EXCEPT !.save[g].step = step]

\* The backup is written, best effort.
SaveCopy(g) ==
  /\ SaveAt(g, "copy")
  /\ SaveGoto(g, "write")
  /\ \/ data' = [data EXCEPT !.bak = Copied(data)] /\ Fine /\ UNCHANGED history
     \/ Fault /\ history' = [history EXCEPT !.hurt = Hurt(@ + 1)] /\ UNCHANGED data
  /\ UNCHANGED <<root, conn, phase, mode, rec, portal>>

\* What each caller does when its Save is over: a setting ends there, a new
\* number only counts when it was saved, pairing tells the Pico and exits in any
\* case, and so does *#0* with its reboot.
AfterSave(g, saved) ==
  LET why == daemon.save[g].why IN
  /\ phase' = IF why = "paired" THEN "PAIRED" ELSE phase
  /\ IF why = "setting" \/ (why = "renumber" /\ ~saved)
       THEN daemon' = [daemon EXCEPT !.save[g] = NoSave]
       ELSE SaveGoto(g, "leave")

SaveWrite(g) ==
  /\ SaveAt(g, "write")
  /\ \/ /\ data' = Written(data, daemon.save[g].paired) /\ Fine
        /\ history' = [history EXCEPT !.saved = @ \/ Healed(data'),
                         !.hurt = IF Healed(data') /\ Alone(g) THEN 0 ELSE @,
                         !.sound = @ \/ (Healed(data') /\ Alone(g))]
        /\ AfterSave(g, TRUE)
     \/ Fault /\ AfterSave(g, FALSE) /\ UNCHANGED <<data, history>>
  /\ UNCHANGED <<root, conn, mode, rec, portal>>

\* The process exits and systemd starts it again, or the phone reboots.
Leave(g) ==
  /\ SaveAt(g, "leave")
  /\ Lose(IF daemon.save[g].why = "repair" THEN "initramfs" ELSE "daemon")
  /\ UNCHANGED <<persistent, left, history>>

\* triggerFactoryReset: the counter is set to the threshold, or the request ends.
TriggerFactoryReset ==
  /\ mode = "ready"
  /\ Spend("acts")
  /\ \/ data' = SetCounter(THRESHOLD) /\ Goto("resetting")
     \/ UNCHANGED <<data, mode>>
  /\ UNCHANGED <<root, conn, phase, rec, portal, daemon, history>>

\* The automatic reset flag, best effort, and the reboot.
TriggerReboot ==
  /\ mode = "resetting"
  /\ \/ data' = [data EXCEPT !.auto = TRUE] /\ Fine
     \/ UNCHANGED data /\ Fault
  /\ Lose("initramfs")
  /\ UNCHANGED <<root, conn, phase, history>>

\* SaveToBackup: the credentials are in the back-up directory.
SaveToBackup(d) == [d EXCEPT !.backup = TRUE]

\* POST /api/configure: one verification at a time.  When the back-up cannot be
\* written the handler returns and verifying stays set.
Configure ==
  /\ mode = "setup" /\ portal = "idle" /\ data.mounts
  /\ left.acts > 0
  /\ \/ /\ left' = [left EXCEPT !.acts = @ - 1]
        /\ data' = SaveToBackup(data) /\ portal' = "saved"
     \/ /\ left.faults > 0
        /\ left' = [left EXCEPT !.acts = @ - 1, !.faults = @ - 1]
        /\ portal' = "stuck" /\ UNCHANGED data
  /\ UNCHANGED <<root, conn, phase, mode, rec, daemon, history>>

\* wifi.Verify: the connection is installed and NetworkManager polled; a failed
\* attempt takes the credentials away again.
Verify ==
  /\ mode = "setup" /\ portal = "saved"
  /\ \/ conn' = TRUE /\ portal' = "copied" /\ UNCHANGED data
     \/ conn' = FALSE /\ data' = [data EXCEPT !.backup = FALSE] /\ portal' = "idle"
  /\ UNCHANGED <<root, phase, mode, rec, daemon, left, history>>

\* CommitToOperational writes the flag and the phone reboots, or it fails.
Commit ==
  /\ mode = "setup" /\ portal = "copied"
  /\ \/ data' = [data EXCEPT !.wifi = TRUE] /\ Goto("rebooting") /\ Fine
     \/ UNCHANGED <<data, mode>> /\ Fault
  /\ portal' = "idle"
  /\ UNCHANGED <<root, conn, phase, rec, daemon, history>>

-----------------------------------------------------------------------------
(* Recovery mode.                                                          *)

At(t, pc) == mode = "recovery" /\ rec.task[t] = pc
Move(t, pc) == [rec EXCEPT !.task[t] = pc]

\* The automatic reset flag is removed before the reset it asks for.
WithoutAutoFlag(d) == [d EXCEPT !.auto = FALSE]

\* The subsystems come up, or a required one fails and the process halts; without
\* serial there is no Pico to talk to, without serial or audio no voice menu.
InitSubsystems ==
  /\ mode = "recovering"
  /\ \E down \in Down(RecoverySubsystems) :
       /\ Charge(down)
       /\ IF down \cap RecoverySubsystems.required # {}
            THEN Goto("hung") /\ UNCHANGED rec
            ELSE /\ Goto("session")
                 /\ rec' = [NoSession EXCEPT !.serial = SerialReady(down),
                              !.audio = "audio" \notin down, !.mounted = data.mounts]
  /\ UNCHANGED <<persistent, portal, daemon, history>>

\* The Pico's phase is set, and the automatic reset flag is removed and obeyed.
RunRecoveryMode ==
  /\ mode = "session"
  /\ Goto("recovery")
  /\ phase' = IF rec.serial THEN "RECOVERY" ELSE phase
  /\ LET auto == rec.mounted /\ data.auto IN
     /\ data' = IF auto THEN WithoutAutoFlag(data) ELSE data
     /\ rec' = IF auto THEN [rec EXCEPT !.action = "factory-reset",
                                        !.task["main"] = "restore"]
                       ELSE rec
     /\ history' = Forgiven(history)
  /\ UNCHANGED <<root, conn, portal, daemon, left>>

\* startReset refuses only while the last action is a factory reset.
StartReset(t) ==
  /\ rec.action # "factory-reset"
  /\ rec' = [rec EXCEPT !.action = "factory-reset", !.task[t] = "restore"]

\* POST /factory-reset runs the reset in a goroutine of its own.
WebFactoryReset ==
  /\ At("web", "idle") /\ Spend("acts") /\ StartReset("web")
  /\ UNCHANGED <<persistent, mode, portal, daemon, history>>

\* The voice menu: 2, confirmed by 2.
KeyFactoryReset ==
  /\ At("main", "idle") /\ rec.serial /\ rec.audio
  /\ Spend("acts") /\ StartReset("main")
  /\ UNCHANGED <<persistent, mode, portal, daemon, history>>

\* POST /try-again: the action changes and the boot state is cleared.
WebTryAgain ==
  /\ At("again", "idle") /\ Spend("acts")
  /\ rec' = [rec EXCEPT !.action = "try-again", !.task["again"] = "phase"]
  /\ data' = IF rec.mounted THEN Cleared(data) ELSE data
  /\ UNCHANGED <<root, conn, phase, mode, portal, daemon, history>>

\* The voice menu: 1.  The phone speaks for a while before it clears anything.
KeyTryAgain ==
  /\ At("main", "idle") /\ rec.serial /\ rec.audio
  /\ Spend("acts")
  /\ rec' = [rec EXCEPT !.action = "try-again", !.task["main"] = "wait"]
  /\ UNCHANGED <<persistent, mode, portal, daemon, history>>

\* clearRecoveryBootState on the keypad's path.
ClearRecoveryBootState ==
  /\ At("main", "wait")
  /\ data' = IF rec.mounted THEN Cleared(data) ELSE data
  /\ rec' = Move("main", "phase")
  /\ UNCHANGED <<root, conn, phase, mode, portal, daemon, left, history>>

\* clearRecoveryPhase.
ClearRecoveryPhase(t) ==
  /\ At(t, "phase")
  /\ phase' = IF rec.serial THEN "UNPAIRED" ELSE phase
  /\ rec' = Move(t, "reboot")
  /\ UNCHANGED <<data, root, conn, mode, portal, daemon, left, history>>

\* doReboot as PID 1: the data partition is mounted for the clean-up if it is
\* not, and the reboot call ends the session and every task in it.
RecoveryReboot(t) ==
  /\ At(t, "reboot")
  /\ data' = IF data.mounts THEN Cleared(data) ELSE data
  /\ \/ Lose("initramfs") /\ Fine
     \/ Lose("hung") /\ Fault
  /\ UNCHANGED <<root, conn, phase, history>>

\* setFailed: the reset ends and leaves its action behind.
Fail(t) == Fault /\ rec' = Move(t, "idle")

\* doFactoryReset: the image is looked for and dd starts to overwrite the root.
RestoreRoot(t) ==
  /\ At(t, "restore")
  /\ \/ root' = "corrupt" /\ conn' = FALSE /\ rec' = Move(t, "write") /\ Fine
     \/ Fail(t) /\ UNCHANGED <<root, conn>>
  /\ UNCHANGED <<data, phase, mode, portal, daemon, history>>

RootWritten(t) ==
  /\ At(t, "write")
  /\ \/ root' = "good" /\ rec' = Move(t, "unmount") /\ Fine
     \/ Fail(t) /\ UNCHANGED root
  /\ UNCHANGED <<data, conn, phase, mode, portal, daemon, history>>

\* /data is unmounted and mkfs begins.
UnmountData(t) ==
  /\ At(t, "unmount")
  /\ data' = [data EXCEPT !.mounts = FALSE]
  /\ rec' = [Move(t, "mkfs") EXCEPT !.mounted = FALSE]
  /\ UNCHANGED <<root, conn, phase, mode, portal, daemon, left, history>>

FormatData(t) ==
  /\ At(t, "mkfs")
  /\ \/ /\ data' = Fresh /\ rec' = Move(t, "mount") /\ Fine
        /\ history' = [history EXCEPT !.saved = FALSE, !.hurt = 0, !.sound = TRUE]
     \/ Fail(t) /\ UNCHANGED <<data, history>>
  /\ UNCHANGED <<root, conn, phase, mode, portal, daemon>>

\* The new partition is mounted and the skeleton is unpacked, best effort.
MountData(t) ==
  /\ At(t, "mount")
  /\ \/ rec' = [Move(t, "done") EXCEPT !.mounted = TRUE] /\ Fine
     \/ Fail(t)
  /\ UNCHANGED <<persistent, mode, portal, daemon, history>>

ResetDone(t) ==
  /\ At(t, "done")
  /\ phase' = IF rec.serial THEN "SETUP" ELSE phase
  /\ rec' = Move(t, "reboot")
  /\ UNCHANGED <<data, root, conn, mode, portal, daemon, left, history>>

-----------------------------------------------------------------------------
ResetStep(t) ==
  \/ RestoreRoot(t) \/ RootWritten(t) \/ UnmountData(t)
  \/ FormatData(t) \/ MountData(t) \/ ResetDone(t)

\* What runs without the user: the boot, the daemons and the recovery tasks.
Runs ==
  \/ PowerOn(FALSE) \/ CheckRoot \/ BootCheck \/ FlagRecovery \/ RecoveryRoot
  \/ ApCheck \/ StartDaemon \/ DaemonDies \/ StartPortal
  \/ EnterPanicRecovery \/ DoReboot \/ TriggerReboot
  \/ InitSubsystems \/ RunRecoveryMode

Portal == Verify \/ Commit
RecoveryTasks ==
  \/ ClearRecoveryBootState
  \/ \E t \in Tasks : ClearRecoveryPhase(t) \/ RecoveryReboot(t) \/ ResetStep(t)

Server == Paired \/ SetConfig \/ LineRenumber
Saving == \E g \in Savers : SaveCopy(g) \/ SaveWrite(g) \/ Leave(g)

User ==
  \/ PowerOn(TRUE) \/ CodeSetup \/ OnRepair \/ TriggerFactoryReset
  \/ \E m \in {"initramfs", "off"} : CodeReboot(m)
  \/ Configure \/ WebFactoryReset \/ KeyFactoryReset \/ WebTryAgain \/ KeyTryAgain

Next == Runs \/ Portal \/ Server \/ Saving \/ RecoveryTasks \/ User \/ PowerCut \/ Unplug

\* A boot goes on by itself, and the user power-cycles a phone that hangs.
Spec == Init /\ [][Next]_vars /\ WF_vars(Runs) /\ WF_vars(Unplug)

-----------------------------------------------------------------------------
Files == [shape : Shapes, paired : BOOLEAN, age : Ages]
Data == [mounts : BOOLEAN, counter : 0..THRESHOLD + 1, recovery : BOOLEAN, auto : BOOLEAN,
         wifi : BOOLEAN, backup : BOOLEAN, file : Files, bak : Files]
Session == [serial : BOOLEAN, audio : BOOLEAN, mounted : BOOLEAN,
            action : {"", "try-again", "factory-reset"}, task : [Tasks -> Steps]]
Save == [step : {"idle", "copy", "write", "leave"},
         why : {"", "paired", "setting", "renumber", "repair"}, paired : BOOLEAN]
Daemon == [paired : BOOLEAN, save : [Savers -> Save]]
Budget == [cuts : 0..MaxCuts, faults : 0..MaxFaults, acts : 0..MaxActs]
History == [bad : Nat, lost : Nat, strayed : BOOLEAN, saved : BOOLEAN,
            hurt : 0..2, sound : BOOLEAN]
TypeOK ==
  /\ data \in Data
  /\ root \in {"good", "sick", "corrupt"} /\ conn \in BOOLEAN
  /\ phase \in Phases /\ mode \in Modes
  /\ rec \in Session
  /\ portal \in {"idle", "saved", "copied", "stuck"}
  /\ daemon \in Daemon
  /\ left \in Budget
  /\ history \in History

\* The normal root is entered at most twice in a row without becoming usable, the
\* third boot is recovery's (boot-check.sh, THRESHOLD); and a write of the counter
\* that fails or is cut costs two boots more and no others, because the script
\* compares what it counted and not what it wrote.  A recovery partition that does
\* not mount is the one exception.
BadBootsAreBounded ==
  ~history.strayed => history.bad <= (THRESHOLD - 1) * (1 + history.lost)

\* Once saved twice, a power cut in the middle of a Save, or one damaged or
\* unwritten file, never costs the phone its pairing: it starts with what it saved
\* last or the time before, as long as no two Saves overlap (config.go, Load and Save: "the file
\* is either fully written or not changed at all").
ConfigSurvives == history.hurt <= 1 => history.sound

\* However the phone is cut off, damaged or reset, it always comes back to a
\* mode in which it can be used: the daemon, the set-up portal or recovery
\* (boot-check.sh, enterPanicRecovery).
NeverWedged == []<>(mode \in {"ready", "setup", "recovery"})
=============================================================================
