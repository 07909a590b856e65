------------------------------- MODULE Updates -------------------------------
(***************************************************************************)
(* Over-the-air updates of one phone: the release index each server        *)
(* replica polls from GitHub and the release_available push, the update    *)
(* runs of digitsd (started by a push, by the dashboard, by a service      *)
(* code, at start-up or after a call), the resumable download, the         *)
(* installation of the Pi binary, the flashing of the Pico, the developer  *)
(* upload, and the start-up check that flashes a Pico that does not answer *)
(* or does not run the bundled firmware.                                   *)
(*                                                                         *)
(* A version is a number.  An artifact is Blocks blocks long, and a file   *)
(* is the sequence of the versions its blocks come from.  Each run is a    *)
(* goroutine in a slot.                                                    *)
(***************************************************************************)
EXTENDS Naturals, Sequences

CONSTANTS
  Replicas,      \* the server's replicas
  Slots,         \* update goroutines at a time
  MaxVersion,    \* the last version that is published
  Blocks,        \* the length of an artifact
  MaxRetries,    \* indexRetryAttempts - 1
  MaxInbox,      \* messages on their way to the phone
  MaxFaults,     \* how many requests, commands, flashes and power supplies fail
  MaxActs        \* how many things users and the network do

ASSUME SizeAssumption == MaxVersion \in Nat \ {0} /\ Blocks \in Nat \ {0}
ASSUME BoundsAssumption ==
  MaxRetries \in Nat /\ MaxInbox \in Nat /\ MaxFaults \in Nat /\ MaxActs \in Nat

VARIABLES
  published,  \* GitHub: the latest version of each component
  index,      \* each replica's release index
  inbox,      \* what the server sent the phone and it has not handled
  mode,       \* "off", "post", "reflash" or "up"
  installed,  \* the Pi binary on disk
  pico,       \* the firmware in the Pico's flash, None while it cannot boot
  elf,        \* firmware.elf, the file that is flashed
  staging,    \* per component: the partial download with its marker, and the staged file
  daemon,     \* the daemon's memory
  task,       \* the update goroutines
  left,       \* what is left of the budgets
  failed      \* the last flash failed

server == <<published, index, inbox>>
disk == <<installed, pico, elf, staging>>
vars == <<published, index, inbox, mode, installed, pico, elf, staging, daemon,
          task, left, failed>>

Components == {"pi", "fw"}
None == 0
Dev == MaxVersion + 1              \* what a developer uploads: no semantic version
Bundled == 1                       \* firmware.elf.version, as the image shipped
Versions == 1..MaxVersion
NoFile == <<>>
Whole(v) == [i \in 1..Blocks |-> v]
Genuine(file) == \E v \in Versions \cup {Dev} : file = Whole(v)

NoPush == [pi |-> None, fw |-> None]
Idle == [pc |-> "idle", kind |-> "", target |-> NoPush, fwVer |-> None, can |-> FALSE,
         rel |-> NoPush, seen |-> NoFile, tries |-> 0]
Boot(v) == [running |-> v, fwVer |-> None, probe |-> "running", lock |-> FALSE,
            pending |-> FALSE, pushed |-> NoPush, allowed |-> TRUE, inCall |-> FALSE,
            startup |-> TRUE]
NoPartial == [marker |-> None, file |-> NoFile]

Init ==
  /\ published = [c \in Components |-> 1]
  /\ index = [r \in Replicas |-> published]
  /\ inbox = <<>>
  /\ mode = "up" /\ installed = 1 /\ pico = 1 /\ elf = Whole(1)
  /\ staging = [c \in Components |-> [partial |-> NoPartial, staged |-> NoFile]]
  /\ daemon = [Boot(1) EXCEPT !.fwVer = 1]
  /\ task = [t \in Slots |-> Idle]
  /\ left = [faults |-> MaxFaults, acts |-> MaxActs]
  /\ failed = FALSE

Spend(what) == left[what] > 0 /\ left' = [left EXCEPT ![what] = @ - 1]
Fine == UNCHANGED left
Fault == Spend("faults")
Goto(t, pc) == task' = [task EXCEPT ![t].pc = pc]

-----------------------------------------------------------------------------
(* The server.                                                             *)

Publish(c) ==
  /\ published[c] < MaxVersion
  /\ published' = [published EXCEPT ![c] = @ + 1]
  /\ UNCHANGED <<index, inbox, mode, disk, daemon, task, left, failed>>

\* The phone gets a message if it is connected.
ToPhone(msg) ==
  /\ Len(inbox) < MaxInbox
  /\ inbox' = IF mode = "up" THEN Append(inbox, msg) ELSE inbox

\* refresh and SetIndex: the index is replaced, and a new latest version is
\* broadcast to every phone.
Refresh(r) ==
  /\ index[r] # published
  /\ index' = [index EXCEPT ![r] = published]
  /\ ToPhone([type |-> "release", pi |-> published["pi"], fw |-> published["fw"]])
  /\ UNCHANGED <<published, mode, disk, daemon, task, left, failed>>

\* handlePhoneUpdate: the dashboard asks for one component, or for the latest.
UpdateTrigger(pi, fw) ==
  /\ Spend("acts")
  /\ ToPhone([type |-> "trigger", pi |-> pi, fw |-> fw])
  /\ UNCHANGED <<published, index, mode, disk, daemon, task, failed>>

-----------------------------------------------------------------------------
(* What starts an update run.                                              *)

Free(t) == mode = "up" /\ task[t].pc = "idle"
\* The firmware version and the flash capability are read when it is spawned.
Spawned(kind, pc, target) ==
  [Idle EXCEPT !.kind = kind, !.pc = pc, !.target = target, !.fwVer = daemon.fwVer,
               !.can = (daemon.probe = "yes")]
Spawn(t, kind, pc, target) == task' = [task EXCEPT ![t] = Spawned(kind, pc, target)]

\* handleSignal, update_trigger.
OnTrigger(t) ==
  /\ Free(t) /\ inbox # <<>> /\ Head(inbox).type = "trigger"
  /\ inbox' = Tail(inbox)
  /\ Spawn(t, "server", "lock", [pi |-> Head(inbox).pi, fw |-> Head(inbox).fw])
  /\ UNCHANGED <<published, index, mode, disk, daemon, left, failed>>

\* handleSignal, release_available: the push is remembered, and run if allowed.
OnRelease(t) ==
  /\ Free(t) /\ inbox # <<>> /\ Head(inbox).type = "release"
  /\ inbox' = Tail(inbox)
  /\ daemon' = [daemon EXCEPT !.pushed = [pi |-> Head(inbox).pi, fw |-> Head(inbox).fw]]
  /\ IF daemon.allowed THEN Spawn(t, "auto", "auto", NoPush) ELSE UNCHANGED task
  /\ UNCHANGED <<published, index, mode, disk, left, failed>>

\* The service code *#UPDATE#.
OnUpdateCode(t) ==
  /\ Free(t) /\ Spend("acts")
  /\ Spawn(t, "code", "lock", NoPush)
  /\ UNCHANGED <<server, mode, disk, daemon, failed>>

\* The check at start-up waits for the SWD probe, or for its own timeout.
StartupCheck(t) ==
  /\ Free(t) /\ daemon.startup
  /\ daemon' = [daemon EXCEPT !.startup = FALSE]
  /\ IF daemon.allowed THEN Spawn(t, "auto", "auto", NoPush) ELSE UNCHANGED task
  /\ IF daemon.probe = "running" THEN Fault ELSE Fine
  /\ UNCHANGED <<server, mode, disk, failed>>

\* The probe of the SWD bus.
SwdProbe ==
  /\ mode = "up" /\ daemon.probe = "running"
  /\ \/ daemon' = [daemon EXCEPT !.probe = "yes"] /\ Fine
     \/ daemon' = [daemon EXCEPT !.probe = "no"] /\ Fault
  /\ UNCHANGED <<server, mode, disk, task, failed>>

CallBegins ==
  /\ mode = "up" /\ ~daemon.inCall /\ Spend("acts")
  /\ daemon' = [daemon EXCEPT !.inCall = TRUE]
  /\ UNCHANGED <<server, mode, disk, task, failed>>

\* HangupCall runs an update that was put off, if it is still allowed.
HangupCall(t) ==
  /\ Free(t) /\ daemon.inCall
  /\ daemon' = [daemon EXCEPT !.inCall = FALSE, !.pending = FALSE]
  /\ IF daemon.pending /\ daemon.allowed THEN Spawn(t, "auto", "auto", NoPush)
                                         ELSE UNCHANGED task
  /\ UNCHANGED <<server, mode, disk, left, failed>>

\* The line's setting or the developer's flag forbids automatic updates.
ForbidAutoUpdate ==
  /\ mode = "up" /\ daemon.allowed /\ Spend("acts")
  /\ daemon' = [daemon EXCEPT !.allowed = FALSE]
  /\ UNCHANGED <<server, mode, disk, task, failed>>

-----------------------------------------------------------------------------
(* An update run.                                                          *)

\* The run ends; its lock goes with it.  A run of the automatic kind whose
\* target is not in the index waits and tries again; one that ended well
\* forgets the pushed release.
End(t, err) ==
  LET again == task[t].kind = "auto" /\ err = "notIndexed" /\ task[t].tries < MaxRetries
  IN  /\ task' = [task EXCEPT ![t] =
            IF again THEN [task[t] EXCEPT !.pc = "lock", !.tries = @ + 1] ELSE Idle]
      /\ daemon' = [daemon EXCEPT
            !.lock = FALSE,
            !.pushed = IF task[t].kind = "auto" /\ err = "" THEN NoPush ELSE @]

\* runAutoUpdate: put off during a call, otherwise aimed at the pushed release.
RunAutoUpdate(t) ==
  /\ task[t].pc = "auto"
  /\ IF daemon.inCall
       THEN task' = [task EXCEPT ![t] = Idle] /\ daemon' = [daemon EXCEPT !.pending = TRUE]
       ELSE /\ task' = [task EXCEPT ![t].pc = "lock", ![t].target = daemon.pushed]
            /\ UNCHANGED daemon
  /\ UNCHANGED <<server, mode, disk, left, failed>>

\* Mutant: the compare-and-swap is missing.
MutNoLock(t) ==
  /\ task[t].pc = "lock"
  /\ daemon' = [daemon EXCEPT !.lock = TRUE]
  /\ Goto(t, IF task[t].kind = "dev" THEN "apply" ELSE "check")
  /\ UNCHANGED <<server, mode, disk, left, failed>>

\* runTargetedUpdate: one run at a time, the developer's upload included.
RunTargetedUpdate(t) ==
  /\ task[t].pc = "lock"
  /\ IF daemon.lock
       THEN task' = [task EXCEPT ![t] = Idle] /\ UNCHANGED daemon
       ELSE /\ daemon' = [daemon EXCEPT !.lock = TRUE]
            /\ Goto(t, IF task[t].kind = "dev" THEN "apply" ELSE "check")
  /\ UNCHANGED <<server, mode, disk, left, failed>>

\* Mutant: any other version is an update.
MutOtherIsNewer(candidate, current) == candidate # current

\* A developer's build has no semantic version.
VersionIsNewer(candidate, current) ==
  IF current \in Versions THEN candidate > current ELSE candidate # current

\* resolveTargetRelease: the release to move to, None, or MaxVersion + 2 for a
\* target the index does not list.
NotListed == MaxVersion + 2
ResolveTargetRelease(target, current, latest) ==
  CASE target = None /\ ~VersionIsNewer(latest, current) -> None
    [] target = None /\ VersionIsNewer(latest, current) -> latest
    [] target # None /\ target = current -> None
    [] target # None /\ target # current /\ target <= latest -> target
    [] OTHER -> NotListed

\* CheckVersion against one replica's index; a component that was not asked for
\* is left alone when the other one was.
CheckVersion(t) ==
  /\ task[t].pc = "check"
  /\ \/ /\ \E r \in Replicas :
             LET tg == task[t].target
                 pi == ResolveTargetRelease(tg.pi, daemon.running, index[r]["pi"])
                 fw == ResolveTargetRelease(tg.fw, task[t].fwVer, index[r]["fw"])
                 targeted == tg # NoPush
                 rel == [pi |-> IF targeted /\ tg.pi = None THEN None ELSE pi,
                         fw |-> IF targeted /\ tg.fw = None THEN None ELSE fw]
             IN  \/ NotListed \in {pi, fw} /\ End(t, "notIndexed")
                 \/ NotListed \notin {pi, fw} /\ rel = NoPush /\ End(t, "")
                 \/ /\ NotListed \notin {pi, fw} /\ rel # NoPush
                    /\ task' = [task EXCEPT ![t].rel = rel, ![t].pc = "firmware"]
                    /\ UNCHANGED daemon
        /\ Fine
     \/ End(t, "fetch") /\ Fault
  /\ UNCHANGED <<server, mode, disk, failed>>

\* Firmware first, then the Pi binary; firmware only where SWD is wired.
PlanFirmware(t) ==
  /\ task[t].pc = "firmware"
  /\ LET dl == task[t].rel.fw # None /\ task[t].can IN
     \/ dl /\ Goto(t, "openFw") /\ UNCHANGED daemon
     \/ ~dl /\ task[t].rel.pi # None /\ Goto(t, "openPi") /\ UNCHANGED daemon
     \/ ~dl /\ task[t].rel.pi = None /\ End(t, "")
  /\ UNCHANGED <<server, mode, disk, left, failed>>

-----------------------------------------------------------------------------
(* Download.                                                               *)

OpenPc == [pi |-> "openPi", fw |-> "openFw"]
CopyPc == [pi |-> "copyPi", fw |-> "copyFw"]
Partial(c) == staging[c].partial
SetPartial(c, p) == staging' = [staging EXCEPT ![c].partial = p]

\* What the marker proves to belong to this artifact may be resumed.
Resumable(c, v) == IF Partial(c).marker = v THEN Partial(c).file ELSE NoFile

\* The request: the server honours the range, sends everything, or refuses.  A
\* refusal that is not transient drops the partial; one that is keeps it.  A
\* complete one is past the end of the range.
DownloadOpen(t, c) ==
  /\ task[t].pc = OpenPc[c]
  /\ LET v == task[t].rel[c]
         have == Resumable(c, v)
     IN  \/ /\ have # NoFile /\ Len(have) < Blocks            \* 206
            /\ task' = [task EXCEPT ![t].pc = CopyPc[c], ![t].seen = have]
            /\ Fine /\ UNCHANGED <<staging, daemon>>
         \/ /\ task' = [task EXCEPT ![t].pc = CopyPc[c], ![t].seen = NoFile]
            /\ SetPartial(c, [marker |-> v, file |-> NoFile])  \* 200
            /\ Fine /\ UNCHANGED daemon
         \/ /\ Len(have) = Blocks                             \* 416
            /\ SetPartial(c, NoPartial) /\ End(t, "download") /\ Fine
         \/ /\ \/ SetPartial(c, NoPartial)                    \* 4xx
               \/ have # NoFile /\ UNCHANGED staging          \* 5xx
            /\ End(t, "download") /\ Fault
  /\ UNCHANGED <<server, mode, installed, pico, elf, failed>>

\* A block arrives, or the connection dies and the partial stays for a resume.
DownloadCopy(t, c) ==
  /\ task[t].pc = CopyPc[c] /\ Len(task[t].seen) < Blocks
  /\ \/ /\ SetPartial(c, [Partial(c) EXCEPT !.file = Append(Partial(c).file, task[t].rel[c])])
        /\ task' = [task EXCEPT ![t].seen = Append(@, task[t].rel[c])]
        /\ Fine /\ UNCHANGED daemon
     \/ End(t, "download") /\ Fault /\ UNCHANGED staging
  /\ UNCHANGED <<server, mode, installed, pico, elf, failed>>

\* The digest of what was read decides between the rename and a fresh start.
DownloadDone(t, c) ==
  /\ task[t].pc = CopyPc[c] /\ Len(task[t].seen) = Blocks
  /\ IF task[t].seen = Whole(task[t].rel[c])
       THEN /\ staging' = [staging EXCEPT ![c] = [partial |-> NoPartial,
                                                  staged |-> Partial(c).file]]
            /\ Goto(t, IF c = "fw" THEN "apply" ELSE "install")
            /\ UNCHANGED daemon
       ELSE SetPartial(c, NoPartial) /\ End(t, "digest")
  /\ UNCHANGED <<server, mode, installed, pico, elf, left, failed>>

-----------------------------------------------------------------------------
(* Flashing and installing.                                                *)

\* POST /flash of the developer's page takes the same lock.
DevUpload(t) ==
  /\ Free(t) /\ daemon.probe = "yes" /\ Spend("acts")
  /\ Spawn(t, "dev", "lock", NoPush)
  /\ UNCHANGED <<server, mode, disk, daemon, failed>>

\* ApplyFirmwareUpdate, FlashFunc: the file moves to firmware.elf and openocd
\* begins to program the chip, which cannot boot meanwhile.
ApplyFirmwareUpdate(t) ==
  /\ task[t].pc = "apply"
  /\ IF task[t].kind = "dev"
       THEN elf' = Whole(Dev) /\ UNCHANGED staging
       ELSE elf' = staging["fw"].staged /\ staging' = [staging EXCEPT !["fw"].staged = NoFile]
  /\ pico' = None
  /\ Goto(t, "flash")
  /\ UNCHANGED <<server, mode, installed, daemon, left, failed>>

\* What the Pico runs once firmware.elf is written to it.
Flashed == IF Genuine(elf) THEN elf[1] ELSE None

\* The script ends; an update run then asks the Pico for its version.
FlashDone(t) ==
  /\ task[t].pc = "flash"
  /\ \/ /\ pico' = Flashed /\ failed' = FALSE /\ Fine
        /\ IF task[t].kind = "dev"
             THEN /\ task' = [task EXCEPT ![t] = Idle]
                  /\ daemon' = [daemon EXCEPT !.lock = FALSE, !.fwVer = Flashed]
             ELSE Goto(t, "verify") /\ UNCHANGED daemon
     \/ /\ End(t, "flash") /\ failed' = TRUE /\ Fault /\ UNCHANGED pico
  /\ UNCHANGED <<server, mode, installed, elf, staging>>

\* verifyFirmware: the version has to be the target's; the main loop learns it.
VerifyFirmware(t) ==
  /\ task[t].pc = "verify"
  /\ \/ /\ pico = task[t].rel.fw /\ Fine
        /\ IF task[t].rel.pi # None
             THEN Goto(t, "openPi") /\ daemon' = [daemon EXCEPT !.fwVer = pico]
             ELSE /\ task' = [task EXCEPT ![t] = Idle]
                  /\ daemon' = [daemon EXCEPT !.lock = FALSE, !.fwVer = pico,
                        !.pushed = IF task[t].kind = "auto" THEN NoPush ELSE @]
     \/ pico = task[t].rel.fw /\ End(t, "verify") /\ Fault
     \/ pico # task[t].rel.fw /\ End(t, "verify") /\ Fine
  /\ UNCHANGED <<server, mode, disk, failed>>

\* ApplyPiUpdate: copy, rename, exit; systemd starts the new binary.
ApplyPiUpdate(t) ==
  /\ task[t].pc = "install"
  /\ \/ /\ installed' = staging["pi"].staged[1]
        /\ staging' = [staging EXCEPT !["pi"].staged = NoFile]
        /\ mode' = "post" /\ inbox' = <<>>
        /\ daemon' = Boot(installed') /\ task' = [s \in Slots |-> Idle]
        /\ Fine
     \/ /\ End(t, "install") /\ Fault
        /\ UNCHANGED <<installed, staging, mode, inbox>>
  /\ UNCHANGED <<published, index, pico, elf, failed>>

-----------------------------------------------------------------------------
(* Power and start-up.                                                     *)

PowerCut ==
  /\ mode # "off" /\ Fault
  /\ mode' = "off" /\ inbox' = <<>>
  /\ daemon' = Boot(installed) /\ task' = [t \in Slots |-> Idle]
  /\ UNCHANGED <<published, index, disk, failed>>

PowerOn ==
  /\ mode = "off" /\ mode' = "post"
  /\ UNCHANGED <<server, disk, daemon, task, left, failed>>

FirmwareNeedsReflash == pico # None /\ pico # Bundled

\* Mutant: only a Pico that answers with another version is flashed.
MutSilentPicoPasses ==
  /\ mode = "post"
  /\ IF FirmwareNeedsReflash
       THEN mode' = "reflash" /\ pico' = None /\ UNCHANGED daemon
       ELSE mode' = "up" /\ daemon' = [daemon EXCEPT !.fwVer = pico] /\ UNCHANGED pico
  /\ UNCHANGED <<server, installed, elf, staging, task, left, failed>>

\* POST: a Pico that does not answer, or that says it does not run what the
\* image bundled, is flashed from firmware.elf.  One that answers may yet fail
\* to tell its version.
Post ==
  /\ mode = "post"
  /\ \/ mode' = "up" /\ pico # None /\ Fault /\ UNCHANGED <<pico, daemon>>
     \/ /\ Fine /\ daemon' = [daemon EXCEPT !.fwVer = pico]
        /\ IF pico = None \/ FirmwareNeedsReflash THEN mode' = "reflash" /\ pico' = None
                                                  ELSE mode' = "up" /\ UNCHANGED pico
  /\ UNCHANGED <<server, installed, elf, staging, task, failed>>

\* The version is asked for again; the daemon goes on without a Pico if the
\* flash fails, and keeps the version it was told before.
ReflashPico ==
  /\ mode = "reflash" /\ mode' = "up"
  /\ \/ /\ pico' = Flashed /\ failed' = FALSE
        /\ \/ daemon' = [daemon EXCEPT !.fwVer = pico'] /\ Fine
           \/ daemon' = [daemon EXCEPT !.fwVer = None] /\ Fault
     \/ UNCHANGED <<pico, daemon>> /\ failed' = TRUE /\ Fault
  /\ UNCHANGED <<server, installed, elf, staging, task>>

-----------------------------------------------------------------------------
Server ==
  \/ \E c \in Components : Publish(c)
  \/ \E r \in Replicas : Refresh(r)
  \/ UpdateTrigger(None, None)
  \/ \E v \in Versions : UpdateTrigger(v, None) \/ UpdateTrigger(None, v)

Starts(t) ==
  \/ OnTrigger(t) \/ OnRelease(t) \/ OnUpdateCode(t) \/ StartupCheck(t)
  \/ HangupCall(t) \/ DevUpload(t)

Run(t) ==
  \/ RunAutoUpdate(t) \/ RunTargetedUpdate(t) \/ CheckVersion(t) \/ PlanFirmware(t)
  \/ \E c \in Components : DownloadOpen(t, c) \/ DownloadCopy(t, c) \/ DownloadDone(t, c)
  \/ ApplyFirmwareUpdate(t) \/ FlashDone(t) \/ VerifyFirmware(t) \/ ApplyPiUpdate(t)

Next ==
  \/ Server \/ SwdProbe \/ CallBegins \/ ForbidAutoUpdate
  \/ PowerCut \/ PowerOn \/ Post \/ ReflashPico
  \/ \E t \in Slots : Starts(t) \/ Run(t)

Spec == Init /\ [][Next]_vars

-----------------------------------------------------------------------------
Targets == Versions \cup {None}
Firmware == Targets \cup {Dev}          \* what a Pico can report
Files == Seq(Versions \cup {Dev})
Releases == [Components -> Targets]     \* a version per component, or none
Messages == [type : {"release", "trigger"}, pi : Targets, fw : Targets]
Downloads == [partial : [marker : Targets, file : Files], staged : Files]
Daemon == [running : Versions, fwVer : Firmware, probe : {"running", "yes", "no"},
           lock : BOOLEAN, pending : BOOLEAN, pushed : Releases, allowed : BOOLEAN,
           inCall : BOOLEAN, startup : BOOLEAN]
PCs == {"idle", "auto", "lock", "check", "firmware", "openFw", "copyFw", "apply", "flash",
        "verify", "openPi", "copyPi", "install"}
Task == [pc : PCs, kind : {"", "server", "auto", "code", "dev"}, target : Releases,
         fwVer : Firmware, can : BOOLEAN, rel : Releases, seen : Files, tries : 0..MaxRetries]

\* Types: the files, the daemon's memory and the state of every run (updater.go,
\* main.go) stay in the sets above; a release to move to is one that GitHub has.
TypeOK ==
  /\ published \in [Components -> Versions]
  /\ index \in [Replicas -> [Components -> Versions]]
  /\ inbox \in Seq(Messages)
  /\ mode \in {"off", "post", "reflash", "up"}
  /\ installed \in Versions /\ pico \in Firmware /\ elf \in Files
  /\ staging \in [Components -> Downloads]
  /\ daemon \in Daemon
  /\ task \in [Slots -> Task]
  /\ left \in [{"faults", "acts"} -> Nat]
  /\ failed \in BOOLEAN

\* Whatever is staged, flashed or bundled is one release from its first block to
\* its last, across interrupted and resumed downloads and new releases in
\* between (Download, updateInProgress).
GenuineArtifacts ==
  /\ Genuine(elf)
  /\ \A c \in Components : staging[c].staged = NoFile \/ Genuine(staging[c].staged)

\* The Pi binary goes back to an older version only on a run with an explicit
\* target, even when the check meets a replica with a stale index
\* (resolveTargetRelease: "Implicit 'latest' must never move a device backward").
LatestNeverDowngrades ==
  [][installed' < installed =>
       \E t \in Slots : task[t].pc = "install" /\ task[t].target.pi # None]_vars

\* Once the daemon is up and nothing is being flashed, the Pico boots, unless
\* the last flash failed: a power cut in the middle of one is repaired at the
\* next start (POST, reflashPico).
PowerCutIsRepaired ==
  mode = "up" /\ pico = None =>
    failed \/ \E t \in Slots : task[t].pc = "flash"
=============================================================================
