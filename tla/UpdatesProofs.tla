----------------------------- MODULE UpdatesProofs -----------------------------
(***************************************************************************)
(* Proofs about Updates, for every number of replicas, runs, versions and  *)
(* blocks: no file is a mixture of releases, a run for the latest release  *)
(* never downgrades, and a power cut during a flash is repaired.           *)
(* And about Deploy: what the server's state file says of its containers.  *)
(***************************************************************************)
EXTENDS Renewal, SequenceTheorems, WellFoundedInduction, TLAPS

(***************************************************************************)
(* The inductive invariant.  The lock (updateInProgress) makes the runs    *)
(* that are past it one at a time, so what such a run knows about the      *)
(* files, the release it moves to and the installed version stays true     *)
(* from step to step.  TaskOK says what that is, of a run k, the staging   *)
(* directory st and the installed version ins.                             *)
(***************************************************************************)
Unlocked == {"idle", "auto", "lock"}
DevPCs == {"lock", "apply", "flash"}       \* a developer's upload only flashes
Resolved == {"firmware", "openFw", "copyFw", "apply", "flash", "verify",
             "openPi", "copyPi", "install"}

TaskOK(k, st, ins) ==
  /\ k.kind = "dev" => k.pc \in DevPCs
  /\ k.pc \in Resolved /\ k.kind # "dev" /\ k.target["pi"] = None =>
       k.rel["pi"] = None \/ k.rel["pi"] > ins
  /\ \A c \in Components : k.pc \in {OpenPc[c], CopyPc[c]} => k.rel[c] # None
  /\ \A c \in Components : k.pc = CopyPc[c] => k.seen = st[c].partial.file
  /\ k.pc = "apply" /\ k.kind # "dev" => Genuine(st["fw"].staged)
  /\ k.pc = "install" => st["pi"].staged = Whole(k.rel["pi"]) /\ k.rel["pi"] # None

TasksOK == \A t \in Slots : TaskOK(task[t], staging, installed)

LockHeld ==
  \A t \in Slots : task[t].pc \notin Unlocked =>
    daemon.lock /\ \A u \in Slots \ {t} : task[u].pc \in Unlocked

IInv ==
  /\ TypeOK /\ TasksOK /\ LockHeld /\ GenuineArtifacts /\ PowerCutIsRepaired
  /\ daemon.running = installed

USE SizeAssumption, BoundsAssumption
-----------------------------------------------------------------------------
(* Types.                                                                  *)

LEMMA FileTypes ==
  /\ NoFile \in Files
  /\ \A v \in Versions \cup {Dev} : Whole(v) \in Files /\ Whole(v)[1] = v /\ Whole(v) # NoFile
  /\ \A f \in Files, v \in Versions : Append(f, v) \in Files
  <1>1. NoFile \in Files BY DEF NoFile, Files
  <1>2. ASSUME NEW v \in Versions \cup {Dev}
        PROVE  Whole(v) \in Files /\ Whole(v)[1] = v /\ Whole(v) # NoFile
    <2>1. Whole(v) \in [1..Blocks -> Versions \cup {Dev}] BY DEF Whole
    <2>2. Whole(v) \in Files BY <2>1, SeqDef DEF Files
    <2>3. 1 \in 1..Blocks OBVIOUS
    <2>4. Whole(v)[1] = v BY <2>3 DEF Whole
    <2>5. DOMAIN Whole(v) = 1..Blocks BY DEF Whole
    <2>6. Whole(v) # NoFile BY <2>3, <2>5 DEF NoFile
    <2> QED BY <2>2, <2>4, <2>6
  <1>3. ASSUME NEW f \in Files, NEW v \in Versions PROVE Append(f, v) \in Files
    BY AppendProperties DEF Files
  <1> QED BY <1>1, <1>2, <1>3

LEMMA VersionTypes ==
  /\ \A v \in Versions : v \in Nat /\ v # None /\ v <= MaxVersion
  /\ None \in Targets /\ Versions \subseteq Targets /\ Targets \subseteq Firmware
  /\ NoPush \in Releases /\ \A c \in Components : NoPush[c] = None
  /\ \A a, b \in Targets : [pi |-> a, fw |-> b] \in Releases
  BY DEF Versions, None, Targets, Firmware, NoPush, Releases, Components

LEMMA IdleType == Idle \in Task
  BY VersionTypes, FileTypes DEF Idle, Task, PCs, Firmware, Targets, None

LEMMA TaskField ==
  ASSUME NEW k \in Task
  PROVE  /\ \A pc \in PCs : [k EXCEPT !.pc = pc] \in Task
         /\ \A x \in {"", "server", "auto", "code", "dev"} : [k EXCEPT !.kind = x] \in Task
         /\ \A r \in Releases : [k EXCEPT !.target = r] \in Task
         /\ \A v \in Firmware : [k EXCEPT !.fwVer = v] \in Task
         /\ \A b \in BOOLEAN : [k EXCEPT !.can = b] \in Task
         /\ \A r \in Releases : [k EXCEPT !.rel = r] \in Task
         /\ \A f \in Files : [k EXCEPT !.seen = f] \in Task
         /\ \A n \in 0..MaxRetries : [k EXCEPT !.tries = n] \in Task
  <1>1. \A pc \in PCs : [k EXCEPT !.pc = pc] \in Task BY DEF Task
  <1>2. \A x \in {"", "server", "auto", "code", "dev"} : [k EXCEPT !.kind = x] \in Task BY DEF Task
  <1>3. \A r \in Releases : [k EXCEPT !.target = r] \in Task BY DEF Task
  <1>4. \A v \in Firmware : [k EXCEPT !.fwVer = v] \in Task BY DEF Task
  <1>5. \A b \in BOOLEAN : [k EXCEPT !.can = b] \in Task BY DEF Task
  <1>6. \A r \in Releases : [k EXCEPT !.rel = r] \in Task BY DEF Task
  <1>7. \A f \in Files : [k EXCEPT !.seen = f] \in Task BY DEF Task
  <1>8. \A n \in 0..MaxRetries : [k EXCEPT !.tries = n] \in Task BY DEF Task
  <1> QED BY <1>1, <1>2, <1>3, <1>4, <1>5, <1>6, <1>7, <1>8

LEMMA DaemonField ==
  ASSUME NEW d \in Daemon
  PROVE  /\ \A v \in Firmware : [d EXCEPT !.fwVer = v] \in Daemon
         /\ \A x \in {"running", "yes", "no"} : [d EXCEPT !.probe = x] \in Daemon
         /\ \A b \in BOOLEAN : /\ [d EXCEPT !.lock = b] \in Daemon
                               /\ [d EXCEPT !.pending = b] \in Daemon
                               /\ [d EXCEPT !.allowed = b] \in Daemon
                               /\ [d EXCEPT !.inCall = b] \in Daemon
                               /\ [d EXCEPT !.startup = b] \in Daemon
         /\ \A r \in Releases : [d EXCEPT !.pushed = r] \in Daemon
  <1>1. \A v \in Firmware : [d EXCEPT !.fwVer = v] \in Daemon BY DEF Daemon
  <1>2. \A x \in {"running", "yes", "no"} : [d EXCEPT !.probe = x] \in Daemon BY DEF Daemon
  <1>3. \A b \in BOOLEAN : [d EXCEPT !.lock = b] \in Daemon BY DEF Daemon
  <1>4. \A b \in BOOLEAN : [d EXCEPT !.pending = b] \in Daemon BY DEF Daemon
  <1>5. \A b \in BOOLEAN : [d EXCEPT !.allowed = b] \in Daemon BY DEF Daemon
  <1>6. \A b \in BOOLEAN : [d EXCEPT !.inCall = b] \in Daemon BY DEF Daemon
  <1>7. \A b \in BOOLEAN : [d EXCEPT !.startup = b] \in Daemon BY DEF Daemon
  <1>8. \A r \in Releases : [d EXCEPT !.pushed = r] \in Daemon BY DEF Daemon
  <1> QED BY <1>1, <1>2, <1>3, <1>4, <1>5, <1>6, <1>7, <1>8

LEMMA BootType ==
  \A v \in Versions : Boot(v) \in Daemon /\ Boot(v).running = v /\ Boot(v).lock = FALSE
  BY VersionTypes DEF Boot, Daemon, Firmware, Targets

LEMMA BudgetType ==
  ASSUME left \in [{"faults", "acts"} -> Nat], Fine \/ Fault \/ Spend("acts")
  PROVE  left' \in [{"faults", "acts"} -> Nat]
  BY DEF Fine, Fault, Spend

LEMMA MessageTypes ==
  ASSUME inbox \in Seq(Messages), inbox # <<>>
  PROVE  /\ Head(inbox).pi \in Targets /\ Head(inbox).fw \in Targets
         /\ [pi |-> Head(inbox).pi, fw |-> Head(inbox).fw] \in Releases
         /\ Tail(inbox) \in Seq(Messages)
  <1>1. Head(inbox) \in Messages /\ Tail(inbox) \in Seq(Messages) BY HeadTailProperties
  <1>2. Head(inbox).pi \in Targets /\ Head(inbox).fw \in Targets BY <1>1 DEF Messages
  <1> QED BY <1>1, <1>2, VersionTypes

-----------------------------------------------------------------------------
(* Lemmas about the invariant.                                             *)

(* A run that is not past the lock relies on nothing.                      *)
LEMMA WaitingJob ==
  ASSUME NEW k, k.pc \in Unlocked, k.kind = "dev" => k.pc = "lock", NEW st, NEW ins
  PROVE  TaskOK(k, st, ins)
  BY DEF TaskOK, Unlocked, DevPCs, Resolved, OpenPc, CopyPc, Components

(* The run in slot t goes on as k; only one that is past the lock touches  *)
(* the staging directory.                                                  *)
LEMMA RunStep ==
  ASSUME IInv, NEW t \in Slots, NEW k \in Task, task' = [task EXCEPT ![t] = k],
         TaskOK(k, staging', installed),
         daemon' \in Daemon, daemon'.running = daemon.running,
         daemon'.lock = daemon.lock \/ task[t].pc \notin Unlocked \/ k.pc \notin Unlocked,
         k.pc \notin Unlocked => daemon'.lock /\ (task[t].pc \notin Unlocked \/ ~daemon.lock),
         staging' \in [Components -> Downloads],
         staging' = staging \/ task[t].pc \notin Unlocked,
         GenuineArtifacts', PowerCutIsRepaired',
         pico' \in Firmware, elf' \in Files, failed' \in BOOLEAN, inbox' \in Seq(Messages),
         Fine \/ Fault \/ Spend("acts"),
         UNCHANGED <<published, index, mode, installed>>
  PROVE  IInv'
  <1>1. TypeOK BY DEF IInv
  <1>2. /\ task' \in [Slots -> Task] /\ task'[t] = k
        /\ \A u \in Slots \ {t} : task'[u] = task[u]
    BY <1>1 DEF TypeOK
  <1>3. TypeOK' BY <1>1, <1>2, BudgetType DEF TypeOK
  <1>4. TasksOK'
    <2> SUFFICES ASSUME NEW u \in Slots PROVE TaskOK(task'[u], staging', installed)
      BY DEF TasksOK
    <2>1. CASE u = t BY <1>2, <2>1
    <2>2. CASE u # t
      <3>1. task'[u] = task[u] /\ TaskOK(task[u], staging, installed) BY <1>2, <2>2 DEF IInv, TasksOK
      <3>2. CASE staging' = staging BY <3>1, <3>2
      <3>3. CASE task[t].pc \notin Unlocked
        <4>1. task[u].pc \in Unlocked BY <2>2, <3>3 DEF IInv, LockHeld
        <4>2. task[u].kind = "dev" => task[u].pc = "lock"
          BY <3>1, <4>1 DEF TaskOK, DevPCs, Unlocked
        <4> QED BY <3>1, <4>1, <4>2, WaitingJob
      <3> QED BY <3>2, <3>3
    <2> QED BY <2>1, <2>2
  <1>5. LockHeld'
    <2> SUFFICES ASSUME NEW u \in Slots, task'[u].pc \notin Unlocked
                 PROVE  daemon'.lock /\ \A w \in Slots \ {u} : task'[w].pc \in Unlocked
      BY DEF LockHeld
    <2>1. CASE u = t
      <3>1. \A w \in Slots \ {t} : task[w].pc \in Unlocked
        BY <1>2, <2>1 DEF IInv, LockHeld
      <3> QED BY <1>2, <2>1, <3>1
    <2>2. CASE u # t
      <3>1. /\ task[u].pc \notin Unlocked /\ daemon.lock
            /\ \A w \in Slots \ {u} : task[w].pc \in Unlocked
        BY <1>2, <2>2 DEF IInv, LockHeld
      <3>2. task[t].pc \in Unlocked /\ k.pc \in Unlocked BY <2>2, <3>1
      <3> QED BY <1>2, <3>1, <3>2
    <2> QED BY <2>1, <2>2
  <1> QED BY <1>3, <1>4, <1>5 DEF IInv

(* A step of a run that is not flashing, and that leaves the Pico, the     *)
(* firmware to flash and the staged files alone.                           *)
LEMMA QuietStep ==
  ASSUME IInv, NEW t \in Slots, NEW k \in Task, task' = [task EXCEPT ![t] = k],
         task[t].pc # "flash",
         TaskOK(k, staging', installed),
         daemon' \in Daemon, daemon'.running = daemon.running,
         daemon'.lock = daemon.lock \/ task[t].pc \notin Unlocked \/ k.pc \notin Unlocked,
         k.pc \notin Unlocked => daemon'.lock /\ (task[t].pc \notin Unlocked \/ ~daemon.lock),
         staging' \in [Components -> Downloads],
         staging' = staging \/ task[t].pc \notin Unlocked,
         \A c \in Components : staging'[c].staged \in {staging[c].staged, NoFile}
                                 \/ Genuine(staging'[c].staged),
         inbox' \in Seq(Messages), Fine \/ Fault \/ Spend("acts"),
         UNCHANGED <<published, index, mode, installed, pico, elf, failed>>
  PROVE  IInv'
  <1>1. TypeOK BY DEF IInv
  <1>2. GenuineArtifacts'
    <2>1. Genuine(elf') BY DEF IInv, GenuineArtifacts
    <2>2. \A c \in Components : staging'[c].staged = NoFile \/ Genuine(staging'[c].staged)
      BY DEF IInv, GenuineArtifacts
    <2> QED BY <2>1, <2>2 DEF GenuineArtifacts, Genuine
  <1>3. PowerCutIsRepaired'
    <2> SUFFICES ASSUME mode = "up", pico = None, ~failed
                 PROVE  \E u \in Slots : task'[u].pc = "flash"
      BY DEF PowerCutIsRepaired
    <2>1. PICK u \in Slots : task[u].pc = "flash" BY DEF IInv, PowerCutIsRepaired
    <2> QED BY <1>1, <2>1 DEF TypeOK
  <1>4. pico' \in Firmware /\ elf' \in Files /\ failed' \in BOOLEAN BY <1>1 DEF TypeOK
  <1> QED BY <1>2, <1>3, <1>4, RunStep

(* A step that moves no run.                                               *)
LEMMA CalmStep ==
  ASSUME IInv, TypeOK', UNCHANGED <<task, staging, elf, installed>>,
         daemon'.running = daemon.running, daemon'.lock = daemon.lock,
         PowerCutIsRepaired'
  PROVE  IInv'
  BY DEF IInv, TasksOK, LockHeld, GenuineArtifacts

(* How a run ends: its slot is free, or it waits for the lock again.       *)
LEMMA EndStep ==
  ASSUME TypeOK, NEW t \in Slots, NEW err, End(t, err)
  PROVE  /\ \E k \in Task : /\ task' = [task EXCEPT ![t] = k] /\ k.pc \in Unlocked
                            /\ k.kind # "dev"
         /\ daemon' \in Daemon /\ daemon'.running = daemon.running
  <1> DEFINE k0 == task[t]
             again == k0.kind = "auto" /\ err = "notIndexed" /\ k0.tries < MaxRetries
             more == [k0 EXCEPT !.pc = "lock", !.tries = @ + 1]
             pushed2 == IF k0.kind = "auto" /\ err = "" THEN NoPush ELSE daemon.pushed
             d == [daemon EXCEPT !.lock = FALSE, !.pushed = pushed2]
  <1>1. k0 \in Task /\ daemon \in Daemon BY DEF TypeOK
  <1>2. d \in Daemon /\ d.running = daemon.running /\ daemon' = d
    <2>1. pushed2 \in Releases BY <1>1, VersionTypes DEF Daemon
    <2>2. daemon' = d BY DEF End
    <2> HIDE DEF pushed2
    <2>3. [daemon EXCEPT !.lock = FALSE] \in Daemon BY <1>1, DaemonField
    <2>4. [[daemon EXCEPT !.lock = FALSE] EXCEPT !.pushed = pushed2] \in Daemon
      BY <2>1, <2>3, DaemonField
    <2>5. d.running = daemon.running BY <1>1 DEF Daemon
    <2> QED BY <2>2, <2>4, <2>5
  <1>3. CASE again
    <2>1. task' = [task EXCEPT ![t] = more] BY <1>3 DEF End
    <2>2. k0.tries + 1 \in 0..MaxRetries
      <3>1. k0.tries \in 0..MaxRetries BY <1>1 DEF Task
      <3>2. k0.tries < MaxRetries BY <1>3
      <3> HIDE DEF k0
      <3> QED BY <3>1, <3>2
    <2>3. more \in Task
      <3> HIDE DEF k0
      <3>1. [k0 EXCEPT !.pc = "lock"] \in Task BY <1>1, TaskField DEF PCs
      <3>2. [[k0 EXCEPT !.pc = "lock"] EXCEPT !.tries = k0.tries + 1] \in Task
        BY <2>2, <3>1, TaskField
      <3> QED BY <3>2
    <2>4. more.pc = "lock" /\ more.kind = k0.kind BY <1>1 DEF Task
    <2> HIDE DEF more
    <2> QED BY <1>3, <2>1, <2>3, <2>4, <1>2 DEF Unlocked
  <1>4. CASE ~again
    <2>1. task' = [task EXCEPT ![t] = Idle] BY <1>4 DEF End
    <2>2. Idle.pc = "idle" /\ Idle.kind = "" BY DEF Idle
    <2> QED BY <1>2, <2>1, <2>2, IdleType DEF Unlocked
  <1> QED BY <1>3, <1>4

-----------------------------------------------------------------------------
(* What starts a run.                                                      *)

LEMMA SpawnedType ==
  ASSUME TypeOK, NEW kind \in {"server", "auto", "code", "dev"}, NEW pc \in PCs,
         NEW target \in Releases
  PROVE  /\ Spawned(kind, pc, target) \in Task
         /\ Spawned(kind, pc, target).pc = pc /\ Spawned(kind, pc, target).kind = kind
  <1> DEFINE can == (daemon.probe = "yes")
  <1>1. daemon.fwVer \in Firmware /\ can \in BOOLEAN BY DEF TypeOK, Daemon
  <1>2. [Idle EXCEPT !.kind = kind] \in Task BY IdleType, TaskField
  <1>3. [[Idle EXCEPT !.kind = kind] EXCEPT !.pc = pc] \in Task BY <1>2, TaskField
  <1>4. [[[Idle EXCEPT !.kind = kind] EXCEPT !.pc = pc] EXCEPT !.target = target] \in Task
    BY <1>3, TaskField
  <1>5. [[[[Idle EXCEPT !.kind = kind] EXCEPT !.pc = pc] EXCEPT !.target = target]
           EXCEPT !.fwVer = daemon.fwVer] \in Task
    BY <1>1, <1>4, TaskField
  <1> HIDE DEF can
  <1>6. [[[[[Idle EXCEPT !.kind = kind] EXCEPT !.pc = pc] EXCEPT !.target = target]
           EXCEPT !.fwVer = daemon.fwVer] EXCEPT !.can = can] \in Task
    BY <1>1, <1>5, TaskField
  <1>7. Spawned(kind, pc, target) \in Task BY <1>6 DEF Spawned, can
  <1>8. Spawned(kind, pc, target).pc = pc /\ Spawned(kind, pc, target).kind = kind
    BY DEF Spawned, Idle
  <1> QED BY <1>7, <1>8

LEMMA StartsInv ==
  ASSUME IInv, NEW t \in Slots, Starts(t)
  PROVE  IInv'
  <1>1. TypeOK /\ task[t] \in Task /\ daemon \in Daemon /\ TaskOK(task[t], staging, installed)
    BY DEF IInv, TypeOK, TasksOK
  <1>2. task[t].pc = "idle" /\ UNCHANGED <<published, index, mode, disk, failed>>
    BY DEF Starts, Free, OnTrigger, OnRelease, OnUpdateCode, StartupCheck, HangupCall, DevUpload, server
  <1>3. \A c \in Components : staging[c].staged \in {staging[c].staged, NoFile} OBVIOUS
  <1>4. ASSUME NEW k \in Task, task' = [task EXCEPT ![t] = k],
               k.pc \in Unlocked, k.kind = "dev" => k.pc = "lock",
               daemon' \in Daemon, daemon'.running = daemon.running, daemon'.lock = daemon.lock,
               inbox' \in Seq(Messages), Fine \/ Fault \/ Spend("acts")
        PROVE  IInv'
    <2>1. TaskOK(k, staging', installed) BY <1>4, WaitingJob
    <2>2. staging' \in [Components -> Downloads] BY <1>1, <1>2 DEF TypeOK, disk
    <2> QED BY <1>2, <1>3, <1>4, <2>1, <2>2, QuietStep DEF disk
  <1>5. ASSUME NEW kind \in {"server", "auto", "code", "dev"}, NEW pc \in {"auto", "lock"},
               NEW target \in Releases, kind = "dev" => pc = "lock",
               Spawn(t, kind, pc, target) \/ UNCHANGED task,
               daemon' \in Daemon, daemon'.running = daemon.running, daemon'.lock = daemon.lock,
               inbox' \in Seq(Messages), Fine \/ Fault \/ Spend("acts")
        PROVE  IInv'
    <2>1. CASE Spawn(t, kind, pc, target)
      <3> DEFINE k == Spawned(kind, pc, target)
      <3>1. k \in Task /\ k.pc = pc /\ k.kind = kind BY <1>1, <1>5, SpawnedType DEF PCs
      <3>2. task' = [task EXCEPT ![t] = k] BY <2>1 DEF Spawn
      <3> HIDE DEF k
      <3> QED BY <1>4, <1>5, <3>1, <3>2 DEF Unlocked
    <2>2. CASE UNCHANGED task
      <3>1. task' = [task EXCEPT ![t] = task[t]] BY <1>1, <2>2 DEF TypeOK
      <3>2. task[t].kind # "dev" BY <1>1, <1>2 DEF TaskOK, DevPCs
      <3> QED BY <1>1, <1>2, <1>4, <1>5, <3>1, <3>2 DEF Unlocked
    <2> QED BY <1>5, <2>1, <2>2
  <1>6. inbox \in Seq(Messages) /\ NoPush \in Releases BY <1>1, VersionTypes DEF TypeOK
  <1>7. CASE OnTrigger(t)
    <2> DEFINE target == [pi |-> Head(inbox).pi, fw |-> Head(inbox).fw]
    <2>1. target \in Releases /\ Tail(inbox) \in Seq(Messages)
      BY <1>6, <1>7, MessageTypes DEF OnTrigger
    <2>2. Spawn(t, "server", "lock", target) /\ inbox' = Tail(inbox) /\ UNCHANGED <<daemon, left>>
      BY <1>7 DEF OnTrigger
    <2> HIDE DEF target
    <2> QED BY <1>1, <1>5, <2>1, <2>2 DEF Fine
  <1>8. CASE OnRelease(t)
    <2> DEFINE release == [pi |-> Head(inbox).pi, fw |-> Head(inbox).fw]
               d == [daemon EXCEPT !.pushed = release]
    <2>1. release \in Releases /\ Tail(inbox) \in Seq(Messages)
      BY <1>6, <1>8, MessageTypes DEF OnRelease
    <2>2. /\ Spawn(t, "auto", "auto", NoPush) \/ UNCHANGED task
          /\ inbox' = Tail(inbox) /\ daemon' = d /\ UNCHANGED left
      BY <1>8 DEF OnRelease
    <2> HIDE DEF release
    <2>3. d \in Daemon BY <1>1, <2>1, DaemonField
    <2>4. d.running = daemon.running /\ d.lock = daemon.lock BY <1>1 DEF Daemon
    <2> HIDE DEF d
    <2> QED BY <1>5, <1>6, <2>1, <2>2, <2>3, <2>4 DEF Fine
  <1>9. CASE OnUpdateCode(t)
    <2>1. Spawn(t, "code", "lock", NoPush) /\ UNCHANGED <<daemon, inbox>> /\ Spend("acts")
      BY <1>9 DEF OnUpdateCode, server
    <2> QED BY <1>1, <1>5, <1>6, <2>1
  <1>10. CASE StartupCheck(t)
    <2> DEFINE d == [daemon EXCEPT !.startup = FALSE]
    <2>1. /\ Spawn(t, "auto", "auto", NoPush) \/ UNCHANGED task
          /\ daemon' = d /\ (Fault \/ Fine) /\ UNCHANGED inbox
      BY <1>10 DEF StartupCheck, server
    <2>2. d \in Daemon BY <1>1, DaemonField
    <2>3. d.running = daemon.running /\ d.lock = daemon.lock BY <1>1 DEF Daemon
    <2> HIDE DEF d
    <2> QED BY <1>5, <1>6, <2>1, <2>2, <2>3
  <1>11. CASE HangupCall(t)
    <2> DEFINE d == [daemon EXCEPT !.inCall = FALSE, !.pending = FALSE]
    <2>1. /\ Spawn(t, "auto", "auto", NoPush) \/ UNCHANGED task
          /\ daemon' = d /\ UNCHANGED <<inbox, left>>
      BY <1>11 DEF HangupCall, server
    <2>2. d \in Daemon
      <3>1. [daemon EXCEPT !.inCall = FALSE] \in Daemon BY <1>1, DaemonField
      <3>2. [[daemon EXCEPT !.inCall = FALSE] EXCEPT !.pending = FALSE] \in Daemon
        BY <3>1, DaemonField
      <3> QED BY <3>2
    <2>3. d.running = daemon.running /\ d.lock = daemon.lock BY <1>1 DEF Daemon
    <2> HIDE DEF d
    <2> QED BY <1>5, <1>6, <2>1, <2>2, <2>3 DEF Fine
  <1>12. CASE DevUpload(t)
    <2>1. Spawn(t, "dev", "lock", NoPush) /\ UNCHANGED <<daemon, inbox>> /\ Spend("acts")
      BY <1>12 DEF DevUpload, server
    <2> QED BY <1>1, <1>5, <1>6, <2>1
  <1> QED BY <1>7, <1>8, <1>9, <1>10, <1>11, <1>12 DEF Starts

-----------------------------------------------------------------------------
(* The steps of a run.                                                     *)

(* What a check may find: a release GitHub has, nothing, or a target that  *)
(* is not listed; without a target, never an older release.                *)
LEMMA ReleaseFound ==
  ASSUME NEW target \in Targets, NEW current \in Firmware, NEW latest \in Versions
  PROVE  LET r == ResolveTargetRelease(target, current, latest)
         IN  /\ r \in Targets \cup {NotListed}
             /\ target = None /\ current \in Versions /\ r \notin {None, NotListed} =>
                  r > current
  <1>1. CASE target = None /\ ~VersionIsNewer(latest, current)
    BY <1>1 DEF ResolveTargetRelease, Targets
  <1>2. CASE target = None /\ VersionIsNewer(latest, current)
    BY <1>2 DEF ResolveTargetRelease, VersionIsNewer, Targets
  <1>3. CASE target # None
    BY <1>3 DEF ResolveTargetRelease, Targets
  <1> QED BY <1>1, <1>2, <1>3

(* A run that fails, or has nothing to do, leaves the files as they are.   *)
LEMMA EndInv ==
  ASSUME IInv, NEW t \in Slots, NEW err, End(t, err),
         task[t].pc \notin Unlocked, task[t].pc # "flash",
         staging' \in [Components -> Downloads],
         \A c \in Components : staging'[c].staged \in {staging[c].staged, NoFile}
                                 \/ Genuine(staging'[c].staged),
         Fine \/ Fault,
         UNCHANGED <<published, index, inbox, mode, installed, pico, elf, failed>>
  PROVE  IInv'
  <1>1. TypeOK BY DEF IInv
  <1>2. PICK k \in Task : /\ task' = [task EXCEPT ![t] = k] /\ k.pc \in Unlocked
                          /\ k.kind # "dev"
    BY <1>1, EndStep
  <1>3. daemon' \in Daemon /\ daemon'.running = daemon.running BY <1>1, EndStep
  <1>4. TaskOK(k, staging', installed) BY <1>2, WaitingJob
  <1>5. inbox' \in Seq(Messages) BY <1>1 DEF TypeOK
  <1> QED BY <1>2, <1>3, <1>4, <1>5, QuietStep

LEMMA RunAutoUpdateInv ==
  ASSUME IInv, NEW t \in Slots, RunAutoUpdate(t)
  PROVE  IInv'
  <1>1. TypeOK /\ task[t] \in Task /\ daemon \in Daemon /\ TaskOK(task[t], staging, installed)
    BY DEF IInv, TypeOK, TasksOK
  <1>2. /\ task[t].pc = "auto" /\ task[t].kind # "dev"
        /\ UNCHANGED <<server, mode, disk, left, failed>>
    BY <1>1 DEF RunAutoUpdate, TaskOK, DevPCs
  <1>3. /\ staging' = staging /\ staging' \in [Components -> Downloads]
        /\ inbox' \in Seq(Messages)
        /\ UNCHANGED <<published, index, mode, installed, pico, elf, failed, left>>
    BY <1>1, <1>2 DEF TypeOK, server, disk
  <1>4. ASSUME NEW k \in Task, task' = [task EXCEPT ![t] = k], k.pc \in Unlocked,
               k.kind # "dev", daemon' \in Daemon, daemon'.running = daemon.running,
               daemon'.lock = daemon.lock
        PROVE  IInv'
    <2>1. TaskOK(k, staging', installed) BY <1>4, WaitingJob
    <2> QED BY <1>2, <1>3, <1>4, <2>1, QuietStep DEF Fine
  <1>5. CASE daemon.inCall
    <2> DEFINE d == [daemon EXCEPT !.pending = TRUE]
    <2>1. task' = [task EXCEPT ![t] = Idle] /\ daemon' = d BY <1>5 DEF RunAutoUpdate
    <2>2. d \in Daemon BY <1>1, DaemonField
    <2>3. d.running = daemon.running /\ d.lock = daemon.lock BY <1>1 DEF Daemon
    <2>4. Idle.pc \in Unlocked /\ Idle.kind # "dev" BY DEF Idle, Unlocked
    <2> HIDE DEF d
    <2> QED BY <1>4, <2>1, <2>2, <2>3, <2>4, IdleType
  <1>6. CASE ~daemon.inCall
    <2> DEFINE k0 == task[t]
               k == [k0 EXCEPT !.pc = "lock", !.target = daemon.pushed]
    <2>1. task' = [task EXCEPT ![t] = k] /\ UNCHANGED daemon BY <1>6, <1>1 DEF RunAutoUpdate, TypeOK
    <2>2. daemon.pushed \in Releases BY <1>1 DEF Daemon
    <2>3. k \in Task
      <3> HIDE DEF k0
      <3>1. [k0 EXCEPT !.pc = "lock"] \in Task BY <1>1, TaskField DEF PCs, k0
      <3>2. [[k0 EXCEPT !.pc = "lock"] EXCEPT !.target = daemon.pushed] \in Task
        BY <2>2, <3>1, TaskField
      <3> QED BY <3>2
    <2>4. k.pc = "lock" /\ k.kind = task[t].kind BY <1>1 DEF Task
    <2> HIDE DEF k
    <2> QED BY <1>1, <1>2, <1>4, <2>1, <2>3, <2>4 DEF Unlocked
  <1> QED BY <1>5, <1>6

LEMMA RunTargetedUpdateInv ==
  ASSUME IInv, NEW t \in Slots, RunTargetedUpdate(t)
  PROVE  IInv'
  <1>1. TypeOK /\ task[t] \in Task /\ daemon \in Daemon /\ TaskOK(task[t], staging, installed)
    BY DEF IInv, TypeOK, TasksOK
  <1>2. task[t].pc = "lock" /\ UNCHANGED <<server, mode, disk, left, failed>>
    BY DEF RunTargetedUpdate
  <1>3. /\ staging' = staging /\ staging' \in [Components -> Downloads]
        /\ inbox' \in Seq(Messages)
        /\ UNCHANGED <<published, index, mode, installed, pico, elf, failed, left>>
    BY <1>1, <1>2 DEF TypeOK, server, disk
  <1>4. CASE daemon.lock
    <2>1. task' = [task EXCEPT ![t] = Idle] /\ UNCHANGED daemon BY <1>4 DEF RunTargetedUpdate
    <2>2. Idle.pc \in Unlocked /\ Idle.kind # "dev" BY DEF Idle, Unlocked
    <2>3. TaskOK(Idle, staging', installed) BY <2>2, WaitingJob
    <2> QED BY <1>1, <1>2, <1>3, <2>1, <2>2, <2>3, IdleType, QuietStep DEF Fine
  <1>5. CASE ~daemon.lock
    <2> DEFINE pc2 == IF task[t].kind = "dev" THEN "apply" ELSE "check"
               k == [task[t] EXCEPT !.pc = pc2]
               d == [daemon EXCEPT !.lock = TRUE]
    <2>1. task' = [task EXCEPT ![t] = k] /\ daemon' = d
      BY <1>1, <1>5 DEF RunTargetedUpdate, Goto, TypeOK
    <2>2. d \in Daemon BY <1>1, DaemonField
    <2>3. d.running = daemon.running /\ d.lock BY <1>1 DEF Daemon
    <2>4. pc2 \in PCs /\ pc2 \in {"apply", "check"} /\ (task[t].kind = "dev" <=> pc2 = "apply")
      BY DEF PCs
    <2> HIDE DEF d, pc2
    <2>5. k \in Task BY <1>1, <2>4, TaskField
    <2>6. k.pc = pc2 /\ k.kind = task[t].kind BY <1>1 DEF Task
    <2> HIDE DEF k
    <2>7. TaskOK(k, staging', installed)
      BY <2>4, <2>6 DEF TaskOK, DevPCs, Resolved, OpenPc, CopyPc, Components
    <2>8. k.pc \notin Unlocked BY <2>4, <2>6 DEF Unlocked
    <2> QED BY <1>1, <1>2, <1>3, <1>5, <2>1, <2>2, <2>3, <2>5, <2>7, <2>8, QuietStep DEF Fine
  <1> QED BY <1>4, <1>5

LEMMA CheckVersionInv ==
  ASSUME IInv, NEW t \in Slots, CheckVersion(t)
  PROVE  IInv'
  <1> DEFINE k0 == task[t]
  <1>1. TypeOK /\ k0 \in Task /\ daemon \in Daemon /\ TaskOK(k0, staging, installed)
    BY DEF IInv, TypeOK, TasksOK
  <1>2. /\ k0.pc = "check" /\ k0.kind # "dev" /\ k0.pc \notin Unlocked
        /\ UNCHANGED <<server, mode, disk, failed>> /\ (Fine \/ Fault)
    BY <1>1 DEF CheckVersion, TaskOK, DevPCs, Unlocked
  <1>3. /\ staging' = staging /\ staging' \in [Components -> Downloads]
        /\ inbox' \in Seq(Messages)
        /\ UNCHANGED <<published, index, inbox, mode, installed, pico, elf, failed>>
    BY <1>1, <1>2 DEF TypeOK, server, disk
  <1>4. ASSUME NEW err, End(t, err) PROVE IInv'
    BY <1>2, <1>3, <1>4, EndInv
  <1>5. CASE \A err \in {"fetch", "notIndexed", ""} : ~End(t, err)
    <2>1. PICK r \in Replicas :
            LET tg == k0.target
                pi == ResolveTargetRelease(tg.pi, daemon.running, index[r]["pi"])
                fw == ResolveTargetRelease(tg.fw, k0.fwVer, index[r]["fw"])
                targeted == tg # NoPush
                rel == [pi |-> IF targeted /\ tg.pi = None THEN None ELSE pi,
                        fw |-> IF targeted /\ tg.fw = None THEN None ELSE fw]
            IN  /\ NotListed \notin {pi, fw}
                /\ task' = [task EXCEPT ![t].rel = rel, ![t].pc = "firmware"]
                /\ UNCHANGED daemon
      BY <1>5 DEF CheckVersion
    <2> DEFINE tg == k0.target
               pi == ResolveTargetRelease(tg.pi, daemon.running, index[r]["pi"])
               fw == ResolveTargetRelease(tg.fw, k0.fwVer, index[r]["fw"])
               pi2 == IF tg # NoPush /\ tg.pi = None THEN None ELSE pi
               fw2 == IF tg # NoPush /\ tg.fw = None THEN None ELSE fw
               rel == [pi |-> pi2, fw |-> fw2]
               k == [k0 EXCEPT !.rel = rel, !.pc = "firmware"]
    <2>2. /\ tg.pi \in Targets /\ tg.fw \in Targets /\ daemon.running \in Versions
          /\ k0.fwVer \in Firmware /\ daemon.running \in Firmware
          /\ index[r]["pi"] \in Versions /\ index[r]["fw"] \in Versions
          /\ daemon.running = installed
      <3>1. tg \in Releases /\ k0.fwVer \in Firmware BY <1>1 DEF Task
      <3>2. tg.pi \in Targets /\ tg.fw \in Targets BY <3>1 DEF Releases, Components
      <3>3. daemon.running \in Versions BY <1>1 DEF Daemon
      <3>4. index[r]["pi"] \in Versions /\ index[r]["fw"] \in Versions
        BY <1>1 DEF TypeOK, Components
      <3> QED BY <3>1, <3>2, <3>3, <3>4, VersionTypes DEF IInv
    <2>3. /\ pi \in Targets \cup {NotListed} /\ fw \in Targets \cup {NotListed}
          /\ tg.pi = None /\ pi \notin {None, NotListed} => pi > installed
      <3> HIDE DEF tg
      <3>1. pi \in Targets \cup {NotListed} BY <2>2, ReleaseFound
      <3>2. fw \in Targets \cup {NotListed} BY <2>2, ReleaseFound
      <3>3. tg.pi = None /\ pi \notin {None, NotListed} => pi > daemon.running
        BY <2>2, ReleaseFound
      <3> QED BY <3>1, <3>2, <3>3, <2>2
    <2>4. pi # NotListed /\ fw # NotListed BY <2>1
    <2>5. /\ task' = [task EXCEPT ![t] = k] /\ UNCHANGED daemon
      BY <1>1, <2>1 DEF TypeOK
    <2> HIDE DEF pi, fw, tg
    <2>6. pi2 \in Targets /\ fw2 \in Targets /\ (tg.pi = None => pi2 = None \/ pi2 > installed)
      BY <2>3, <2>4, VersionTypes
    <2> HIDE DEF pi2, fw2
    <2>7. rel \in Releases BY <2>6, VersionTypes
    <2>8. rel["pi"] = pi2 OBVIOUS
    <2> HIDE DEF rel, k0
    <2>9. k \in Task
      <3>1. [k0 EXCEPT !.rel = rel] \in Task BY <1>1, <2>7, TaskField
      <3>2. [[k0 EXCEPT !.rel = rel] EXCEPT !.pc = "firmware"] \in Task
        BY <3>1, TaskField DEF PCs
      <3> QED BY <3>2
    <2>10. k.pc = "firmware" /\ k.kind = k0.kind /\ k.rel = rel /\ k.target = tg
      BY <1>1 DEF Task, tg
    <2> HIDE DEF k
    <2>11. TaskOK(k, staging', installed)
      BY <1>2, <2>6, <2>8, <2>10 DEF TaskOK, DevPCs, OpenPc, CopyPc, Components
    <2>12. k.pc \notin Unlocked BY <2>10 DEF Unlocked
    <2>13. daemon.lock BY <1>2 DEF IInv, LockHeld, k0
    <2> QED BY <1>1, <1>2, <1>3, <2>5, <2>9, <2>11, <2>12, <2>13, QuietStep DEF k0
  <1> QED BY <1>4, <1>5

LEMMA PlanFirmwareInv ==
  ASSUME IInv, NEW t \in Slots, PlanFirmware(t)
  PROVE  IInv'
  <1> DEFINE k0 == task[t]
  <1>1. TypeOK /\ k0 \in Task /\ daemon \in Daemon /\ TaskOK(k0, staging, installed)
    BY DEF IInv, TypeOK, TasksOK
  <1>2. /\ k0.pc = "firmware" /\ k0.kind # "dev" /\ k0.pc \notin Unlocked
        /\ UNCHANGED <<server, mode, disk, left, failed>>
    BY <1>1 DEF PlanFirmware, TaskOK, DevPCs, Unlocked
  <1>3. /\ staging' = staging /\ staging' \in [Components -> Downloads]
        /\ inbox' \in Seq(Messages) /\ Fine
        /\ UNCHANGED <<published, index, inbox, mode, installed, pico, elf, failed>>
    BY <1>1, <1>2 DEF TypeOK, server, disk, Fine
  <1>4. ASSUME NEW c \in Components, k0.rel[c] # None, Goto(t, OpenPc[c]), UNCHANGED daemon
        PROVE  IInv'
    <2> DEFINE pc2 == OpenPc[c]
               k == [k0 EXCEPT !.pc = pc2]
    <2>1. pc2 \in PCs /\ pc2 \notin Unlocked BY DEF OpenPc, PCs, Unlocked, Components
    <2>2. task' = [task EXCEPT ![t] = k] BY <1>1, <1>4 DEF Goto, TypeOK
    <2> HIDE DEF pc2, k0
    <2>3. k \in Task BY <1>1, <2>1, TaskField
    <2>4. /\ k.pc = pc2 /\ k.kind = k0.kind /\ k.rel = k0.rel /\ k.target = k0.target
      BY <1>1 DEF Task
    <2> HIDE DEF k
    <2>5. TaskOK(k, staging', installed)
      BY <1>1, <1>2, <1>4, <2>4 DEF TaskOK, pc2, OpenPc, CopyPc, Components, Resolved
    <2>6. daemon.lock BY <1>2 DEF IInv, LockHeld, k0
    <2> QED BY <1>1, <1>2, <1>3, <1>4, <2>1, <2>2, <2>3, <2>4, <2>5, <2>6, QuietStep DEF k0
  <1>5. CASE Goto(t, "openFw") /\ UNCHANGED daemon /\ k0.rel.fw # None
    <2>1. k0.rel["fw"] # None /\ OpenPc["fw"] = "openFw" /\ "fw" \in Components
      BY <1>5 DEF OpenPc, Components
    <2> QED BY <1>4, <1>5, <2>1
  <1>6. CASE Goto(t, "openPi") /\ UNCHANGED daemon /\ k0.rel.pi # None
    <2>1. k0.rel["pi"] # None /\ OpenPc["pi"] = "openPi" /\ "pi" \in Components
      BY <1>6 DEF OpenPc, Components
    <2> QED BY <1>4, <1>6, <2>1
  <1>7. CASE End(t, "")
    BY <1>2, <1>3, <1>7, EndInv
  <1> QED BY <1>5, <1>6, <1>7 DEF PlanFirmware

(* The program counters of the two downloads.                              *)
LEMMA DownloadPcs ==
  ASSUME NEW c \in Components
  PROVE  /\ OpenPc[c] \notin Unlocked \cup DevPCs /\ OpenPc[c] # "flash"
         /\ CopyPc[c] \in PCs /\ CopyPc[c] \notin Unlocked \cup DevPCs /\ CopyPc[c] # "flash"
         /\ CopyPc[c] \in Resolved /\ OpenPc[c] \in Resolved
         /\ CopyPc[c] \notin {"apply", "install"}
         /\ \A d \in Components : CopyPc[c] # OpenPc[d] /\ (CopyPc[c] = CopyPc[d] => c = d)
  BY DEF OpenPc, CopyPc, Components, Unlocked, DevPCs, PCs, Resolved

(* A partial download is replaced: nothing staged changes.                 *)
LEMMA PartialStep ==
  ASSUME TypeOK, NEW c \in Components, NEW p \in [marker : Targets, file : Files],
         SetPartial(c, p)
  PROVE  /\ staging' \in [Components -> Downloads]
         /\ staging'[c].partial = p
         /\ \A d \in Components : staging'[d].staged = staging[d].staged
  <1>1. staging \in [Components -> Downloads] /\ staging[c] \in Downloads BY DEF TypeOK
  <1>2. [staging[c] EXCEPT !.partial = p] \in Downloads BY <1>1 DEF Downloads
  <1>3. /\ [staging[c] EXCEPT !.partial = p].staged = staging[c].staged
        /\ [staging[c] EXCEPT !.partial = p].partial = p
    BY <1>1 DEF Downloads
  <1>4. staging' = [staging EXCEPT ![c] = [staging[c] EXCEPT !.partial = p]]
    BY <1>1 DEF SetPartial
  <1> QED BY <1>1, <1>2, <1>3, <1>4

(* A run begins, or goes on with, the copy of component c.                 *)
LEMMA CopyingInv ==
  ASSUME IInv, NEW t \in Slots, NEW c \in Components, NEW seen \in Files,
         task[t].pc \in {OpenPc[c], CopyPc[c]},
         task' = [task EXCEPT ![t].pc = CopyPc[c], ![t].seen = seen],
         UNCHANGED daemon, staging' \in [Components -> Downloads],
         staging'[c].partial.file = seen,
         \A d \in Components : staging'[d].staged = staging[d].staged,
         Fine, UNCHANGED <<server, mode, installed, pico, elf, failed>>
  PROVE  IInv'
  <1> DEFINE k0 == task[t]
             pc2 == CopyPc[c]
             k == [k0 EXCEPT !.pc = pc2, !.seen = seen]
  <1>1. TypeOK /\ k0 \in Task /\ daemon \in Daemon /\ TaskOK(k0, staging, installed)
    BY DEF IInv, TypeOK, TasksOK
  <1>2. k0.rel[c] # None BY <1>1 DEF TaskOK
  <1>3. /\ k0.pc \notin Unlocked \cup DevPCs /\ k0.pc # "flash" /\ k0.pc \in Resolved
    BY DownloadPcs
  <1>4. k0.kind # "dev" BY <1>1, <1>3 DEF TaskOK
  <1>5. task' = [task EXCEPT ![t] = k] BY <1>1 DEF TypeOK
  <1>6. inbox' \in Seq(Messages) /\ UNCHANGED <<published, index>> BY <1>1 DEF TypeOK, server
  <1>7. pc2 \in PCs /\ pc2 \notin Unlocked /\ pc2 \in Resolved BY DownloadPcs
  <1>8. k \in Task
    <2> HIDE DEF k0, pc2
    <2>1. [k0 EXCEPT !.pc = pc2] \in Task BY <1>1, <1>7, TaskField
    <2>2. [[k0 EXCEPT !.pc = pc2] EXCEPT !.seen = seen] \in Task BY <2>1, TaskField
    <2> QED BY <2>2
  <1>9. /\ k.pc = pc2 /\ k.kind = k0.kind /\ k.rel = k0.rel /\ k.target = k0.target
        /\ k.seen = seen
    <2> HIDE DEF k0, pc2
    <2> QED BY <1>1 DEF Task
  <1>10. daemon.lock BY <1>3 DEF IInv, LockHeld
  <1> HIDE DEF k
  <1>11. TaskOK(k, staging', installed)
    <2> HIDE DEF k0
    <2>1. /\ k.kind # "dev"
          /\ k.target["pi"] = None => k.rel["pi"] = None \/ k.rel["pi"] > installed
      BY <1>1, <1>3, <1>4, <1>9 DEF TaskOK
    <2>2. \A d \in Components : k.pc # OpenPc[d] /\ (k.pc = CopyPc[d] => d = c)
      BY <1>9, DownloadPcs
    <2>3. k.pc \notin {"apply", "install"} BY <1>9, DownloadPcs
    <2> QED BY <1>2, <1>9, <2>1, <2>2, <2>3 DEF TaskOK
  <1>12. \A d \in Components : staging'[d].staged \in {staging[d].staged, NoFile}
    OBVIOUS
  <1> QED
    BY <1>1, <1>3, <1>5, <1>6, <1>7, <1>8, <1>9, <1>10, <1>11, <1>12, QuietStep

LEMMA DownloadOpenInv ==
  ASSUME IInv, NEW t \in Slots, NEW c \in Components, DownloadOpen(t, c)
  PROVE  IInv'
  <1> DEFINE v == task[t].rel[c]
             have == Resumable(c, v)
  <1>1. TypeOK /\ task[t] \in Task /\ TaskOK(task[t], staging, installed)
    BY DEF IInv, TypeOK, TasksOK
  <1>2. /\ task[t].pc = OpenPc[c] /\ task[t].pc \notin Unlocked /\ task[t].pc # "flash"
        /\ UNCHANGED <<server, mode, installed, pico, elf, failed>>
    BY DownloadPcs DEF DownloadOpen
  <1>3. v \in Targets BY <1>1 DEF Task, Releases
  <1>4. staging[c] \in Downloads /\ Partial(c) \in [marker : Targets, file : Files]
    BY <1>1 DEF TypeOK, Downloads, Partial
  <1>5. have \in Files /\ (have # NoFile => Partial(c).file = have)
    BY <1>4, FileTypes DEF Resumable
  <1>6. NoPartial \in [marker : Targets, file : Files]
    BY VersionTypes, FileTypes DEF NoPartial
  <1>8. ASSUME NEW p \in [marker : Targets, file : Files], SetPartial(c, p),
               NEW err, End(t, err), Fine \/ Fault
        PROVE  IInv'
    <2>1. /\ staging' \in [Components -> Downloads]
          /\ \A d \in Components : staging'[d].staged \in {staging[d].staged, NoFile}
      BY <1>1, <1>8, PartialStep
    <2> QED BY <1>2, <1>8, <2>1, EndInv DEF server
  <1>9. CASE /\ have # NoFile
             /\ task' = [task EXCEPT ![t].pc = CopyPc[c], ![t].seen = have]
             /\ Fine /\ UNCHANGED <<staging, daemon>>
    <2>1. staging' \in [Components -> Downloads] BY <1>1, <1>9 DEF TypeOK
    <2>2. staging'[c].partial.file = have BY <1>5, <1>9 DEF Partial
    <2> HIDE DEF have
    <2> QED BY <1>2, <1>5, <1>9, <2>1, <2>2, CopyingInv
  <1>10. CASE /\ task' = [task EXCEPT ![t].pc = CopyPc[c], ![t].seen = NoFile]
              /\ SetPartial(c, [marker |-> v, file |-> NoFile])
              /\ Fine /\ UNCHANGED daemon
    <2> DEFINE p == [marker |-> v, file |-> NoFile]
    <2>1. p \in [marker : Targets, file : Files] /\ p.file = NoFile BY <1>3, FileTypes
    <2>2. SetPartial(c, p) BY <1>10
    <2> HIDE DEF p
    <2>3. /\ staging' \in [Components -> Downloads] /\ staging'[c].partial.file = NoFile
          /\ \A d \in Components : staging'[d].staged = staging[d].staged
      BY <1>1, <2>1, <2>2, PartialStep
    <2> QED BY <1>2, <1>10, <2>3, FileTypes, CopyingInv
  <1>11. CASE SetPartial(c, NoPartial) /\ End(t, "download") /\ (Fine \/ Fault)
    BY <1>6, <1>8, <1>11
  <1>12. CASE UNCHANGED staging /\ End(t, "download") /\ Fault
    <2>1. /\ staging' \in [Components -> Downloads]
          /\ \A d \in Components : staging'[d].staged \in {staging[d].staged, NoFile}
      BY <1>1, <1>12 DEF TypeOK
    <2> QED BY <1>2, <1>12, <2>1, EndInv DEF server
  <1> HIDE DEF have
  <1> QED BY <1>9, <1>10, <1>11, <1>12 DEF DownloadOpen, have

LEMMA DownloadCopyInv ==
  ASSUME IInv, NEW t \in Slots, NEW c \in Components, DownloadCopy(t, c)
  PROVE  IInv'
  <1> DEFINE v == task[t].rel[c]
             seen == Append(task[t].seen, v)
             p == [Partial(c) EXCEPT !.file = Append(Partial(c).file, v)]
  <1>1. TypeOK /\ task[t] \in Task /\ TaskOK(task[t], staging, installed)
    BY DEF IInv, TypeOK, TasksOK
  <1>2. /\ task[t].pc = CopyPc[c] /\ task[t].pc \notin Unlocked /\ task[t].pc # "flash"
        /\ UNCHANGED <<server, mode, installed, pico, elf, failed>>
    BY DownloadPcs DEF DownloadCopy
  <1>3. v \in Versions /\ task[t].seen \in Files /\ task[t].seen = Partial(c).file
    <2>1. v \in Targets /\ v # None BY <1>1, <1>2 DEF Task, Releases, TaskOK
    <2> QED BY <1>1, <1>2, <2>1 DEF Targets, Task, TaskOK, Partial
  <1>4. Partial(c) \in [marker : Targets, file : Files] BY <1>1 DEF TypeOK, Downloads, Partial
  <1>5. seen \in Files /\ seen = Append(Partial(c).file, v) BY <1>3, FileTypes
  <1>6. CASE /\ SetPartial(c, p) /\ Fine /\ UNCHANGED daemon
             /\ task' = [task EXCEPT ![t].seen = seen]
    <2>1. p \in [marker : Targets, file : Files] /\ p.file = seen BY <1>4, <1>5
    <2> HIDE DEF p
    <2>2. /\ staging' \in [Components -> Downloads] /\ staging'[c].partial.file = seen
          /\ \A d \in Components : staging'[d].staged = staging[d].staged
      BY <1>1, <1>6, <2>1, PartialStep
    <2>3. task' = [task EXCEPT ![t].pc = CopyPc[c], ![t].seen = seen]
      <3>1. [task[t] EXCEPT !.seen = seen] = [task[t] EXCEPT !.pc = CopyPc[c], !.seen = seen]
        BY <1>1, <1>2 DEF Task
      <3> HIDE DEF seen
      <3> QED BY <1>1, <1>6, <3>1 DEF TypeOK
    <2> HIDE DEF seen
    <2> QED BY <1>2, <1>5, <1>6, <2>2, <2>3, CopyingInv
  <1>7. CASE End(t, "download") /\ Fault /\ UNCHANGED staging
    <2>1. /\ staging' \in [Components -> Downloads]
          /\ \A d \in Components : staging'[d].staged \in {staging[d].staged, NoFile}
      BY <1>1, <1>7 DEF TypeOK
    <2> QED BY <1>2, <1>7, <2>1, EndInv DEF server
  <1> QED BY <1>6, <1>7 DEF DownloadCopy

LEMMA DownloadDoneInv ==
  ASSUME IInv, NEW t \in Slots, NEW c \in Components, DownloadDone(t, c)
  PROVE  IInv'
  <1> DEFINE k0 == task[t]
             v == k0.rel[c]
  <1>1. TypeOK /\ k0 \in Task /\ daemon \in Daemon /\ TaskOK(k0, staging, installed)
    BY DEF IInv, TypeOK, TasksOK
  <1>2. /\ k0.pc = CopyPc[c] /\ k0.pc \notin Unlocked \cup DevPCs /\ k0.pc # "flash"
        /\ k0.pc \in Resolved
        /\ UNCHANGED <<server, mode, installed, pico, elf, failed>> /\ Fine
    BY DownloadPcs DEF DownloadDone, Fine
  <1>3. v \in Versions /\ v # None /\ k0.seen = Partial(c).file /\ k0.kind # "dev"
    <2>1. v \in Targets /\ v # None BY <1>1, <1>2 DEF Task, Releases, TaskOK
    <2> QED BY <1>1, <1>2, <2>1 DEF Targets, TaskOK, Partial
  <1>4. CASE /\ k0.seen = Whole(v)
             /\ staging' = [staging EXCEPT ![c] = [partial |-> NoPartial,
                                                   staged |-> Partial(c).file]]
             /\ Goto(t, IF c = "fw" THEN "apply" ELSE "install") /\ UNCHANGED daemon
    <2> DEFINE dl == [partial |-> NoPartial, staged |-> Whole(v)]
               pc2 == IF c = "fw" THEN "apply" ELSE "install"
               k == [k0 EXCEPT !.pc = pc2]
    <2>1. dl \in Downloads /\ dl.staged = Whole(v) /\ Genuine(Whole(v))
      BY <1>3, VersionTypes, FileTypes DEF Downloads, NoPartial, Genuine
    <2>2. staging' = [staging EXCEPT ![c] = dl] BY <1>3, <1>4
    <2> HIDE DEF dl
    <2>3. /\ staging' \in [Components -> Downloads] /\ staging'[c].staged = Whole(v)
          /\ \A d \in Components : \/ staging'[d].staged \in {staging[d].staged, NoFile}
                                   \/ Genuine(staging'[d].staged)
      BY <1>1, <2>1, <2>2 DEF TypeOK
    <2>4. task' = [task EXCEPT ![t] = k] BY <1>1, <1>4 DEF Goto, TypeOK
    <2>5. /\ pc2 \in PCs /\ pc2 \notin Unlocked /\ pc2 \in {"apply", "install"}
          /\ (pc2 = "apply" => c = "fw") /\ (pc2 = "install" => c = "pi")
      BY DEF PCs, Unlocked, Components
    <2> HIDE DEF pc2, k0
    <2>6. k \in Task BY <1>1, <2>5, TaskField
    <2>7. /\ k.pc = pc2 /\ k.kind = k0.kind /\ k.rel = k0.rel /\ k.target = k0.target
      BY <1>1 DEF Task
    <2> HIDE DEF k
    <2>8. TaskOK(k, staging', installed)
      <3>1. k.target["pi"] = None => k.rel["pi"] = None \/ k.rel["pi"] > installed
        BY <1>1, <1>2, <1>3, <2>7 DEF TaskOK
      <3>2. \A d \in Components : k.pc \notin {OpenPc[d], CopyPc[d]}
        BY <2>5, <2>7 DEF OpenPc, CopyPc, Components
      <3>3. k.pc = "apply" => Genuine(staging'["fw"].staged) BY <2>1, <2>3, <2>5, <2>7
      <3>4. k.pc = "install" => staging'["pi"].staged = Whole(k.rel["pi"]) /\ k.rel["pi"] # None
        BY <1>3, <2>3, <2>5, <2>7
      <3> QED BY <1>3, <2>7, <3>1, <3>2, <3>3, <3>4 DEF TaskOK
    <2>9. daemon.lock BY <1>2 DEF IInv, LockHeld, k0
    <2>10. inbox' \in Seq(Messages) /\ UNCHANGED <<published, index>>
      BY <1>1, <1>2 DEF TypeOK, server
    <2> QED BY <1>1, <1>2, <1>4, <2>3, <2>4, <2>5, <2>6, <2>7, <2>8, <2>9, <2>10, QuietStep DEF k0
  <1>5. CASE SetPartial(c, NoPartial) /\ End(t, "digest")
    <2>1. NoPartial \in [marker : Targets, file : Files]
      BY VersionTypes, FileTypes DEF NoPartial
    <2>2. /\ staging' \in [Components -> Downloads]
          /\ \A d \in Components : staging'[d].staged \in {staging[d].staged, NoFile}
      BY <1>1, <1>5, <2>1, PartialStep
    <2> QED BY <1>2, <1>5, <2>2, EndInv DEF server
  <1> QED BY <1>4, <1>5 DEF DownloadDone

LEMMA ApplyFirmwareUpdateInv ==
  ASSUME IInv, NEW t \in Slots, ApplyFirmwareUpdate(t)
  PROVE  IInv'
  <1> DEFINE k0 == task[t]
             k == [k0 EXCEPT !.pc = "flash"]
  <1>1. TypeOK /\ k0 \in Task /\ daemon \in Daemon /\ TaskOK(k0, staging, installed)
    BY DEF IInv, TypeOK, TasksOK
  <1>2. /\ k0.pc = "apply" /\ k0.pc \notin Unlocked
        /\ pico' = None /\ UNCHANGED <<server, mode, installed, daemon, left, failed>>
        /\ task' = [task EXCEPT ![t] = k]
    BY <1>1 DEF ApplyFirmwareUpdate, Unlocked, Goto, TypeOK
  <1>3. k \in Task BY <1>1, TaskField DEF PCs
  <1>4. /\ k.pc = "flash" /\ k.kind = k0.kind /\ k.rel = k0.rel /\ k.target = k0.target
    BY <1>1 DEF Task
  <1> HIDE DEF k
  <1>5. /\ elf' \in Files /\ Genuine(elf') /\ staging' \in [Components -> Downloads]
        /\ \A c \in Components : staging'[c].staged \in {staging[c].staged, NoFile}
    <2>1. CASE k0.kind = "dev"
      <3>1. elf' = Whole(Dev) /\ staging' = staging BY <2>1 DEF ApplyFirmwareUpdate
      <3>2. Genuine(elf') BY <3>1 DEF Genuine
      <3> QED BY <1>1, <3>1, <3>2, FileTypes DEF TypeOK
    <2>2. CASE k0.kind # "dev"
      <3>1. /\ elf' = staging["fw"].staged /\ Genuine(elf')
            /\ staging' = [staging EXCEPT !["fw"].staged = NoFile]
        BY <1>1, <1>2, <2>2 DEF ApplyFirmwareUpdate, TaskOK
      <3>2. "fw" \in Components /\ staging["fw"] \in Downloads /\ staging \in [Components -> Downloads]
        BY <1>1 DEF TypeOK, Components
      <3>3. [staging["fw"] EXCEPT !.staged = NoFile] \in Downloads /\ staging["fw"].staged \in Files
        BY <3>2, FileTypes DEF Downloads
      <3>4. [staging["fw"] EXCEPT !.staged = NoFile].staged = NoFile
        BY <3>2 DEF Downloads
      <3>5. staging' = [staging EXCEPT !["fw"] = [staging["fw"] EXCEPT !.staged = NoFile]]
        BY <3>1, <3>2
      <3> QED BY <3>1, <3>2, <3>3, <3>4, <3>5
    <2> QED BY <2>1, <2>2
  <1>6. TaskOK(k, staging', installed)
    BY <1>1, <1>2, <1>4 DEF TaskOK, DevPCs, Resolved, OpenPc, CopyPc, Components
  <1>7. GenuineArtifacts'
    BY <1>5 DEF IInv, GenuineArtifacts, Genuine
  <1>8. PowerCutIsRepaired'
    <2>1. task'[t].pc = "flash" BY <1>1, <1>2, <1>4 DEF TypeOK
    <2> QED BY <2>1 DEF PowerCutIsRepaired
  <1>9. pico' \in Firmware /\ failed' \in BOOLEAN /\ inbox' \in Seq(Messages) /\ daemon' \in Daemon
    BY <1>1, <1>2, VersionTypes DEF TypeOK, server
  <1>10. daemon.lock BY <1>2 DEF IInv, LockHeld
  <1>11. Fine /\ UNCHANGED <<published, index, mode, installed>> BY <1>2 DEF Fine, server
  <1>12. k.pc \notin Unlocked BY <1>4 DEF Unlocked
  <1> QED
    BY <1>2, <1>3, <1>5, <1>6, <1>7, <1>8, <1>9, <1>10, <1>11, <1>12, RunStep

(* What is flashed boots, since the file is a whole release.               *)
LEMMA FlashedBoots ==
  ASSUME GenuineArtifacts
  PROVE  Flashed \in Firmware /\ Flashed # None
  <1>1. PICK v \in Versions \cup {Dev} : elf = Whole(v) BY DEF GenuineArtifacts, Genuine
  <1>2. Flashed = v BY <1>1, FileTypes DEF Flashed, GenuineArtifacts
  <1>3. v # None BY DEF Versions, Dev, None
  <1> QED BY <1>2, <1>3 DEF Firmware, Targets

(* A step that leaves the files alone; a flash that ends left a Pico that  *)
(* boots, or failed.                                                       *)
LEMMA AfterFlash ==
  ASSUME IInv, NEW t \in Slots, NEW k \in Task, task' = [task EXCEPT ![t] = k],
         TaskOK(k, staging, installed), task[t].pc \notin Unlocked,
         daemon' \in Daemon, daemon'.running = daemon.running,
         k.pc \notin Unlocked => daemon'.lock,
         pico' \in Firmware, failed' \in BOOLEAN, pico' # None \/ failed',
         Fine \/ Fault, UNCHANGED <<server, mode, installed, elf, staging>>
  PROVE  IInv'
  <1>1. TypeOK BY DEF IInv
  <1>2. GenuineArtifacts' BY DEF IInv, GenuineArtifacts, Genuine
  <1>3. PowerCutIsRepaired' BY DEF PowerCutIsRepaired
  <1>4. /\ staging' \in [Components -> Downloads] /\ elf' \in Files /\ inbox' \in Seq(Messages)
        /\ UNCHANGED <<published, index>>
    BY <1>1 DEF TypeOK, server
  <1> QED BY <1>2, <1>3, <1>4, RunStep

LEMMA FlashDoneInv ==
  ASSUME IInv, NEW t \in Slots, FlashDone(t)
  PROVE  IInv'
  <1> DEFINE k0 == task[t]
  <1>1. /\ TypeOK /\ k0 \in Task /\ daemon \in Daemon /\ TaskOK(k0, staging, installed)
        /\ GenuineArtifacts
    BY DEF IInv, TypeOK, TasksOK
  <1>2. /\ k0.pc = "flash" /\ k0.pc \notin Unlocked
        /\ UNCHANGED <<server, mode, installed, elf, staging>>
    BY DEF FlashDone, Unlocked
  <1>3. Flashed \in Firmware /\ Flashed # None BY <1>1, FlashedBoots
  <1>4. CASE /\ pico' = Flashed /\ failed' = FALSE /\ Fine /\ k0.kind = "dev"
             /\ task' = [task EXCEPT ![t] = Idle]
             /\ daemon' = [daemon EXCEPT !.lock = FALSE, !.fwVer = Flashed]
    <2> DEFINE d1 == [daemon EXCEPT !.lock = FALSE]
               d == [d1 EXCEPT !.fwVer = Flashed]
    <2>1. d1 \in Daemon /\ d1.running = daemon.running
      <3>1. d1 \in Daemon BY <1>1, DaemonField
      <3>2. d1.running = daemon.running BY <1>1 DEF Daemon
      <3> QED BY <3>1, <3>2
    <2>2. daemon' = d BY <1>4
    <2> HIDE DEF d1
    <2>3. d \in Daemon BY <1>3, <2>1, DaemonField
    <2>4. d.running = daemon.running BY <2>1 DEF Daemon
    <2> HIDE DEF d
    <2>5. Idle.pc \in Unlocked /\ Idle.kind # "dev" BY DEF Idle, Unlocked
    <2>6. TaskOK(Idle, staging, installed) BY <2>5, WaitingJob
    <2> QED BY <1>2, <1>3, <1>4, <2>2, <2>3, <2>4, <2>5, <2>6, IdleType, AfterFlash
  <1>5. CASE /\ pico' = Flashed /\ failed' = FALSE /\ Fine /\ k0.kind # "dev"
             /\ Goto(t, "verify") /\ UNCHANGED daemon
    <2> DEFINE k == [k0 EXCEPT !.pc = "verify"]
    <2>1. task' = [task EXCEPT ![t] = k] BY <1>1, <1>5 DEF Goto, TypeOK
    <2>2. k \in Task BY <1>1, TaskField DEF PCs
    <2>3. k.pc = "verify" /\ k.kind = k0.kind /\ k.rel = k0.rel /\ k.target = k0.target
      BY <1>1 DEF Task
    <2> HIDE DEF k
    <2>4. TaskOK(k, staging, installed)
      BY <1>1, <1>2, <1>5, <2>3 DEF TaskOK, Resolved, OpenPc, CopyPc, Components
    <2>5. daemon.lock BY <1>2 DEF IInv, LockHeld
    <2> QED BY <1>1, <1>2, <1>3, <1>5, <2>1, <2>2, <2>4, <2>5, AfterFlash
  <1>6. CASE End(t, "flash") /\ failed' = TRUE /\ Fault /\ UNCHANGED pico
    <2>1. PICK k \in Task : /\ task' = [task EXCEPT ![t] = k] /\ k.pc \in Unlocked
                            /\ k.kind # "dev"
      BY <1>1, <1>6, EndStep
    <2>2. daemon' \in Daemon /\ daemon'.running = daemon.running BY <1>1, <1>6, EndStep
    <2>3. TaskOK(k, staging, installed) BY <2>1, WaitingJob
    <2>4. pico' \in Firmware BY <1>1, <1>6 DEF TypeOK
    <2> QED BY <1>2, <1>6, <2>1, <2>2, <2>3, <2>4, AfterFlash
  <1> QED BY <1>4, <1>5, <1>6 DEF FlashDone

LEMMA VerifyFirmwareInv ==
  ASSUME IInv, NEW t \in Slots, VerifyFirmware(t)
  PROVE  IInv'
  <1> DEFINE k0 == task[t]
  <1>1. TypeOK /\ k0 \in Task /\ daemon \in Daemon /\ TaskOK(k0, staging, installed)
    BY DEF IInv, TypeOK, TasksOK
  <1>2. /\ k0.pc = "verify" /\ k0.kind # "dev" /\ k0.pc \notin Unlocked
        /\ UNCHANGED <<server, mode, disk, failed>> /\ (Fine \/ Fault)
    BY <1>1 DEF VerifyFirmware, TaskOK, DevPCs, Unlocked
  <1>3. /\ staging' = staging /\ staging' \in [Components -> Downloads]
        /\ inbox' \in Seq(Messages)
        /\ \A c \in Components : staging'[c].staged \in {staging[c].staged, NoFile}
        /\ UNCHANGED <<published, index, inbox, mode, installed, pico, elf, failed>>
    BY <1>1, <1>2 DEF TypeOK, server, disk
  <1>4. pico \in Firmware BY <1>1 DEF TypeOK
  <1>5. CASE /\ k0.rel.pi # None /\ Goto(t, "openPi")
             /\ daemon' = [daemon EXCEPT !.fwVer = pico]
    <2> DEFINE k == [k0 EXCEPT !.pc = "openPi"]
               d == [daemon EXCEPT !.fwVer = pico]
    <2>1. task' = [task EXCEPT ![t] = k] BY <1>1, <1>5 DEF Goto, TypeOK
    <2>2. k \in Task BY <1>1, TaskField DEF PCs
    <2>3. k.pc = "openPi" /\ k.kind = k0.kind /\ k.rel = k0.rel /\ k.target = k0.target
      BY <1>1 DEF Task
    <2>4. d \in Daemon BY <1>1, <1>4, DaemonField
    <2>5. d.running = daemon.running /\ d.lock = daemon.lock BY <1>1 DEF Daemon
    <2>8. daemon' = d BY <1>5
    <2> HIDE DEF k, d
    <2>6. TaskOK(k, staging', installed)
      BY <1>1, <1>2, <1>3, <1>5, <2>3 DEF TaskOK, Resolved, OpenPc, CopyPc, Components
    <2>7. daemon.lock BY <1>2 DEF IInv, LockHeld
    <2> QED BY <1>2, <1>3, <1>5, <2>1, <2>2, <2>3, <2>4, <2>5, <2>6, <2>7, <2>8, QuietStep DEF k0
  <1>6. CASE /\ task' = [task EXCEPT ![t] = Idle]
             /\ daemon' = [daemon EXCEPT !.lock = FALSE, !.fwVer = pico,
                        !.pushed = IF k0.kind = "auto" THEN NoPush ELSE @]
    <2> DEFINE d1 == [daemon EXCEPT !.lock = FALSE]
               d2 == [d1 EXCEPT !.fwVer = pico]
               pushed2 == IF k0.kind = "auto" THEN NoPush ELSE daemon.pushed
               d == [d2 EXCEPT !.pushed = pushed2]
    <2>1. d1 \in Daemon /\ d1.running = daemon.running
      <3>1. d1 \in Daemon BY <1>1, DaemonField
      <3>2. d1.running = daemon.running BY <1>1 DEF Daemon
      <3> QED BY <3>1, <3>2
    <2>2. daemon' = d BY <1>6
    <2> HIDE DEF d1
    <2>3. d2 \in Daemon BY <1>4, <2>1, DaemonField
    <2>4. d2.running = daemon.running BY <2>1 DEF Daemon
    <2>5. pushed2 \in Releases BY <1>1, VersionTypes DEF Daemon
    <2> HIDE DEF d2, pushed2
    <2>6. d \in Daemon BY <2>3, <2>5, DaemonField
    <2>7. d.running = daemon.running BY <2>3, <2>4 DEF Daemon
    <2> HIDE DEF d
    <2>8. Idle.pc \in Unlocked /\ Idle.kind # "dev" BY DEF Idle, Unlocked
    <2>9. TaskOK(Idle, staging', installed) BY <2>8, WaitingJob
    <2> QED BY <1>2, <1>3, <1>6, <2>2, <2>6, <2>7, <2>8, <2>9, IdleType, QuietStep
  <1>7. CASE End(t, "verify")
    BY <1>2, <1>3, <1>7, EndInv
  <1> QED BY <1>5, <1>6, <1>7 DEF VerifyFirmware

(* The daemon starts anew: no run is left.                                 *)
LEMMA RestartInv ==
  ASSUME IInv, mode' \in {"off", "post"}, installed' \in Versions,
         daemon' = Boot(installed'), task' = [s \in Slots |-> Idle], inbox' = <<>>,
         staging' \in [Components -> Downloads],
         \A c \in Components : staging'[c].staged \in {staging[c].staged, NoFile},
         Fine \/ Fault, UNCHANGED <<published, index, pico, elf, failed>>
  PROVE  IInv'
  <1>1. TypeOK BY DEF IInv
  <1>2. Idle \in Task /\ Idle.pc = "idle" /\ Idle.kind = "" BY IdleType DEF Idle
  <1>3. daemon' \in Daemon /\ daemon'.running = installed' BY BootType
  <1>4. task' \in [Slots -> Task] /\ \A s \in Slots : task'[s] = Idle BY <1>2
  <1>5. inbox' \in Seq(Messages) OBVIOUS
  <1>6. TypeOK' BY <1>1, <1>3, <1>4, <1>5, BudgetType DEF TypeOK
  <1>7. TasksOK'
    <2>1. TaskOK(Idle, staging', installed')
      <3>1. Idle.pc \in Unlocked /\ Idle.kind # "dev" BY <1>2 DEF Unlocked
      <3> QED BY <3>1, WaitingJob
    <2> QED BY <1>4, <2>1 DEF TasksOK
  <1>8. LockHeld' BY <1>2, <1>4 DEF LockHeld, Unlocked
  <1>9. GenuineArtifacts' BY DEF IInv, GenuineArtifacts, Genuine
  <1>10. PowerCutIsRepaired' BY DEF PowerCutIsRepaired
  <1> QED BY <1>3, <1>6, <1>7, <1>8, <1>9, <1>10 DEF IInv

LEMMA ApplyPiUpdateInv ==
  ASSUME IInv, NEW t \in Slots, ApplyPiUpdate(t)
  PROVE  IInv'
  <1>1. TypeOK /\ task[t] \in Task /\ TaskOK(task[t], staging, installed)
    BY DEF IInv, TypeOK, TasksOK
  <1>2. /\ task[t].pc = "install" /\ task[t].pc \notin Unlocked
        /\ UNCHANGED <<published, index, pico, elf, failed>>
    BY DEF ApplyPiUpdate, Unlocked
  <1>3. CASE /\ installed' = staging["pi"].staged[1]
             /\ staging' = [staging EXCEPT !["pi"].staged = NoFile]
             /\ mode' = "post" /\ inbox' = <<>>
             /\ daemon' = Boot(installed') /\ task' = [s \in Slots |-> Idle]
             /\ Fine
    <2>1. task[t].rel["pi"] \in Versions
      BY <1>1, <1>2 DEF Task, Releases, Components, TaskOK, Targets
    <2>2. staging["pi"].staged = Whole(task[t].rel["pi"]) BY <1>1, <1>2 DEF TaskOK
    <2>3. installed' = task[t].rel["pi"] BY <1>3, <2>1, <2>2, FileTypes
    <2>4. "pi" \in Components /\ staging["pi"] \in Downloads /\ staging \in [Components -> Downloads]
      BY <1>1 DEF TypeOK, Components
    <2>5. /\ [staging["pi"] EXCEPT !.staged = NoFile] \in Downloads
          /\ [staging["pi"] EXCEPT !.staged = NoFile].staged = NoFile
      BY <2>4, FileTypes DEF Downloads
    <2>6. staging' = [staging EXCEPT !["pi"] = [staging["pi"] EXCEPT !.staged = NoFile]]
      BY <1>3, <2>4
    <2>7. /\ staging' \in [Components -> Downloads]
          /\ \A c \in Components : staging'[c].staged \in {staging[c].staged, NoFile}
      BY <2>4, <2>5, <2>6
    <2>8. installed' \in Versions BY <2>1, <2>3
    <2>9. daemon' = Boot(installed') /\ task' = [s \in Slots |-> Idle] /\ inbox' = <<>>
          /\ mode' \in {"off", "post"} /\ (Fine \/ Fault)
      BY <1>3
    <2> QED BY ONLY IInv, <1>2, <2>7, <2>8, <2>9, RestartInv
  <1>4. CASE /\ End(t, "install") /\ Fault
             /\ UNCHANGED <<installed, staging, mode, inbox>>
    <2>1. /\ staging' \in [Components -> Downloads]
          /\ \A c \in Components : staging'[c].staged \in {staging[c].staged, NoFile}
      BY <1>1, <1>4 DEF TypeOK
    <2> QED BY <1>2, <1>4, <2>1, EndInv
  <1> QED BY <1>3, <1>4 DEF ApplyPiUpdate

-----------------------------------------------------------------------------
(* The server, the users, the power supply and the start-up check.         *)

LEMMA ServerInv ==
  ASSUME IInv, Server
  PROVE  IInv'
  <1>1. TypeOK BY DEF IInv
  <1>2. /\ UNCHANGED <<mode, installed, pico, elf, staging, daemon, task, failed>>
        /\ PowerCutIsRepaired
    BY DEF Server, Publish, Refresh, UpdateTrigger, disk, IInv
  <1>3. PowerCutIsRepaired' BY <1>2 DEF PowerCutIsRepaired
  <1>4. ASSUME published' \in [Components -> Versions],
               index' \in [Replicas -> [Components -> Versions]],
               inbox' \in Seq(Messages), left' \in [{"faults", "acts"} -> Nat]
        PROVE  IInv'
    <2>1. TypeOK' BY <1>1, <1>2, <1>4 DEF TypeOK
    <2> QED BY <1>2, <1>3, <2>1, CalmStep
  <1>5. ASSUME NEW msg \in Messages, ToPhone(msg) PROVE inbox' \in Seq(Messages)
    BY <1>1, <1>5, AppendProperties DEF TypeOK, ToPhone
  <1>6. ASSUME NEW c \in Components, Publish(c) PROVE IInv'
    <2>1. published[c] \in Versions /\ published[c] + 1 \in Versions
      BY <1>1, <1>6 DEF TypeOK, Publish, Versions
    <2>2. published' \in [Components -> Versions]
      BY <1>1, <1>6, <2>1 DEF TypeOK, Publish
    <2> QED BY <1>1, <1>4, <1>6, <2>2 DEF TypeOK, Publish
  <1>7. ASSUME NEW r \in Replicas, Refresh(r) PROVE IInv'
    <2>1. published["pi"] \in Targets /\ published["fw"] \in Targets
      BY <1>1, VersionTypes DEF TypeOK, Components
    <2>2. [type |-> "release", pi |-> published["pi"], fw |-> published["fw"]] \in Messages
      BY <2>1 DEF Messages
    <2>3. index' \in [Replicas -> [Components -> Versions]] BY <1>1, <1>7 DEF TypeOK, Refresh
    <2>4. inbox' \in Seq(Messages) BY <1>5, <1>7, <2>2 DEF Refresh
    <2> QED BY <1>1, <1>4, <1>7, <2>3, <2>4 DEF TypeOK, Refresh
  <1>8. ASSUME NEW a \in Targets, NEW b \in Targets, UpdateTrigger(a, b) PROVE IInv'
    <2>1. [type |-> "trigger", pi |-> a, fw |-> b] \in Messages BY DEF Messages
    <2>2. inbox' \in Seq(Messages) BY <1>5, <1>8, <2>1 DEF UpdateTrigger
    <2>3. left' \in [{"faults", "acts"} -> Nat]
      BY <1>1, <1>8, BudgetType DEF TypeOK, UpdateTrigger
    <2> QED BY <1>1, <1>4, <1>8, <2>2, <2>3 DEF TypeOK, UpdateTrigger
  <1> QED BY <1>6, <1>7, <1>8, VersionTypes DEF Server

LEMMA UsersInv ==
  ASSUME IInv, SwdProbe \/ CallBegins \/ ForbidAutoUpdate
  PROVE  IInv'
  <1>1. TypeOK /\ daemon \in Daemon BY DEF IInv, TypeOK
  <1>2. /\ UNCHANGED <<server, mode, disk, task, failed>> /\ (Fine \/ Fault \/ Spend("acts"))
        /\ PowerCutIsRepaired
    BY DEF SwdProbe, CallBegins, ForbidAutoUpdate, IInv
  <1>3. UNCHANGED <<published, index, inbox, mode, installed, pico, elf, staging, task, failed>>
    BY <1>2 DEF server, disk
  <1>4. PowerCutIsRepaired' BY <1>2, <1>3 DEF PowerCutIsRepaired
  <1>5. left' \in [{"faults", "acts"} -> Nat] BY <1>1, <1>2, BudgetType DEF TypeOK
  <1>6. ASSUME NEW d \in Daemon, daemon' = d, d.running = daemon.running, d.lock = daemon.lock
        PROVE  IInv'
    <2>1. TypeOK' BY <1>1, <1>3, <1>5, <1>6 DEF TypeOK
    <2> QED BY <1>3, <1>4, <1>6, <2>1, CalmStep
  <1>7. CASE SwdProbe
    <2>1. PICK x \in {"yes", "no"} : daemon' = [daemon EXCEPT !.probe = x]
      BY <1>7 DEF SwdProbe
    <2> DEFINE d == [daemon EXCEPT !.probe = x]
    <2>2. d \in Daemon BY <1>1, DaemonField
    <2>3. d.running = daemon.running /\ d.lock = daemon.lock BY <1>1 DEF Daemon
    <2>4. daemon' = d BY <2>1
    <2> HIDE DEF d
    <2> QED BY <1>6, <2>2, <2>3, <2>4
  <1>8. CASE CallBegins
    <2> DEFINE d == [daemon EXCEPT !.inCall = TRUE]
    <2>1. d \in Daemon BY <1>1, DaemonField
    <2>2. d.running = daemon.running /\ d.lock = daemon.lock BY <1>1 DEF Daemon
    <2>3. daemon' = d BY <1>8 DEF CallBegins
    <2> HIDE DEF d
    <2> QED BY <1>6, <2>1, <2>2, <2>3
  <1>9. CASE ForbidAutoUpdate
    <2> DEFINE d == [daemon EXCEPT !.allowed = FALSE]
    <2>1. d \in Daemon BY <1>1, DaemonField
    <2>2. d.running = daemon.running /\ d.lock = daemon.lock BY <1>1 DEF Daemon
    <2>3. daemon' = d BY <1>9 DEF ForbidAutoUpdate
    <2> HIDE DEF d
    <2> QED BY <1>6, <2>1, <2>2, <2>3
  <1> QED BY <1>7, <1>8, <1>9

LEMMA PowerCutInv ==
  ASSUME IInv, PowerCut
  PROVE  IInv'
  <1>1. TypeOK BY DEF IInv
  <1>2. /\ mode' \in {"off", "post"} /\ installed' \in Versions /\ daemon' = Boot(installed')
        /\ task' = [t \in Slots |-> Idle] /\ inbox' = <<>> /\ Fault
        /\ UNCHANGED <<published, index, pico, elf, failed, staging>>
    BY <1>1 DEF PowerCut, disk, TypeOK
  <1>3. /\ staging' \in [Components -> Downloads]
        /\ \A c \in Components : staging'[c].staged \in {staging[c].staged, NoFile}
    BY <1>1, <1>2 DEF TypeOK
  <1> QED BY <1>2, <1>3, RestartInv

(* POST leaves the daemon with a Pico that boots, or goes on to flash it.  *)
LEMMA StartInv ==
  ASSUME IInv, PowerOn \/ Post \/ ReflashPico
  PROVE  IInv'
  <1>1. TypeOK /\ daemon \in Daemon /\ GenuineArtifacts BY DEF IInv, TypeOK
  <1>2. /\ UNCHANGED <<server, installed, elf, staging, task>> /\ (Fine \/ Fault)
        /\ mode' \in {"post", "reflash", "up"}
    BY DEF PowerOn, Post, ReflashPico, disk, Fine
  <1>3. UNCHANGED <<published, index, inbox>> BY <1>2 DEF server
  <1>4. Flashed \in Firmware /\ Flashed # None BY <1>1, FlashedBoots
  <1>5. /\ pico' \in Firmware /\ failed' \in BOOLEAN
        /\ mode' = "up" => pico' # None \/ failed'
    BY <1>1, <1>4, VersionTypes DEF TypeOK, PowerOn, Post, ReflashPico, disk
  <1>6. \/ \E v \in {pico, pico', None} : daemon' = [daemon EXCEPT !.fwVer = v]
        \/ UNCHANGED daemon
    BY DEF PowerOn, Post, ReflashPico
  <1>7. daemon' \in Daemon /\ daemon'.running = daemon.running /\ daemon'.lock = daemon.lock
    <2>1. {pico, pico', None} \subseteq Firmware BY <1>1, <1>5, VersionTypes DEF TypeOK
    <2>2. CASE \E v \in {pico, pico', None} : daemon' = [daemon EXCEPT !.fwVer = v]
      <3>1. PICK v \in {pico, pico', None} : daemon' = [daemon EXCEPT !.fwVer = v] BY <2>2
      <3> DEFINE d == [daemon EXCEPT !.fwVer = v]
      <3>2. d \in Daemon BY <1>1, <2>1, DaemonField
      <3>3. d.running = daemon.running /\ d.lock = daemon.lock BY <1>1 DEF Daemon
      <3> HIDE DEF d
      <3> QED BY <3>1, <3>2, <3>3 DEF d
    <2>3. CASE UNCHANGED daemon BY <1>1, <2>3
    <2> QED BY <1>6, <2>2, <2>3
  <1>8. TypeOK' BY <1>1, <1>2, <1>3, <1>5, <1>7, BudgetType DEF TypeOK
  <1>9. PowerCutIsRepaired' BY <1>5 DEF PowerCutIsRepaired
  <1> QED BY <1>2, <1>7, <1>8, <1>9, CalmStep

-----------------------------------------------------------------------------
LEMMA InitInv == Init => IInv
  <1> SUFFICES ASSUME Init PROVE IInv OBVIOUS
  <1>1. 1 \in Versions /\ 1 \in Firmware /\ 1 # None BY DEF Versions, Firmware, Targets, None
  <1>2. Boot(1) \in Daemon /\ Boot(1).running = 1 BY <1>1, BootType
  <1>3. daemon \in Daemon /\ daemon.running = 1
    <2> DEFINE b == Boot(1)
               d == [b EXCEPT !.fwVer = 1]
    <2> HIDE DEF b
    <2>1. d \in Daemon BY <1>1, <1>2, DaemonField DEF b
    <2>2. d.running = 1 BY <1>2 DEF Daemon, b
    <2>3. daemon = d BY DEF Init, b
    <2> QED BY <2>1, <2>2, <2>3
  <1>4. /\ Idle \in Task /\ Idle.pc \in Unlocked /\ Idle.kind # "dev"
    <2>1. Idle.pc = "idle" /\ Idle.kind = "" BY DEF Idle
    <2> QED BY <2>1, IdleType DEF Unlocked
  <1>5. task \in [Slots -> Task] /\ \A t \in Slots : task[t] = Idle BY <1>4 DEF Init
  <1>6. NoPartial \in [marker : Targets, file : Files] /\ NoFile \in Files
    BY VersionTypes, FileTypes DEF NoPartial
  <1>7. [partial |-> NoPartial, staged |-> NoFile] \in Downloads BY <1>6 DEF Downloads
  <1>8. /\ staging \in [Components -> Downloads]
        /\ \A c \in Components : staging[c].staged = NoFile
    BY <1>7 DEF Init
  <1>9. elf \in Files /\ Genuine(elf) BY <1>1, FileTypes DEF Init, Genuine
  <1>10. TypeOK
    <2>1. published \in [Components -> Versions] BY <1>1 DEF Init
    <2>2. index \in [Replicas -> [Components -> Versions]] BY <2>1 DEF Init
    <2>3. inbox \in Seq(Messages)
      <3>1. inbox = <<>> BY DEF Init
      <3> QED BY <3>1
    <2>6. mode = "up" /\ failed = FALSE BY DEF Init
    <2>4. left \in [{"faults", "acts"} -> Nat]
      <3>1. left = [faults |-> MaxFaults, acts |-> MaxActs] BY DEF Init
      <3> QED BY <3>1
    <2>5. installed \in Versions /\ pico \in Firmware BY <1>1 DEF Init
    <2> QED BY <1>3, <1>5, <1>8, <1>9, <2>1, <2>2, <2>3, <2>4, <2>5, <2>6 DEF TypeOK
  <1>11. TasksOK
    <2> SUFFICES ASSUME NEW t \in Slots PROVE TaskOK(task[t], staging, installed)
      BY DEF TasksOK
    <2> QED BY <1>4, <1>5, WaitingJob
  <1>12. LockHeld BY <1>4, <1>5 DEF LockHeld
  <1>13. GenuineArtifacts BY <1>8, <1>9 DEF GenuineArtifacts
  <1>14. PowerCutIsRepaired BY <1>1 DEF Init, PowerCutIsRepaired
  <1>15. installed = 1 BY DEF Init
  <1> QED BY <1>3, <1>10, <1>11, <1>12, <1>13, <1>14, <1>15 DEF IInv

LEMMA Inductive == IInv /\ [Next]_vars => IInv'
  <1> SUFFICES ASSUME IInv, [Next]_vars PROVE IInv' OBVIOUS
  <1>1. CASE Server BY <1>1, ServerInv
  <1>2. CASE SwdProbe \/ CallBegins \/ ForbidAutoUpdate BY <1>2, UsersInv
  <1>3. CASE PowerCut BY <1>3, PowerCutInv
  <1>4. CASE PowerOn \/ Post \/ ReflashPico BY <1>4, StartInv
  <1>5. ASSUME NEW t \in Slots, Starts(t) PROVE IInv' BY <1>5, StartsInv
  <1>6. ASSUME NEW t \in Slots, Run(t) PROVE IInv'
    <2>1. CASE RunAutoUpdate(t) BY <2>1, RunAutoUpdateInv
    <2>2. CASE RunTargetedUpdate(t) BY <2>2, RunTargetedUpdateInv
    <2>3. CASE CheckVersion(t) BY <2>3, CheckVersionInv
    <2>4. CASE PlanFirmware(t) BY <2>4, PlanFirmwareInv
    <2>5. ASSUME NEW c \in Components, DownloadOpen(t, c) PROVE IInv' BY <2>5, DownloadOpenInv
    <2>6. ASSUME NEW c \in Components, DownloadCopy(t, c) PROVE IInv' BY <2>6, DownloadCopyInv
    <2>7. ASSUME NEW c \in Components, DownloadDone(t, c) PROVE IInv' BY <2>7, DownloadDoneInv
    <2>8. CASE ApplyFirmwareUpdate(t) BY <2>8, ApplyFirmwareUpdateInv
    <2>9. CASE FlashDone(t) BY <2>9, FlashDoneInv
    <2>10. CASE VerifyFirmware(t) BY <2>10, VerifyFirmwareInv
    <2>11. CASE ApplyPiUpdate(t) BY <2>11, ApplyPiUpdateInv
    <2> QED
      BY <1>6, <2>1, <2>2, <2>3, <2>4, <2>5, <2>6, <2>7, <2>8, <2>9, <2>10, <2>11 DEF Run
  <1>7. CASE UNCHANGED vars
    BY <1>7
    DEF vars, IInv, TypeOK, TasksOK, LockHeld, GenuineArtifacts, Genuine, PowerCutIsRepaired
  <1> QED BY <1>1, <1>2, <1>3, <1>4, <1>5, <1>6, <1>7 DEF Next

LEMMA Invariant == Spec => []IInv
  BY InitInv, Inductive, PTL DEF Spec

(* The files, the daemon's memory and every run (updater.go, main.go) keep *)
(* their types; in particular the installed version and the release a run  *)
(* moves to are versions that can be published.                            *)
THEOREM TypeCorrect == Spec => []TypeOK
  <1>1. IInv => TypeOK BY DEF IInv
  <1> QED BY <1>1, Invariant, PTL

(* Download and updateInProgress: for any number of runs, replicas and     *)
(* releases, and across interrupted and resumed downloads, what is staged  *)
(* or flashed is one release from its first block to its last.             *)
THEOREM GenuineFiles == Spec => []GenuineArtifacts
  <1>1. IInv => GenuineArtifacts BY DEF IInv
  <1> QED BY <1>1, Invariant, PTL

(* POST and reflashPico: a Pico that a power cut left half flashed boots   *)
(* again before the daemon is up, unless that flash fails in its turn.     *)
THEOREM PowerCutRepaired == Spec => []PowerCutIsRepaired
  <1>1. IInv => PowerCutIsRepaired BY DEF IInv
  <1> QED BY <1>1, Invariant, PTL

(* resolveTargetRelease: whichever replica answered, and whatever was      *)
(* published meanwhile, only a run that was asked for a version installs   *)
(* an older Pi binary than the one it replaces.                            *)
THEOREM NeverDowngrades == Spec => LatestNeverDowngrades
  <1>1. IInv /\ [Next]_vars =>
          (installed' < installed =>
             \E t \in Slots : task[t].pc = "install" /\ task[t].target.pi # None)
    <2> SUFFICES ASSUME IInv, [Next]_vars, installed' < installed
                 PROVE  \E t \in Slots : task[t].pc = "install" /\ task[t].target.pi # None
      OBVIOUS
    <2>1. installed' # installed BY DEF IInv, TypeOK, Versions
    <2>2. PICK t \in Slots : ApplyPiUpdate(t) /\ installed' = staging["pi"].staged[1]
      <3>1. \E t \in Slots : Run(t) \/ Starts(t)
        BY <2>1
        DEF Next, vars, disk, Server, Publish, Refresh, UpdateTrigger, SwdProbe, CallBegins,
            ForbidAutoUpdate, PowerCut, PowerOn, Post, ReflashPico
      <3>2. PICK t \in Slots : Run(t) \/ Starts(t) BY <3>1
      <3>3. ~Starts(t)
        BY <2>1
        DEF Starts, OnTrigger, OnRelease, OnUpdateCode, StartupCheck, HangupCall, DevUpload, disk
      <3>4. ApplyPiUpdate(t)
        BY <2>1, <3>2, <3>3
        DEF Run, RunAutoUpdate, RunTargetedUpdate, CheckVersion, PlanFirmware, DownloadOpen,
            DownloadCopy, DownloadDone, ApplyFirmwareUpdate, FlashDone, VerifyFirmware, disk
      <3>5. installed' = staging["pi"].staged[1] BY <2>1, <3>4 DEF ApplyPiUpdate
      <3> QED BY <3>4, <3>5
    <2>3. task[t] \in Task /\ task[t].pc = "install" /\ TaskOK(task[t], staging, installed)
      BY <2>2 DEF IInv, TypeOK, TasksOK, ApplyPiUpdate
    <2>4. /\ task[t].kind # "dev" /\ task[t].rel["pi"] # None
          /\ staging["pi"].staged = Whole(task[t].rel["pi"])
          /\ task[t].target["pi"] = None => task[t].rel["pi"] > installed
      BY <2>3 DEF TaskOK, DevPCs, Resolved
    <2>5. task[t].rel["pi"] \in Versions
      BY <2>3, <2>4 DEF Task, Releases, Components, Targets
    <2>6. installed' = task[t].rel["pi"] BY <2>2, <2>4, <2>5, FileTypes
    <2>7. installed \in Nat /\ task[t].rel["pi"] \in Nat
      BY <2>5, VersionTypes DEF IInv, TypeOK
    <2>8. task[t].target["pi"] # None BY <2>4, <2>6, <2>7
    <2> QED BY <2>3, <2>8
  <1> QED BY <1>1, Invariant, PTL DEF Spec, LatestNeverDowngrades

-----------------------------------------------------------------------------
(* The deployment of the server, which shares nothing with the phone's     *)
(* updates.                                                                *)

(***************************************************************************)
(* The inductive invariant of a deployment.  A run carries the tag and the *)
(* ETag the file holds until it writes them (CarriesFile).  Up to its      *)
(* first command the file tells of containers nobody touches; from there   *)
(* on it says "in_progress", and what the run will write is what it has    *)
(* seen (FileIsTrue, ResultIsTrue).  An ETag, in the file or of a run, is  *)
(* not newer than the list, and while it is the list's the newest release  *)
(* is the one that goes with it (Looked).                                  *)
(***************************************************************************)
Before == {"retry", "github", "preflight", "begin"}
Working == D!Steps \cup {"failed", "succeed"}
Achieved(st) == st.status \in {"success", "failed_reverted"} => D!Healthy(st.deployed)
Looked(etag, v) == etag <= edition /\ (etag = edition => D!Newest \in {D!None, v})

Tags == 0..MaxTag
DeployClasses == D!Steps \cup {"none", "critical"}
DeployStates ==
  [deployed : Tags, tag : Tags, etag : Nat, alert : DeployClasses,
   status : {"none", "in_progress", "success", "failed", "failed_reverted", "critical"}]
DeployRuns ==
  [pc : Before \cup Working \cup {"idle"}, st : DeployStates, rel : Tags, etag : Nat,
   reverting : BOOLEAN, cancelled : BOOLEAN, class : DeployClasses]

DeployTypes == /\ file \in DeployStates /\ run \in DeployRuns
               /\ edition \in Nat /\ releases \subseteq Tags \ {0}
CarriesFile == run.pc # "idle" => run.st.etag = file.etag /\ run.st.deployed = file.deployed
FileIsTrue ==
  /\ run.pc \notin Working => Achieved(file)
  /\ run.pc \in Before => run.st.status = file.status
  /\ run.pc \in Working => file.status = "in_progress"
ResultIsTrue ==
  /\ run.pc \in D!Steps => run.st.status = "in_progress"
  /\ run.pc = "failed" => Achieved(run.st)
  /\ run.pc = "succeed" => D!Healthy(run.rel)
ListIsRead ==
  /\ Looked(file.etag, file.deployed)
  /\ run.pc \in Working \cup {"preflight", "begin"} => Looked(run.etag, run.rel)

DeployInv == DeployTypes /\ CarriesFile /\ FileIsTrue /\ ResultIsTrue /\ ListIsRead

(* The newest release is a tag of the list.                                *)
LEMMA NewestIsATag ==
  ASSUME MaxTag \in Nat, releases \subseteq Tags \ {0}
  PROVE  D!Newest \in Tags
  <1>1. CASE releases = {} BY <1>1 DEF D!Newest, D!None, Tags
  <1>2. CASE releases # {}
    <2> DEFINE S == {MaxTag - t : t \in releases}
    <2>1. S \subseteq Nat /\ S # {}
      <3>1. ASSUME NEW t \in releases PROVE MaxTag - t \in Nat BY DEF Tags
      <3>2. S # {} BY <1>2
      <3> QED BY <3>1, <3>2
    <2>2. IsWellFoundedOn(OpToRel(<, Nat), Nat) BY NatLessThanWellFounded
    <2>3. PICK x \in S : \A y \in S : ~ (<<y, x>> \in OpToRel(<, Nat)) BY <2>1, <2>2, WFMin
    <2>4. PICK t \in releases : x = MaxTag - t BY <2>3
    <2>5. ASSUME NEW u \in releases PROVE u <= t
      <3>1. MaxTag - u \in S OBVIOUS
      <3>2. ~ (MaxTag - u < x) BY <3>1, <2>1, <2>3 DEF OpToRel
      <3> QED BY <3>2, <2>4 DEF Tags
    <2>6. D!Newest \in releases BY <1>2, <2>5 DEF D!Newest
    <2> QED BY <2>6
  <1> QED BY <1>1, <1>2

LEMMA DeployStart == MaxTag \in Nat \ {0} /\ D!DeployInit => DeployInv
  <1> SUFFICES ASSUME MaxTag \in Nat \ {0}, D!DeployInit PROVE DeployInv OBVIOUS
  <1>1. /\ edition = 1 /\ releases = {1} /\ \A s \in Services : running[s] = 1
        /\ file = [D!Empty EXCEPT !.deployed = 1] /\ run = D!Rest
    BY DEF D!DeployInit
  <1>2. D!Empty \in DeployStates BY DEF D!Empty, D!None, DeployStates, Tags, DeployClasses
  <1>3. /\ file \in DeployStates /\ file.deployed = 1
        /\ file.status = D!Empty.status /\ file.etag = D!Empty.etag
    BY <1>1, <1>2 DEF DeployStates, Tags
  <1>4. run \in DeployRuns BY <1>1, <1>2 DEF D!Rest, D!None, DeployRuns, Tags, DeployClasses
  <1>5. run.pc = "idle" /\ file.status = "none" /\ file.etag = 0 BY <1>1, <1>3 DEF D!Rest, D!Empty
  <1>6. DeployTypes BY <1>1, <1>3, <1>4 DEF DeployTypes, Tags
  <1> QED BY <1>1, <1>5, <1>6
       DEF DeployInv, CarriesFile, FileIsTrue, ResultIsTrue, ListIsRead, Looked, Achieved,
           Before, Working, D!Steps

(* The release list changes: no ETag is the list's any more.               *)
LEMMA ListStep ==
  ASSUME DeployInv, edition' = edition + 1, releases' \subseteq Tags \ {0},
         UNCHANGED <<sound, running, file, run>>
  PROVE  DeployInv'
  <1>1. DeployTypes' BY DEF DeployInv, DeployTypes
  <1>2. ASSUME NEW e \in Nat, NEW v, Looked(e, v) PROVE Looked(e, v)'
    BY <1>2 DEF DeployInv, DeployTypes, Looked
  <1>3. file.etag \in Nat /\ run.etag \in Nat
    BY DEF DeployInv, DeployTypes, DeployStates, DeployRuns
  <1>4. ListIsRead' BY <1>2, <1>3 DEF DeployInv, ListIsRead
  <1>5. \A v : D!Healthy(v)' <=> D!Healthy(v) BY DEF D!Healthy
  <1> QED BY <1>1, <1>4, <1>5
       DEF DeployInv, CarriesFile, FileIsTrue, ResultIsTrue, Achieved

(* The list and what the containers run stay.                              *)
LEMMA SameList ==
  ASSUME UNCHANGED <<releases, edition>>
  PROVE  /\ \A e, v : Looked(e, v)' <=> Looked(e, v)
         /\ D!Newest' = D!Newest
  BY DEF Looked, D!Newest

LEMMA SameContainers ==
  ASSUME UNCHANGED <<sound, running>>
  PROVE  \A v : D!Healthy(v)' <=> D!Healthy(v)
  BY DEF D!Healthy

(* A run ends, and the file is as it was or tells the truth.               *)
LEMMA Ended ==
  ASSUME MaxTag \in Nat, DeployInv, run' = D!Rest,
         UNCHANGED <<releases, edition, sound, running>>,
         file' \in DeployStates, Achieved(file'), Looked(file'.etag, file'.deployed)
  PROVE  DeployInv'
  <1>1. D!Empty \in DeployStates BY DEF D!Empty, D!None, DeployStates, Tags, DeployClasses
  <1>2. run' \in DeployRuns /\ run'.pc = "idle"
    BY <1>1 DEF D!Rest, D!None, DeployRuns, Tags, DeployClasses
  <1>3. DeployTypes' BY <1>2 DEF DeployInv, DeployTypes
  <1>4. Achieved(file)' /\ Looked(file.etag, file.deployed)'
    BY SameList, SameContainers DEF Achieved
  <1> QED BY <1>2, <1>3, <1>4
       DEF DeployInv, CarriesFile, FileIsTrue, ResultIsTrue, ListIsRead, Before, Working, D!Steps

LEMMA FileAchieved ==
  ASSUME DeployInv
  PROVE  /\ file \in DeployStates /\ Looked(file.etag, file.deployed)
         /\ Achieved(file)
         /\ run \in DeployRuns /\ run.st \in DeployStates
  BY DEF DeployInv, DeployTypes, FileIsTrue, ListIsRead, Achieved, DeployRuns

LEMMA EndedUnwritten ==
  ASSUME MaxTag \in Nat, DeployInv, run' = D!Rest,
         UNCHANGED <<releases, edition, sound, running, file>>
  PROVE  DeployInv'
  BY Ended, FileAchieved

(* A run goes on before its first command.                                 *)
LEMMA GoesOnBefore ==
  ASSUME DeployInv, UNCHANGED <<releases, edition, sound, running>>,
         file' \in DeployStates, run' \in DeployRuns, run'.pc \in Before,
         Achieved(file'), Looked(file'.etag, file'.deployed),
         run'.st.etag = file'.etag, run'.st.deployed = file'.deployed,
         run'.st.status = file'.status,
         run'.pc \in {"preflight", "begin"} => Looked(run'.etag, run'.rel)
  PROVE  DeployInv'
  <1>1. DeployTypes' BY DEF DeployInv, DeployTypes
  <1>2. Achieved(file)' /\ Looked(file.etag, file.deployed)'
    BY SameList, SameContainers DEF Achieved
  <1>3. run'.pc \in {"preflight", "begin"} => Looked(run.etag, run.rel)' BY SameList
  <1>4. run'.pc \notin Working /\ run'.pc \notin D!Steps BY DEF Before, Working, D!Steps
  <1>5. FileIsTrue' BY <1>2, <1>4 DEF FileIsTrue
  <1>6. ResultIsTrue' BY <1>4 DEF ResultIsTrue, Before
  <1>7. ListIsRead' BY <1>2, <1>3, <1>4 DEF ListIsRead
  <1> QED BY <1>1, <1>5, <1>6, <1>7 DEF DeployInv, CarriesFile

LEMMA TickStep ==
  ASSUME MaxTag \in Nat, DeployInv, D!Tick \/ D!Retry
  PROVE  DeployInv'
  <1> DEFINE r(pc) == [D!Rest EXCEPT !.pc = pc, !.st = file]
  <1>1. /\ UNCHANGED <<releases, edition, sound, running, file>>
        /\ \E pc \in {"github", "retry"} : run' = r(pc)
    BY DEF D!Tick, D!Retry
  <1>2. D!Rest \in DeployRuns
    BY DEF D!Empty, D!None, DeployStates, D!Rest, DeployRuns, Tags, DeployClasses
  <1>3. ASSUME NEW pc \in {"github", "retry"}
        PROVE  r(pc) \in DeployRuns /\ r(pc).pc = pc /\ r(pc).st = file
    BY <1>2, FileAchieved DEF DeployRuns, Before
  <1> HIDE DEF r
  <1>4. run' \in DeployRuns /\ run'.pc \in {"github", "retry"} /\ run'.st = file BY <1>1, <1>3
  <1> QED BY <1>1, <1>4, FileAchieved, GoesOnBefore DEF Before

LEMMA ClearAttemptStep ==
  ASSUME MaxTag \in Nat, DeployInv, D!ClearAttempt
  PROVE  DeployInv'
  <1> DEFINE st == [run.st EXCEPT !.tag = D!None, !.status = "none"]
             r(s) == [run EXCEPT !.pc = "github", !.st = s]
  <1>1. /\ run.pc = "retry" /\ UNCHANGED <<releases, edition, sound, running>>
        /\ \/ file' = st /\ run' = r(st)
           \/ UNCHANGED file /\ run' = D!Rest
    BY DEF D!ClearAttempt, D!Written, D!NotWritten, D!Ends
  <1>2. CASE UNCHANGED file /\ run' = D!Rest BY <1>1, <1>2, EndedUnwritten
  <1>3. CASE file' = st /\ run' = r(st)
    <2>1. D!None \in Tags BY DEF D!None, Tags
    <2>2. /\ st \in DeployStates /\ st.status = "none" /\ st.etag = run.st.etag
          /\ st.deployed = run.st.deployed
      BY <2>1, FileAchieved DEF DeployStates
    <2> HIDE DEF st
    <2>3. r(st) \in DeployRuns /\ r(st).pc = "github" /\ r(st).st = st
      BY <2>2, FileAchieved DEF DeployRuns, Before
    <2> HIDE DEF r
    <2>4. run.st.etag = file.etag /\ run.st.deployed = file.deployed
      BY <1>1 DEF DeployInv, CarriesFile
    <2>5. Achieved(file') BY <1>3, <2>2 DEF Achieved
    <2> QED BY <1>1, <1>3, <2>2, <2>3, <2>4, <2>5, FileAchieved, GoesOnBefore DEF Before
  <1> QED BY <1>1, <1>2, <1>3

LEMMA AskGitHubStep ==
  ASSUME MaxTag \in Nat, DeployInv, D!AskGitHub
  PROVE  DeployInv'
  <1> DEFINE st == [run.st EXCEPT !.etag = edition]
             r == [run EXCEPT !.pc = "preflight", !.rel = D!Newest, !.etag = edition]
  <1>1. /\ run.pc = "github" /\ UNCHANGED <<releases, edition, sound, running>>
        /\ \/ UNCHANGED file /\ run' = D!Rest
           \/ file' = st /\ run' = D!Rest /\ D!Newest \in {D!None, run.st.deployed}
           \/ UNCHANGED file /\ run' = r
    BY DEF D!AskGitHub, D!Written, D!NotWritten, D!Ends
  <1>2. edition \in Nat /\ D!Newest \in Tags BY NewestIsATag DEF DeployInv, DeployTypes
  <1>3. /\ run.st.etag = file.etag /\ run.st.deployed = file.deployed
        /\ run.st.status = file.status
    BY <1>1 DEF DeployInv, CarriesFile, FileIsTrue, Before
  <1>4. CASE UNCHANGED file /\ run' = D!Rest BY <1>1, <1>4, EndedUnwritten
  <1>5. CASE file' = st /\ run' = D!Rest /\ D!Newest \in {D!None, run.st.deployed}
    <2>1. /\ st \in DeployStates /\ st.etag = edition /\ st.deployed = run.st.deployed
          /\ st.status = run.st.status
      BY <1>2, FileAchieved DEF DeployStates
    <2> HIDE DEF st
    <2>2. Achieved(file') BY <1>3, <1>5, <2>1, FileAchieved DEF Achieved
    <2>3. Looked(file'.etag, file'.deployed) BY <1>2, <1>5, <2>1 DEF Looked
    <2> QED BY <1>1, <1>5, <2>1, <2>2, <2>3, Ended
  <1>6. CASE UNCHANGED file /\ run' = r
    <2>1. /\ r \in DeployRuns /\ r.pc = "preflight" /\ r.st = run.st /\ r.rel = D!Newest
          /\ r.etag = edition
      BY <1>2, FileAchieved DEF DeployRuns, Before
    <2> HIDE DEF r
    <2>2. Looked(run'.etag, run'.rel) BY <1>2, <1>6, <2>1 DEF Looked
    <2> QED BY <1>1, <1>3, <1>6, <2>1, <2>2, FileAchieved, GoesOnBefore DEF Before
  <1> QED BY <1>1, <1>4, <1>5, <1>6

LEMMA PreflightStep ==
  ASSUME MaxTag \in Nat, DeployInv, D!Preflight
  PROVE  DeployInv'
  <1> DEFINE r == [run EXCEPT !.pc = "begin"]
  <1>1. /\ run.pc = "preflight" /\ UNCHANGED <<releases, edition, sound, running, file>>
        /\ run' = D!Rest \/ run' = r
    BY DEF D!Preflight, D!Ends, D!Goto
  <1>2. CASE run' = D!Rest BY <1>1, <1>2, EndedUnwritten
  <1>3. CASE run' = r
    <2>1. /\ r \in DeployRuns /\ r.pc = "begin" /\ r.st = run.st
          /\ r.rel = run.rel /\ r.etag = run.etag
      BY FileAchieved DEF DeployRuns, Before
    <2> HIDE DEF r
    <2>3. /\ run.st.etag = file.etag /\ run.st.deployed = file.deployed
          /\ run.st.status = file.status /\ Looked(run.etag, run.rel)
      BY <1>1 DEF DeployInv, CarriesFile, FileIsTrue, ListIsRead, Before
    <2> QED BY <1>1, <1>3, <2>1, <2>3, FileAchieved, GoesOnBefore DEF Before
  <1> QED BY <1>1, <1>2, <1>3

(* A run that works goes on; the containers may be replaced.               *)
LEMMA GoesOnWorking ==
  ASSUME DeployInv, UNCHANGED <<releases, edition>>,
         file' \in DeployStates, run' \in DeployRuns, run'.pc \in Working,
         file'.status = "in_progress", file'.etag = file.etag, file'.deployed = file.deployed,
         run'.st.etag = file.etag, run'.st.deployed = file.deployed,
         run'.pc \in D!Steps => run'.st.status = "in_progress",
         run'.pc = "failed" => Achieved(run.st)',
         run'.pc = "succeed" => D!Healthy(run.rel)',
         Looked(run'.etag, run'.rel)
  PROVE  DeployInv'
  <1>1. DeployTypes' BY DEF DeployInv, DeployTypes
  <1>2. ListIsRead'
    <2>1. Looked(file'.etag, file'.deployed) BY DEF DeployInv, ListIsRead
    <2> QED BY <2>1, SameList DEF ListIsRead
  <1>3. FileIsTrue' BY DEF FileIsTrue, Working, D!Steps, Before
  <1>4. ResultIsTrue' BY DEF ResultIsTrue
  <1> QED BY <1>1, <1>2, <1>3, <1>4 DEF DeployInv, CarriesFile

LEMMA BeginStep ==
  ASSUME MaxTag \in Nat, DeployInv, D!Begin
  PROVE  DeployInv'
  <1> DEFINE st == [run.st EXCEPT !.tag = run.rel, !.status = "in_progress"]
             r(s) == [run EXCEPT !.pc = "login", !.st = s]
  <1>1. /\ run.pc = "begin" /\ UNCHANGED <<releases, edition, sound, running>>
        /\ \/ file' = st /\ run' = r(st)
           \/ UNCHANGED file /\ run' = D!Rest
    BY DEF D!Begin, D!Written, D!NotWritten, D!Ends
  <1>2. CASE UNCHANGED file /\ run' = D!Rest BY <1>1, <1>2, EndedUnwritten
  <1>3. CASE file' = st /\ run' = r(st)
    <2>1. run.rel \in Tags BY FileAchieved DEF DeployRuns
    <2>2. /\ st \in DeployStates /\ st.status = "in_progress" /\ st.etag = run.st.etag
          /\ st.deployed = run.st.deployed
      BY <2>1, FileAchieved DEF DeployStates
    <2> HIDE DEF st
    <2>3. /\ r(st) \in DeployRuns /\ r(st).pc = "login" /\ r(st).st = st
          /\ r(st).etag = run.etag /\ r(st).rel = run.rel
      BY <2>2, FileAchieved DEF DeployRuns, Working, D!Steps
    <2> HIDE DEF r
    <2>4. /\ run.st.etag = file.etag /\ run.st.deployed = file.deployed
          /\ Looked(run.etag, run.rel)
      BY <1>1 DEF DeployInv, CarriesFile, ListIsRead
    <2> QED BY <1>1, <1>3, <2>2, <2>3, <2>4, GoesOnWorking DEF Working, D!Steps
  <1> QED BY <1>1, <1>2, <1>3

(* What a run that works knows.                                            *)
LEMMA WorkingKnows ==
  ASSUME DeployInv, run.pc \in Working
  PROVE  /\ run.st.etag = file.etag /\ run.st.deployed = file.deployed
         /\ file.status = "in_progress" /\ Looked(run.etag, run.rel)
         /\ run.pc \in D!Steps => run.st.status = "in_progress"
  BY DEF DeployInv, CarriesFile, FileIsTrue, ResultIsTrue, ListIsRead, Working, D!Steps

(* A failed command leads to the revert, or to a result nobody achieved.   *)
LEMMA FailedRun ==
  ASSUME NEW r \in DeployRuns, NEW step \in D!Steps, r.st.status = "in_progress"
  PROVE  LET f == D!Failed(r, step)
         IN  /\ f \in DeployRuns /\ f.rel = r.rel /\ f.etag = r.etag
             /\ f.st.etag = r.st.etag /\ f.st.deployed = r.st.deployed
             /\ \/ f.pc = "login" /\ f.st.status = "in_progress"
                \/ f.pc = "failed" /\ f.st.status \in {"failed", "critical"}
  <1>1. r.st \in DeployStates BY DEF DeployRuns
  <1> DEFINE s(x) == [r.st EXCEPT !.status = x]
  <1>2. ASSUME NEW x \in {"failed", "critical"}
        PROVE  /\ s(x) \in DeployStates /\ s(x).status = x
               /\ s(x).etag = r.st.etag /\ s(x).deployed = r.st.deployed
    BY <1>1 DEF DeployStates
  <1> HIDE DEF s
  <1>3. step \in DeployClasses /\ "critical" \in DeployClasses BY DEF DeployClasses
  <1>4. {"failed", "login"} \subseteq Before \cup Working \cup {"idle"} BY DEF Working, D!Steps
  <1> DEFINE g == [r EXCEPT !.pc = "login", !.reverting = TRUE, !.class = step]
             h(x, c) == [r EXCEPT !.pc = "failed", !.st = s(x), !.class = c]
  <1>5. /\ g \in DeployRuns /\ g.pc = "login" /\ g.rel = r.rel /\ g.etag = r.etag /\ g.st = r.st
    BY <1>3, <1>4 DEF DeployRuns
  <1>6. ASSUME NEW x \in {"failed", "critical"}, NEW c \in DeployClasses
        PROVE  /\ h(x, c) \in DeployRuns /\ h(x, c).pc = "failed" /\ h(x, c).rel = r.rel
               /\ h(x, c).etag = r.etag /\ h(x, c).st = s(x)
    BY <1>2, <1>3, <1>4 DEF DeployRuns
  <1>7. D!Failed(r, step) \in {g, h("critical", "critical"), h("failed", step)}
    BY DEF D!Failed, s
  <1> HIDE DEF g, h
  <1> QED BY <1>2, <1>3, <1>5, <1>6, <1>7

LEMMA CommandStep ==
  ASSUME MaxTag \in Nat, DeployInv, NEW step \in D!Steps, D!Command(step)
  PROVE  DeployInv'
  <1>1. /\ run.pc = step /\ UNCHANGED <<releases, edition, sound, file>>
        /\ run.pc \in Working /\ run.st.status = "in_progress"
    BY WorkingKnows DEF D!Command, Working
  <1>2. /\ file' \in DeployStates /\ file'.status = "in_progress" /\ file'.etag = file.etag
        /\ file'.deployed = file.deployed
    BY <1>1, WorkingKnows, FileAchieved
  <1>3. CASE run' = D!Failed(run, step)
    <2> DEFINE f == D!Failed(run, step)
    <2>1. /\ f \in DeployRuns /\ f.rel = run.rel /\ f.etag = run.etag
          /\ f.st.etag = run.st.etag /\ f.st.deployed = run.st.deployed
          /\ \/ f.pc = "login" /\ f.st.status = "in_progress"
             \/ f.pc = "failed" /\ f.st.status \in {"failed", "critical"}
      BY <1>1, FailedRun, FileAchieved
    <2> HIDE DEF f
    <2>2. run' = f BY <1>3 DEF f
    <2>3. run'.pc = "failed" => Achieved(run.st)' BY <2>1, <2>2 DEF Achieved
    <2> QED BY <1>1, <1>2, <2>1, <2>2, <2>3, WorkingKnows, GoesOnWorking DEF Working, D!Steps
  <1>4. CASE step # "healthcheck" /\ run' = [run EXCEPT !.pc = D!After(step)]
    <2> DEFINE r == [run EXCEPT !.pc = D!After(step)]
    <2>1. D!After(step) \in D!Steps BY <1>4 DEF D!After, D!Steps
    <2>2. /\ r \in DeployRuns /\ r.pc \in D!Steps /\ r.st = run.st /\ r.rel = run.rel
          /\ r.etag = run.etag
      BY <2>1, FileAchieved DEF DeployRuns, Working
    <2> HIDE DEF r
    <2>3. run' = r BY <1>4 DEF r
    <2>4. run'.pc \in Working /\ run'.pc # "failed" /\ run'.pc # "succeed"
      BY <2>2, <2>3 DEF Working, D!Steps
    <2> QED BY <1>1, <1>2, <2>2, <2>3, <2>4, WorkingKnows, GoesOnWorking
  <1>5. CASE /\ step = "healthcheck" /\ D!Healthy(D!Version(run)) /\ run' = D!Deployed(run)
             /\ running' = running
    <2> DEFINE s == [run.st EXCEPT !.status = "failed_reverted"]
               r == [run EXCEPT !.pc = "failed", !.st = s]
               q == [run EXCEPT !.pc = "succeed"]
    <2>1. /\ s \in DeployStates /\ s.etag = run.st.etag /\ s.deployed = run.st.deployed
      BY FileAchieved DEF DeployStates
    <2> HIDE DEF s
    <2>2. CASE run.reverting
      <3>1. run' = r BY <1>5, <2>2 DEF D!Deployed, s
      <3>2. /\ r \in DeployRuns /\ r.pc = "failed" /\ r.st = s /\ r.rel = run.rel
            /\ r.etag = run.etag
        BY <2>1, FileAchieved DEF DeployRuns, Working
      <3> HIDE DEF r
      <3>3. D!Healthy(s.deployed) BY <1>5, <2>1, <2>2 DEF D!Version
      <3>4. Achieved(run.st)'
        BY <1>1, <1>5, <3>1, <3>2, <3>3, SameContainers DEF Achieved
      <3> QED BY <1>1, <1>2, <2>1, <3>1, <3>2, <3>4, WorkingKnows, GoesOnWorking
           DEF Working, D!Steps
    <2>3. CASE ~ run.reverting
      <3>1. run' = q BY <1>5, <2>3 DEF D!Deployed
      <3>2. /\ q \in DeployRuns /\ q.pc = "succeed" /\ q.st = run.st /\ q.rel = run.rel
            /\ q.etag = run.etag
        BY FileAchieved DEF DeployRuns, Working
      <3> HIDE DEF q
      <3>3. D!Healthy(run.rel) BY <1>5, <2>3 DEF D!Version
      <3>4. D!Healthy(run.rel)' BY <1>1, <1>5, <3>1, <3>2, <3>3, SameContainers
      <3> QED BY <1>1, <1>2, <3>1, <3>2, <3>4, WorkingKnows, GoesOnWorking
           DEF Working, D!Steps
    <2> QED BY <2>2, <2>3
  <1> QED BY <1>3, <1>4, <1>5 DEF D!Command

LEMMA FinalizeStep ==
  ASSUME MaxTag \in Nat, DeployInv, D!Finalize
  PROVE  DeployInv'
  <1> DEFINE st(a) == [run.st EXCEPT !.alert = a]
  <1>1. /\ run.pc = "failed" /\ run' = D!Rest /\ UNCHANGED <<releases, edition, sound, running>>
        /\ UNCHANGED file \/ \E a \in {run.class, run.st.alert} : file' = st(a)
    <2>1. PICK mailed \in BOOLEAN :
            \/ D!Written(st(IF mailed THEN run.class ELSE run.st.alert))
            \/ D!NotWritten
      BY DEF D!Finalize
    <2> HIDE DEF st
    <2> QED BY <2>1 DEF D!Finalize, D!Written, D!NotWritten, D!Ends
  <1>2. CASE UNCHANGED file BY <1>1, <1>2, EndedUnwritten
  <1>3. ASSUME NEW a \in {run.class, run.st.alert}, file' = st(a) PROVE DeployInv'
    <2>1. a \in DeployClasses BY FileAchieved DEF DeployRuns, DeployStates
    <2>2. /\ st(a) \in DeployStates /\ st(a).etag = run.st.etag
          /\ st(a).deployed = run.st.deployed /\ st(a).status = run.st.status
      BY <2>1, FileAchieved DEF DeployStates
    <2> HIDE DEF st
    <2>3. run.st.etag = file.etag /\ run.st.deployed = file.deployed /\ Achieved(run.st)
      BY <1>1 DEF DeployInv, CarriesFile, ResultIsTrue
    <2>4. Achieved(file') BY <1>3, <2>2, <2>3 DEF Achieved
    <2> QED BY <1>1, <1>3, <2>2, <2>3, <2>4, FileAchieved, Ended
  <1> QED BY <1>1, <1>2, <1>3

LEMMA SucceedStep ==
  ASSUME MaxTag \in Nat, DeployInv, D!Succeed
  PROVE  DeployInv'
  <1> DEFINE st == [run.st EXCEPT !.deployed = run.rel, !.status = "success",
                                     !.etag = run.etag, !.alert = "none"]
  <1>1. /\ run.pc = "succeed" /\ run' = D!Rest /\ UNCHANGED <<releases, edition, sound, running>>
        /\ UNCHANGED file \/ file' = st
    BY DEF D!Succeed, D!Written, D!NotWritten, D!Ends
  <1>2. CASE UNCHANGED file BY <1>1, <1>2, EndedUnwritten
  <1>3. CASE file' = st
    <2>1. run.rel \in Tags /\ run.etag \in Nat /\ "none" \in DeployClasses
      BY FileAchieved DEF DeployRuns, DeployClasses
    <2>2. st \in DeployStates /\ st.etag = run.etag /\ st.deployed = run.rel
      BY <2>1, FileAchieved DEF DeployStates
    <2> HIDE DEF st
    <2>3. D!Healthy(run.rel) /\ Looked(run.etag, run.rel)
      BY <1>1 DEF DeployInv, ResultIsTrue, ListIsRead, Working
    <2>4. Achieved(file') BY <1>3, <2>2, <2>3 DEF Achieved
    <2> QED BY <1>1, <1>3, <2>2, <2>3, <2>4, Ended
  <1> QED BY <1>1, <1>2, <1>3

LEMMA TerminateStep ==
  ASSUME DeployInv, D!Terminate
  PROVE  DeployInv'
  <1> DEFINE r == [run EXCEPT !.cancelled = TRUE]
  <1>1. run' = r /\ UNCHANGED <<releases, edition, sound, running, file>> BY DEF D!Terminate
  <1>2. /\ r \in DeployRuns /\ r.pc = run.pc /\ r.st = run.st /\ r.rel = run.rel
        /\ r.etag = run.etag
    BY FileAchieved DEF DeployRuns
  <1> HIDE DEF r
  <1>3. DeployTypes' BY <1>1, <1>2 DEF DeployInv, DeployTypes
  <1>4. CarriesFile' BY <1>1, <1>2 DEF DeployInv, CarriesFile
  <1>5. FileIsTrue'
    BY <1>1, <1>2, SameContainers DEF DeployInv, FileIsTrue, Achieved
  <1>6. ResultIsTrue'
    BY <1>1, <1>2, SameContainers DEF DeployInv, ResultIsTrue, Achieved
  <1>7. ListIsRead' BY <1>1, <1>2, SameList DEF DeployInv, ListIsRead
  <1> QED BY <1>3, <1>4, <1>5, <1>6, <1>7 DEF DeployInv

(* Images are pushed: nothing the invariant speaks of changes.             *)
LEMMA WorldUnchanged ==
  ASSUME DeployInv, UNCHANGED <<releases, edition, sound, running, file, run>>
  PROVE  DeployInv'
  <1>1. DeployTypes' /\ CarriesFile' BY DEF DeployInv, DeployTypes, CarriesFile
  <1>2. FileIsTrue' BY SameContainers DEF DeployInv, FileIsTrue, Achieved
  <1>3. ResultIsTrue' BY SameContainers DEF DeployInv, ResultIsTrue, Achieved
  <1>4. ListIsRead' BY SameList DEF DeployInv, ListIsRead
  <1> QED BY <1>1, <1>2, <1>3, <1>4 DEF DeployInv

LEMMA DeployStep ==
  ASSUME MaxTag \in Nat, DeployInv, [D!DeployNext]_(D!deployVars)
  PROVE  DeployInv'
  <1>1. ASSUME NEW t \in 1..MaxTag, D!Publish(t) PROVE DeployInv'
    <2>1. t \in Tags \ {0} BY DEF Tags
    <2>2. releases' = releases \cup {t} BY <1>1 DEF D!Publish
    <2>3. releases' \subseteq Tags \ {0} BY <2>1, <2>2 DEF DeployInv, DeployTypes
    <2> QED BY <1>1, <2>3, ListStep DEF D!Publish
  <1>2. ASSUME NEW t \in 1..MaxTag, D!PushImages(t) PROVE DeployInv'
    BY <1>2, WorldUnchanged DEF D!PushImages
  <1>3. ASSUME NEW t \in 1..MaxTag, D!Withdraw(t) PROVE DeployInv'
    <2>1. releases' \subseteq Tags \ {0}
      BY <1>3 DEF D!Withdraw, DeployInv, DeployTypes
    <2> QED BY <1>3, <2>1, ListStep DEF D!Withdraw
  <1>4. CASE D!Tick \/ D!Retry BY <1>4, TickStep
  <1>5. CASE D!ClearAttempt BY <1>5, ClearAttemptStep
  <1>6. CASE D!AskGitHub BY <1>6, AskGitHubStep
  <1>7. CASE D!Preflight BY <1>7, PreflightStep
  <1>8. CASE D!Begin BY <1>8, BeginStep
  <1>9. ASSUME NEW step \in D!Steps, D!Command(step) PROVE DeployInv' BY <1>9, CommandStep
  <1>10. CASE D!Finalize BY <1>10, FinalizeStep
  <1>11. CASE D!Succeed BY <1>11, SucceedStep
  <1>12. CASE D!Terminate BY <1>12, TerminateStep
  <1>13. CASE D!Dies BY <1>13, EndedUnwritten DEF D!Dies, D!Ends
  <1>14. CASE UNCHANGED D!deployVars BY <1>14, WorldUnchanged DEF D!deployVars
  <1> QED BY <1>1, <1>2, <1>3, <1>4, <1>5, <1>6, <1>7, <1>8, <1>9, <1>10, <1>11, <1>12, <1>13,
             <1>14
       DEF D!DeployNext, D!Running

LEMMA DeployInvariant ==
  ASSUME MaxTag \in Nat \ {0}
  PROVE  D!DeploySpec => []DeployInv
  <1>1. D!DeployInit => DeployInv BY DeployStart
  <1>2. DeployInv /\ [D!DeployNext]_(D!deployVars) => DeployInv' BY DeployStep
  <1> QED BY <1>1, <1>2, PTL DEF D!DeploySpec

(* Between runs, what state.json says was achieved is what every container *)
(* runs and is healthy, wherever a run failed, was cancelled or died       *)
(* (autodeploy, Deployer.Run and deployVersion).                           *)
THEOREM FileTellsTheTruth == D!DeploySpec => []FileTellsWhatRuns
  <1>1. DeployInv => FileTellsWhatRuns
    BY DEF FileTellsWhatRuns, DeployInv, FileIsTrue, Achieved, D!FileTellsWhatRuns,
           D!AtRest, Working, D!Steps
  <1>2. D!DeploySpec => []DeployInv BY DeployInvariant, TagsAssumption
  <1> QED BY <1>1, <1>2, PTL

(* While the ETag spares the runs a look at the list, there is nothing on  *)
(* it to deploy (autodeploy, Deployer.Run and LatestReleaseWithETag).      *)
THEOREM EveryReleaseIsSeen == D!DeploySpec => []NoReleaseIsMissed
  <1>1. DeployInv => NoReleaseIsMissed
    BY DEF NoReleaseIsMissed, DeployInv, ListIsRead, Looked, D!NoReleaseIsMissed, D!NotModified
  <1>2. D!DeploySpec => []DeployInv BY DeployInvariant, TagsAssumption
  <1> QED BY <1>1, <1>2, PTL
=============================================================================
