--------------------------- MODULE RecoveryProofs ---------------------------
(***************************************************************************)
(* Proofs about Recovery, for every number of power cuts, faults and       *)
(* requests: the normal root is not entered three times in a row without   *)
(* becoming usable, and the configuration survives one damaged file.  And  *)
(* about the phone in calls, for every number of them: retries of *69      *)
(* (CallReturn); the handset, its controller and their calls (Handset).    *)
(***************************************************************************)
EXTENDS Recovery, PhoneCalls, WellFoundedInduction, SequenceTheorems, TLAPS

Bad     == history.bad
Counter == data.counter

(***************************************************************************)
(* The boot counter bounds the bad boots.  The counter is on disk and the  *)
(* bad boots are not, so each way the counter is cleared has to be at a    *)
(* moment when no bad boot is remembered: in a mode that is usable, or     *)
(* on the way out of it.  A lost write takes the counter back, to zero at  *)
(* worst, and pays for two boots; a boot on its way to the root has paid.  *)
(***************************************************************************)
Usable == {"panic", "flagging", "phasing", "ready", "resetting", "setup", "recovery", "rebooting"}

BootInv ==
  /\ mode \in Usable => Bad = 0
  /\ ~history.strayed =>
       /\ Bad <= 2 * (1 + history.lost)
       /\ Bad <= Counter + 2 * history.lost
       /\ mode = "root" => Bad < 2 * (1 + history.lost) /\ Bad < Counter + 2 * history.lost

(***************************************************************************)
(* What the two files hold once config.json was saved twice.  Unhurt, the  *)
(* file is the last Save and the backup the last or the one before, and    *)
(* it is the last whenever it is about to be overtaken by a write.  Hurt   *)
(* once, one of the two files still is recent, and a daemon that can save  *)
(* has a file that parses.                                                 *)
(***************************************************************************)
\* The modes in which a normal daemon is in memory and may be saving.
DaemonModes == {"ready", "resetting"}
NobodySaves == \A g \in Savers : daemon.save[g].step = "idle"

Saving_(g) == daemon.save[g].step \in {"copy", "write"}

Recent(f) == f.shape = "good" /\ f.age # "older"

OneSave == \A g, o \in Savers : Saving_(g) /\ Saving_(o) => g = o

Unhurt ==
  /\ Recent(data.file) /\ data.file.age = "last"
  /\ Recent(data.bak)
  /\ \A g \in Savers : daemon.save[g].step = "write" => data.bak.age = "last"

HurtOnce ==
  \/ Recent(data.file)
  \/ /\ data.file.shape \in {"nulls", "garbled"}
     /\ Recent(data.bak)
     /\ mode \notin DaemonModes

ConfigInv ==
  /\ mode \notin DaemonModes => NobodySaves
  /\ history.hurt <= 1 => history.sound /\ OneSave
  /\ history.saved /\ history.hurt = 0 => Unhurt
  /\ history.saved /\ history.hurt = 1 => HurtOnce

IInv == TypeOK /\ BootInv /\ ConfigInv
-----------------------------------------------------------------------------
(* Types.                                                                  *)

USE DEF THRESHOLD

(* What the writes to the data partition make of it.                       *)
LEMMA DataEdits ==
  ASSUME NEW f \in Data
  PROVE  /\ Cleared(f) \in Data /\ WithoutAutoFlag(f) \in Data /\ SaveToBackup(f) \in Data
         /\ \A n \in 0 .. THRESHOLD + 1 : [f EXCEPT !.counter = n] \in Data
         /\ [f EXCEPT !.mounts = FALSE] \in Data
         /\ [f EXCEPT !.recovery = TRUE] \in Data
         /\ [f EXCEPT !.counter = THRESHOLD, !.recovery = TRUE] \in Data
         /\ [f EXCEPT !.auto = TRUE] \in Data
         /\ \A b \in BOOLEAN : [f EXCEPT !.wifi = b] \in Data
         /\ [f EXCEPT !.backup = FALSE] \in Data
         /\ \A x \in Files : [f EXCEPT !.file = x] \in Data /\ [f EXCEPT !.bak = x] \in Data
  <1>1. \A n \in 0 .. THRESHOLD + 1 : [f EXCEPT !.counter = n] \in Data BY DEF Data
  <1>2. /\ \A d \in Data, b \in BOOLEAN : [d EXCEPT !.recovery = b] \in Data
        /\ [f EXCEPT !.mounts = FALSE] \in Data
    BY DEF Data
  <1>3. [f EXCEPT !.counter = THRESHOLD, !.recovery = TRUE] \in Data
    <2>1. [f EXCEPT !.counter = THRESHOLD, !.recovery = TRUE]
            = [[f EXCEPT !.counter = THRESHOLD] EXCEPT !.recovery = TRUE]
      OBVIOUS
    <2>2. [f EXCEPT !.counter = THRESHOLD] \in Data BY <1>1
    <2> HIDE DEF THRESHOLD
    <2> QED BY <1>2, <2>1, <2>2
  <1>4. Cleared(f) \in Data
    <2>1. Cleared(f) = [[f EXCEPT !.counter = 0] EXCEPT !.recovery = FALSE] BY DEF Cleared
    <2>2. [f EXCEPT !.counter = 0] \in Data BY <1>1
    <2> QED BY <1>2, <2>1, <2>2
  <1>5. /\ WithoutAutoFlag(f) \in Data
        /\ [f EXCEPT !.auto = TRUE] \in Data
    BY DEF Data, WithoutAutoFlag
  <1>6. /\ SaveToBackup(f) \in Data
        /\ [f EXCEPT !.backup = FALSE] \in Data
    BY DEF Data, SaveToBackup
  <1>7. \A b \in BOOLEAN : [f EXCEPT !.wifi = b] \in Data BY DEF Data
  <1>8. \A x \in Files : [f EXCEPT !.file = x] \in Data BY DEF Data
  <1>9. \A x \in Files : [f EXCEPT !.bak = x] \in Data BY DEF Data
  <1> QED BY <1>1, <1>2, <1>3, <1>4, <1>5, <1>6, <1>7, <1>8, <1>9

LEMMA CounterEdit ==
  ASSUME NEW f \in Data, NEW n \in 0 .. THRESHOLD + 1
  PROVE  [f EXCEPT !.counter = n] \in Data
  BY DEF Data

(* Every file the model writes is one, and a Save writes two.              *)
LEMMA FileTypes ==
  /\ Missing \in Files
  /\ \A shape \in {"nulls", "garbled"} : Damaged(shape) \in Files
  /\ \A f \in Files : Older(f) \in Files
  /\ \A f \in Data : Copied(f) \in Files
  /\ \A f \in Data, b \in BOOLEAN : Written(f, b) \in Data
  <1>1. /\ Missing \in Files
        /\ \A shape \in {"nulls", "garbled"} : Damaged(shape) \in Files
        /\ \A b \in BOOLEAN : File("good", b, "last") \in Files
    BY DEF Missing, Damaged, File, Files, Shapes, Ages
  <1>2. \A f \in Files : Older(f) \in Files BY DEF Older, Files, Ages
  <1>3. \A f \in Data : f.file \in Files /\ f.bak \in Files BY DEF Data
  <1>4. \A f \in Data : Copied(f) \in Files BY <1>3 DEF Copied
  <1>5. ASSUME NEW f \in Data, NEW b \in BOOLEAN PROVE Written(f, b) \in Data
    <2>1. Older(f.bak) \in Files BY <1>2, <1>3
    <2> QED BY <1>1, <2>1 DEF Written, Data
  <1> QED BY <1>1, <1>2, <1>4, <1>5

(* A fresh partition, an empty session and a daemon that saves nothing.    *)
LEMMA FreshTypes ==
  Fresh \in Data /\ NoSession \in Session /\ NoSave \in Save /\ NoDaemon \in Daemon
  <1>1. Fresh \in Data BY FileTypes DEF Fresh, Data
  <1>2. NoSession \in Session BY DEF NoSession, Session, Steps
  <1>3. NoSave \in Save BY DEF NoSave, Save
  <1>4. NoDaemon \in Daemon BY <1>3 DEF NoDaemon, Daemon
  <1> QED BY <1>1, <1>2, <1>3, <1>4

(* Load: the config, the file and the count of failed writes.              *)
LEMMA LoadTypes ==
  ASSUME NEW f \in Data, NEW l \in Load(f)
  PROVE  l.config \in Files /\ l.file \in Files /\ l.failed \in {0, 1}
  <1>1. f.file \in Files /\ f.bak \in Files BY DEF Data
  <1> QED BY <1>1, FileTypes DEF Load, LoadBackup, Default

(* Budgets only shrink, and not below zero.                                *)
LEMMA SpendTypes ==
  ASSUME left \in Budget
  PROVE  /\ Fine => left' \in Budget
         /\ Spend("acts") => left' \in Budget
         /\ Fault => left' \in Budget
         /\ \A n \in 0 .. 2 : Faults(n) => left' \in Budget
  <1>1. left.cuts \in 0 .. MaxCuts /\ left.faults \in 0 .. MaxFaults /\ left.acts \in 0 .. MaxActs
    BY DEF Budget
  <1>2. ASSUME Spend("acts") PROVE left' \in Budget
    <2>1. left.acts > 0 /\ left' = [left EXCEPT !.acts = left.acts - 1] BY <1>2 DEF Spend
    <2> QED BY <1>1, <2>1, BoundsAssumption DEF Budget
  <1>3. ASSUME NEW n \in 0 .. 2, Faults(n) PROVE left' \in Budget
    <2>1. left.faults >= n /\ left' = [left EXCEPT !.faults = left.faults - n] BY <1>3 DEF Faults
    <2> QED BY <1>1, <2>1, BoundsAssumption DEF Budget
  <1>4. ASSUME Fault PROVE left' \in Budget
    <2>1. left.faults > 0 /\ left' = [left EXCEPT !.faults = left.faults - 1] BY <1>4 DEF Fault, Spend
    <2> QED BY <1>1, <2>1, BoundsAssumption DEF Budget
  <1> QED BY <1>2, <1>3, <1>4 DEF Fine

(* The tasks of the recovery session move.                                 *)
LEMMA SessionEdits ==
  ASSUME rec \in Session
  PROVE  /\ \A t \in Tasks, s \in Steps : Move(t, s) \in Session
         /\ \A t \in Tasks, s \in Steps, b \in BOOLEAN :
              [Move(t, s) EXCEPT !.mounted = b] \in Session
         /\ \A t \in Tasks, s \in Steps, a \in {"", "try-again", "factory-reset"} :
              [rec EXCEPT !.action = a, !.task[t] = s] \in Session
  <1>1. \A t \in Tasks, s \in Steps : Move(t, s) \in Session BY DEF Session, Move
  <1>2. \A f \in Session, b \in BOOLEAN : [f EXCEPT !.mounted = b] \in Session BY DEF Session
  <1>3. \A f \in Session, a \in {"", "try-again", "factory-reset"} : [f EXCEPT !.action = a] \in Session
    BY DEF Session
  <1>4. ASSUME NEW t \in Tasks, NEW s \in Steps, NEW a \in {"", "try-again", "factory-reset"}
        PROVE  [rec EXCEPT !.action = a, !.task[t] = s] \in Session
    <2>1. [rec EXCEPT !.action = a] \in Session BY <1>3
    <2>2. [rec EXCEPT !.action = a, !.task[t] = s]
            = [[rec EXCEPT !.action = a] EXCEPT !.task[t] = s]
      OBVIOUS
    <2> QED BY <2>1, <2>2 DEF Session
  <1> QED BY <1>1, <1>2, <1>4

(* The steps of a Save.                                                    *)
LEMMA SaveEdits ==
  ASSUME daemon \in Daemon, NEW g \in Savers
  PROVE  /\ daemon.paired \in BOOLEAN /\ daemon.save[g] \in Save
         /\ \A b \in BOOLEAN, s \in Save : [daemon EXCEPT !.paired = b, !.save[g] = s] \in Daemon
         /\ \A s \in Save : [daemon EXCEPT !.save[g] = s] \in Daemon
         /\ \A p \in {"copy", "write", "leave"} : SaveGoto(g, p) => daemon' \in Daemon
  <1>1. daemon.save[g] \in Save BY DEF Daemon
  <1>2. ASSUME NEW p \in {"copy", "write", "leave"}, SaveGoto(g, p) PROVE daemon' \in Daemon
    <2>1. [daemon.save[g] EXCEPT !.step = p] \in Save BY <1>1 DEF Save
    <2> QED BY <1>2, <2>1 DEF SaveGoto, Daemon
  <1> QED BY <1>1, <1>2 DEF Daemon

LEMMA InitType == Init => TypeOK
  <1> SUFFICES ASSUME Init PROVE TypeOK OBVIOUS
  <1>1. data \in Data
    <2>1. File("good", TRUE, "last") \in Files /\ File("good", TRUE, "before") \in Files
      BY DEF File, Files, Shapes, Ages
    <2> QED BY <2>1, FreshTypes DEF Init, Data
  <1>2. daemon \in Daemon BY FreshTypes DEF Init, Daemon
  <1>3. left \in Budget BY BoundsAssumption DEF Init, Budget
  <1>4. history \in History BY DEF Init, History
  <1> QED BY <1>1, <1>2, <1>3, <1>4, FreshTypes DEF Init, TypeOK, Phases, Modes

(* What the history remembers keeps its type.                              *)
LEMMA HistoryFields ==
  ASSUME NEW h \in History
  PROVE  /\ h.hurt \in 0 .. 2 /\ h.bad \in Nat /\ h.lost \in Nat
         /\ h.saved \in BOOLEAN /\ h.sound \in BOOLEAN /\ h.strayed \in BOOLEAN
  BY DEF History

LEMMA StrayedEdit == \A h \in History : [h EXCEPT !.strayed = TRUE] \in History
  BY DEF History

LEMMA BadEdit ==
  ASSUME NEW h \in History
  PROVE  /\ [h EXCEPT !.bad = h.bad + 1] \in History
         /\ Lost(h) \in History /\ Forgiven(h) \in History
  <1>1. [h EXCEPT !.bad = h.bad + 1] \in History BY DEF History
  <1>2. Lost(h) \in History BY DEF Lost, History
  <1>3. Forgiven(h) \in History BY DEF Forgiven, History
  <1> QED BY <1>1, <1>2, <1>3

LEMMA HurtEdit ==
  ASSUME NEW h \in History, NEW n \in 0 .. 2
  PROVE  [h EXCEPT !.hurt = n] \in History
  BY DEF History

LEMMA HurtMore ==
  ASSUME NEW h \in History
  PROVE  [h EXCEPT !.hurt = Hurt(h.hurt + 1)] \in History
  <1>1. h.hurt \in 0 .. 2 BY HistoryFields
  <1>2. Hurt(h.hurt + 1) \in 0 .. 2 BY <1>1 DEF Hurt
  <1> QED BY <1>2, HurtEdit

LEMMA SoundEdit ==
  ASSUME NEW h \in History, NEW n \in 0 .. 2, NEW sound \in BOOLEAN
  PROVE  [h EXCEPT !.hurt = n, !.sound = sound] \in History
  BY DEF History

LEMMA SavedEdit ==
  ASSUME NEW h \in History, NEW n \in 0 .. 2, NEW saved \in BOOLEAN, NEW sound \in BOOLEAN
  PROVE  [h EXCEPT !.saved = saved, !.hurt = n, !.sound = sound] \in History
  <1>1. [h EXCEPT !.saved = saved] \in History BY DEF History
  <1>2. [[h EXCEPT !.saved = saved] EXCEPT !.hurt = n, !.sound = sound] \in History
    BY <1>1, SoundEdit
  <1> QED BY <1>2

LEMMA LoadedEdit ==
  ASSUME history \in History, data \in Data, NEW l \in Load(data)
  PROVE  /\ Remembered(l) \in History
         /\ Remembered(l).hurt = Hurt(history.hurt + l.failed)
         /\ Remembered(l).saved = history.saved
         /\ Remembered(l).sound = (l.config.age # "older" \/ ~history.saved)
  <1>1. Hurt(history.hurt + l.failed) \in 0 .. 2
    <2>1. history.hurt \in 0 .. 2 BY HistoryFields
    <2> QED BY <2>1, LoadTypes DEF Hurt
  <1>2. (l.config.age # "older" \/ ~history.saved) \in BOOLEAN OBVIOUS
  <1>3. Remembered(l) \in History BY <1>1, <1>2, SoundEdit DEF Remembered
  <1> QED BY <1>3 DEF Remembered, History

(* A Save that begins leaves the types alone.                              *)
LEMMA BeginTypes ==
  ASSUME TypeOK, NEW g \in Savers, NEW b \in BOOLEAN,
         NEW why \in {"paired", "setting", "renumber", "repair"},
         Begin(g, why, b)
  PROVE  TypeOK'
  <1>1. [step |-> "copy", why |-> why, paired |-> b] \in Save BY DEF Save
  <1>2. daemon' \in Daemon
    <2>1. daemon \in Daemon BY DEF TypeOK
    <2> QED BY <1>1, <2>1, SaveEdits DEF Begin
  <1>3. history' \in History
    <2>1. history \in History BY DEF TypeOK
    <2>2. [history EXCEPT !.hurt = 2] \in History BY <2>1 DEF History
    <2> QED BY <2>1, <2>2 DEF Begin
  <1>4. left' \in Budget
    <2>1. left \in Budget BY DEF TypeOK
    <2> QED BY <2>1, SpendTypes DEF Begin
  <1> QED BY <1>2, <1>3, <1>4 DEF Begin, persistent, TypeOK

-----------------------------------------------------------------------------
(* Every step keeps the types.                                             *)
LEMMA TypeStep == TypeOK /\ [Next]_vars => TypeOK'
  <1> SUFFICES ASSUME TypeOK, [Next]_vars PROVE TypeOK' OBVIOUS
  <1> USE FreshTypes DEF TypeOK
  <1>a. /\ Fine => left' \in Budget
        /\ Spend("acts") => left' \in Budget
        /\ Fault => left' \in Budget
        /\ \A n \in 0 .. 2 : Faults(n) => left' \in Budget
    BY SpendTypes
  <1>b. data \in Data /\ history \in History OBVIOUS
  <1>c. \A m \in Modes : Lose(m) => /\ mode' \in Modes /\ rec' \in Session /\ daemon' \in Daemon
                                    /\ portal' \in {"idle", "saved", "copied", "stuck"}
    BY DEF Lose, Goto
  <1>1. CASE PowerCut
    <2>1. /\ mode' \in Modes /\ rec' \in Session /\ daemon' \in Daemon
          /\ portal' \in {"idle", "saved", "copied", "stuck"}
      <3>1. Lose("off") BY <1>1 DEF PowerCut
      <3> QED BY <3>1, <1>c DEF Modes
    <2>2. left' \in Budget
      <3>1. /\ left.cuts \in 0 .. MaxCuts /\ left.faults \in 0 .. MaxFaults
            /\ left.acts \in 0 .. MaxActs
        BY DEF Budget
      <3>2. left.cuts > 0 BY <1>1 DEF PowerCut
      <3>3. [left EXCEPT !.cuts = left.cuts - 1] \in Budget BY <3>1, <3>2, BoundsAssumption DEF Budget
      <3>4. ASSUME left.faults > 0
            PROVE  [left EXCEPT !.cuts = left.cuts - 1, !.faults = left.faults - 1] \in Budget
        <4>1. left.cuts - 1 \in 0 .. MaxCuts /\ left.faults - 1 \in 0 .. MaxFaults
          BY <3>1, <3>2, <3>4, BoundsAssumption
        <4> QED BY <4>1 DEF Budget
      <3>5. \/ left' = [left EXCEPT !.cuts = left.cuts - 1]
            \/ /\ left.faults > 0
               /\ left' = [left EXCEPT !.cuts = left.cuts - 1, !.faults = left.faults - 1]
        BY <1>1 DEF PowerCut
      <3> QED BY <3>3, <3>4, <3>5
    <2>3. data' \in Data
      <3>1. [data EXCEPT !.mounts = FALSE] \in Data BY DataEdits
      <3>2. ASSUME NEW shape \in {"nulls", "garbled"}
            PROVE  /\ [data EXCEPT !.file = Damaged(shape)] \in Data
                   /\ [data EXCEPT !.bak = Damaged(shape)] \in Data
        <4>1. Damaged(shape) \in Files BY FileTypes
        <4> QED BY <4>1, DataEdits
      <3>3. SetCounter(0) \in Data BY DEF SetCounter, Data
      <3> QED BY <1>1, <3>1, <3>2, <3>3 DEF PowerCut
    <2>4. history' \in History
      <3>2. [history EXCEPT !.hurt = Hurt(history.hurt + 1)] \in History BY HurtMore
      <3> QED BY <1>1, <3>2, BadEdit DEF PowerCut
    <2>5. UNCHANGED <<conn, phase>> /\ root' \in {"good", "sick", "corrupt"} BY <1>1 DEF PowerCut
    <2> QED BY <2>1, <2>2, <2>3, <2>4, <2>5
  <1>2. CASE Unplug
    BY <1>2, <1>a, <1>b, <1>c DEF Unplug, persistent, Modes
  <1>3. CASE CheckRoot
    BY <1>3, <1>a, <1>b, <1>c DEF CheckRoot, Modes, Goto
  <1>4. CASE BootCheck
    <2>1. ASSUME WriteCount PROVE data' \in Data /\ history' \in History /\ left' \in Budget
      <3>1. Count \in 0 .. THRESHOLD + 1 BY DEF Count, Data
      <3>2. \A n \in 0 .. THRESHOLD + 1 : SetCounter(n) \in Data BY DEF SetCounter, Data
      <3>3. data' \in {data, SetCounter(0), SetCounter(Count)} /\ history' \in {history, Lost(history)}
        BY <2>1 DEF WriteCount
      <3>4. left' \in Budget BY <1>a, <2>1 DEF WriteCount
      <3>5. SetCounter(0) \in Data /\ SetCounter(Count) \in Data BY <3>1, <3>2
      <3>6. Lost(history) \in History BY <1>b, BadEdit
      <3> QED BY <1>b, <3>3, <3>4, <3>5, <3>6
    <2>2. data' \in Data /\ history' \in History /\ left' \in Budget /\ mode' \in Modes
      BY <1>4, <2>1 DEF BootCheck, Modes, Goto
    <2> QED BY <1>4, <2>2 DEF BootCheck
  <1>5. CASE FlagRecovery
    BY <1>5, <1>a, <1>b, <1>c, DataEdits DEF FlagRecovery, Modes, Goto
  <1>6. CASE RecoveryRoot
    BY <1>6, <1>a, <1>b, <1>c, StrayedEdit DEF RecoveryRoot, Modes, Goto, persistent
  <1>7. CASE ApCheck
    <2>1. [data EXCEPT !.wifi = FALSE] \in Data BY DataEdits
    <2>2. history' \in History
      <3>1. [history EXCEPT !.bad = history.bad + 1] \in History BY BadEdit
      <3> QED BY <1>7, <3>1 DEF ApCheck
    <2>3. data' \in Data /\ conn' \in BOOLEAN /\ mode' \in Modes
      BY <1>7, <2>1 DEF ApCheck, Goto, Modes
    <2> QED BY <1>7, <2>2, <2>3 DEF ApCheck
  <1>8. CASE StartDaemon
    <2>1. PICK l \in Load(data), failed \in 0 .. 1 :
            LET loaded == [data EXCEPT !.file = l.file]
            IN  /\ Faults(failed + l.failed)
                /\ history' = Forgiven(Remembered(l))
                /\ daemon' = [NoDaemon EXCEPT !.paired = l.config.paired]
                /\ \/ Goto("panic") /\ data' = loaded /\ UNCHANGED phase
                   \/ /\ Goto("ready")
                      /\ phase' = PicoStateForToken(l.config.paired)
                      /\ data' = [loaded EXCEPT !.counter = 0]
      BY <1>8 DEF StartDaemon
    <2>2. l.config \in Files /\ l.file \in Files /\ l.failed \in {0, 1} BY LoadTypes
    <2>3. [data EXCEPT !.file = l.file] \in Data BY <2>2, DataEdits
    <2>4. history' \in History BY <2>1, LoadedEdit, BadEdit
    <2>5. left' \in Budget
      <3>1. failed + l.failed \in 0 .. 2 BY <2>2
      <3> QED BY <2>1, <3>1, <1>a
    <2>6. phase' \in Phases /\ mode' \in Modes
      BY <2>1 DEF PicoStateForToken, Phases, Goto, Modes
    <2>7. daemon' \in Daemon
      <3>1. l.config.paired \in BOOLEAN BY <2>2 DEF Files
      <3> QED BY <2>1, <3>1 DEF Daemon
    <2>8. data' \in Data
      <3> DEFINE loaded == [data EXCEPT !.file = l.file]
      <3>1. data' \in {loaded, [loaded EXCEPT !.counter = 0]} BY <2>1
      <3>2. loaded \in Data BY <2>3
      <3> HIDE DEF loaded
      <3>3. [loaded EXCEPT !.counter = 0] \in Data BY <3>2 DEF Data
      <3> QED BY <3>1, <3>2, <3>3
    <2> QED BY <1>8, <2>4, <2>5, <2>6, <2>7, <2>8 DEF StartDaemon
  <1>9. CASE StartPortal
    <2>1. PICK dead \in Down(SetupSubsystems) :
            /\ Charge(dead)
            /\ \/ UNCHANGED <<data, phase, mode, history>>
               \/ Goto("panic") /\ history' = Forgiven(history) /\ UNCHANGED <<data, phase>>
               \/ phase' = (IF SerialReady(dead) THEN "SETUP" ELSE phase) /\ RunSetupMode
      BY <1>9 DEF StartPortal
    <2>2. left' \in Budget BY <2>1, <1>a DEF Charge
    <2>3. Forgiven(history) \in History BY BadEdit
    <2>4. UNCHANGED <<root, conn, rec, portal, daemon>> BY <1>9 DEF StartPortal
    <2>5. CASE phase' = (IF SerialReady(dead) THEN "SETUP" ELSE phase) /\ RunSetupMode
      <3>1. SetCounter(0) \in Data BY DEF SetCounter, Data
      <3> QED BY <2>2, <2>3, <2>4, <2>5, <3>1 DEF RunSetupMode, Goto, Modes, Phases
    <2> QED BY <2>1, <2>2, <2>3, <2>4, <2>5 DEF Goto, Modes
  <1>42. CASE DaemonDies
    <2>1. PICK l \in Load(data) :
            /\ Faults(1 + l.failed)
            /\ data' = [data EXCEPT !.file = l.file]
            /\ history' = Remembered(l)
            /\ phase' = phase \/ phase' = PicoStateForToken(l.config.paired)
      BY <1>42 DEF DaemonDies
    <2>2. l.file \in Files /\ l.failed \in {0, 1} BY LoadTypes
    <2>3. data' \in Data BY <2>1, <2>2, DataEdits
    <2>4. history' \in History BY <2>1, LoadedEdit
    <2>5. left' \in Budget
      <3>1. 1 + l.failed \in 0 .. 2 BY <2>2
      <3> QED BY <2>1, <3>1, <1>a
    <2>6. phase' \in Phases BY <2>1 DEF PicoStateForToken, Phases
    <2> QED BY <1>42, <2>3, <2>4, <2>5, <2>6 DEF DaemonDies
  <1>43. CASE EnterPanicRecovery
    <2>1. /\ SetCounter(THRESHOLD) \in Data /\ SetCounter(0) \in Data
          /\ [data EXCEPT !.recovery = TRUE] \in Data
      <3>1. [data EXCEPT !.recovery = TRUE] \in Data BY DataEdits
      <3>2. \A n \in 0 .. THRESHOLD + 1 : SetCounter(n) \in Data BY DEF SetCounter, Data
      <3> QED BY <3>1, <3>2
    <2>2. data' \in Data BY <1>43, <2>1 DEF EnterPanicRecovery
    <2>3. left' \in Budget BY <1>43, <1>a DEF EnterPanicRecovery
    <2>4. mode' \in Modes /\ phase' \in Phases
      BY <1>43 DEF EnterPanicRecovery, Goto, Modes, Phases, PicoStateForToken
    <2> QED BY <1>43, <2>2, <2>3, <2>4 DEF EnterPanicRecovery
  <1>10. CASE DoReboot
    BY <1>10, <1>a, <1>b, <1>c, DataEdits DEF DoReboot, Modes
  <1>11. CASE TriggerReboot
    BY <1>11, <1>a, <1>b, <1>c, DataEdits DEF TriggerReboot, Modes
  <1>12. CASE InitSubsystems
    <2>1. PICK dead \in Down(RecoverySubsystems) :
            /\ Charge(dead)
            /\ \/ Goto("hung") /\ UNCHANGED rec
               \/ /\ Goto("session")
                  /\ rec' = [NoSession EXCEPT !.serial = SerialReady(dead),
                               !.audio = "audio" \notin dead, !.mounted = data.mounts]
      BY <1>12 DEF InitSubsystems
    <2>2. \A a, b, c \in BOOLEAN :
            [NoSession EXCEPT !.serial = a, !.audio = b, !.mounted = c] \in Session
      BY DEF Session
    <2>3. SerialReady(dead) \in BOOLEAN /\ ("audio" \notin dead) \in BOOLEAN
          /\ data.mounts \in BOOLEAN
      BY DEF SerialReady, Data
    <2>4. rec' \in Session BY <2>1, <2>2, <2>3
    <2>5. left' \in Budget BY <2>1, <1>a DEF Charge
    <2>6. mode' \in Modes BY <2>1 DEF Goto, Modes
    <2> QED BY <1>12, <2>4, <2>5, <2>6 DEF InitSubsystems, persistent
  <1>13. CASE RunRecoveryMode
    <2>1. WithoutAutoFlag(data) \in Data BY DataEdits
    <2>2. Forgiven(history) \in History BY BadEdit
    <2>3. [rec EXCEPT !.action = "factory-reset", !.task["main"] = "restore"] \in Session
      BY SessionEdits DEF Tasks, Steps
    <2>4. data' \in Data /\ rec' \in Session /\ history' \in History
      BY <1>13, <2>1, <2>2, <2>3 DEF RunRecoveryMode
    <2>5. mode' \in Modes /\ phase' \in Phases BY <1>13 DEF RunRecoveryMode, Goto, Modes, Phases
    <2> QED BY <1>13, <2>4, <2>5 DEF RunRecoveryMode
  <1>14. CASE Verify
    BY <1>14, <1>a, <1>b, <1>c, DataEdits DEF Verify
  <1>15. CASE Commit
    BY <1>15, <1>a, <1>b, <1>c, DataEdits DEF Commit, Goto, Modes
  <1>16. CASE Paired
    <2>1. Begin("dispatch", "paired", TRUE) BY <1>16 DEF Paired
    <2> QED BY <2>1, BeginTypes, SaveEdits DEF Savers
  <1>17. CASE SetConfig
    <2>1. Begin("dispatch", "setting", daemon.paired) BY <1>17 DEF SetConfig
    <2> QED BY <2>1, BeginTypes, SaveEdits DEF Savers
  <1>18. CASE LineRenumber
    <2>1. Begin("dispatch", "renumber", TRUE) BY <1>18 DEF LineRenumber
    <2> QED BY <2>1, BeginTypes, SaveEdits DEF Savers
  <1>19. CASE OnRepair
    <2>1. Begin("repair", "repair", FALSE) BY <1>19 DEF OnRepair
    <2> QED BY <2>1, BeginTypes, SaveEdits DEF Savers
  <1>20. CASE ClearRecoveryBootState
    BY <1>20, <1>a, <1>b, <1>c, DataEdits, SessionEdits DEF ClearRecoveryBootState, Steps, Tasks
  <1>21. CASE CodeSetup
    BY <1>21, <1>a, <1>b, <1>c, DataEdits DEF CodeSetup, Modes
  <1>22. CASE TriggerFactoryReset
    <2>1. [data EXCEPT !.counter = THRESHOLD] \in Data BY DEF Data
    <2> QED BY <1>22, <2>1, <1>a DEF TriggerFactoryReset, Goto, Modes, SetCounter
  <1>23. CASE Configure
    <2>1. SaveToBackup(data) \in Data BY DataEdits
    <2>2. /\ left.cuts \in 0 .. MaxCuts /\ left.faults \in 0 .. MaxFaults
          /\ left.acts \in 0 .. MaxActs
      BY DEF Budget
    <2>3. left.acts > 0 BY <1>23 DEF Configure
    <2>4. [left EXCEPT !.acts = left.acts - 1] \in Budget BY <2>2, <2>3, BoundsAssumption DEF Budget
    <2>5. ASSUME left.faults > 0
          PROVE  [left EXCEPT !.acts = left.acts - 1, !.faults = left.faults - 1] \in Budget
      <3>1. left.acts - 1 \in 0 .. MaxActs /\ left.faults - 1 \in 0 .. MaxFaults
        BY <2>2, <2>3, <2>5, BoundsAssumption
      <3> QED BY <3>1 DEF Budget
    <2>6. left' \in Budget BY <1>23, <2>4, <2>5 DEF Configure
    <2> QED BY <1>23, <2>1, <2>6 DEF Configure
  <1>24. CASE WebFactoryReset
    BY <1>24, <1>a, <1>b, <1>c, SessionEdits DEF WebFactoryReset, persistent, StartReset, Steps, Tasks
  <1>25. CASE KeyFactoryReset
    BY <1>25, <1>a, <1>b, <1>c, SessionEdits DEF KeyFactoryReset, persistent, StartReset, Steps, Tasks
  <1>26. CASE WebTryAgain
    BY <1>26, <1>a, <1>b, <1>c, SessionEdits, DataEdits DEF WebTryAgain, Steps, Tasks
  <1>27. CASE KeyTryAgain
    BY <1>27, <1>a, <1>b, <1>c, SessionEdits DEF KeyTryAgain, persistent, Steps, Tasks
  <1>28. ASSUME NEW star \in BOOLEAN, PowerOn(star) PROVE TypeOK'
    BY <1>28, <1>a, <1>b, <1>c DEF PowerOn, Goto, Modes, Phases
  <1>29. ASSUME NEW m \in {"initramfs", "off"}, CodeReboot(m) PROVE TypeOK'
    BY <1>29, <1>a, <1>b, <1>c DEF CodeReboot, Modes, persistent
  <1>30. ASSUME NEW g \in Savers, SaveCopy(g) PROVE TypeOK'
    <2>1. daemon' \in Daemon BY <1>30, SaveEdits DEF SaveCopy
    <2>2. [data EXCEPT !.bak = Copied(data)] \in Data BY DataEdits, FileTypes
    <2>3. [history EXCEPT !.hurt = Hurt(history.hurt + 1)] \in History BY HurtMore
    <2>4. data' \in Data /\ history' \in History BY <1>30, <2>2, <2>3 DEF SaveCopy
    <2>5. left' \in Budget BY <1>30, <1>a DEF SaveCopy
    <2> QED BY <1>30, <2>1, <2>4, <2>5 DEF SaveCopy
  <1>31. ASSUME NEW g \in Savers, SaveWrite(g) PROVE TypeOK'
    <2>1. Written(data, daemon.save[g].paired) \in Data
      <3>1. daemon.save[g].paired \in BOOLEAN BY SaveEdits DEF Save
      <3> QED BY <3>1, FileTypes
    <2>2. \A saved \in BOOLEAN : AfterSave(g, saved) => daemon' \in Daemon /\ phase' \in Phases
      BY SaveEdits DEF AfterSave, Phases
    <2>3. daemon' \in Daemon /\ phase' \in Phases BY <1>31, <2>2 DEF SaveWrite
    <2>4. data' \in Data BY <1>31, <2>1 DEF SaveWrite
    <2>5. history' \in History
      <3> DEFINE healed == Healed(data')
                 alone == Alone(g)
      <3>1. (history.saved \/ healed) \in BOOLEAN
            /\ (history.sound \/ (healed /\ alone)) \in BOOLEAN
        OBVIOUS
      <3>2. (IF healed /\ alone THEN 0 ELSE history.hurt) \in 0 .. 2 BY HistoryFields
      <3>3. [history EXCEPT !.saved = history.saved \/ healed,
                           !.hurt = IF healed /\ alone THEN 0 ELSE history.hurt,
                           !.sound = history.sound \/ (healed /\ alone)] \in History
        BY <3>1, <3>2, SavedEdit
      <3> QED BY <1>31, <3>3 DEF SaveWrite
    <2>6. left' \in Budget BY <1>31, <1>a DEF SaveWrite
    <2> QED BY <1>31, <2>3, <2>4, <2>5, <2>6 DEF SaveWrite
  <1>32. ASSUME NEW g \in Savers, Leave(g) PROVE TypeOK'
    BY <1>32, <1>a, <1>b, <1>c DEF Leave, Modes, persistent
  <1>33. ASSUME NEW t \in Tasks, ClearRecoveryPhase(t) PROVE TypeOK'
    BY ZenonT(60), <1>33, <1>a, <1>b, <1>c, SessionEdits DEF ClearRecoveryPhase, Steps, Phases
  <1>34. ASSUME NEW t \in Tasks, RecoveryReboot(t) PROVE TypeOK'
    BY ZenonT(60), <1>34, <1>a, <1>b, <1>c, DataEdits DEF RecoveryReboot, Modes
  <1>35. ASSUME NEW t \in Tasks, RestoreRoot(t) PROVE TypeOK'
    BY ZenonT(60), <1>35, <1>a, <1>b, <1>c, SessionEdits DEF RestoreRoot, Steps, Fail
  <1>36. ASSUME NEW t \in Tasks, RootWritten(t) PROVE TypeOK'
    BY ZenonT(60), <1>36, <1>a, <1>b, <1>c, SessionEdits DEF RootWritten, Steps, Fail
  <1>37. ASSUME NEW t \in Tasks, UnmountData(t) PROVE TypeOK'
    BY ZenonT(60), <1>37, <1>a, <1>b, <1>c, DataEdits, SessionEdits DEF UnmountData, Steps
  <1>38. ASSUME NEW t \in Tasks, FormatData(t) PROVE TypeOK'
    <2>1. [history EXCEPT !.saved = FALSE, !.hurt = 0, !.sound = TRUE] \in History
      <3>1. [history EXCEPT !.saved = FALSE] \in History BY DEF History
      <3>2. \A h \in History : [h EXCEPT !.hurt = 0] \in History BY DEF History
      <3>3. \A h \in History : [h EXCEPT !.sound = TRUE] \in History BY DEF History
      <3>4. [[[history EXCEPT !.saved = FALSE] EXCEPT !.hurt = 0] EXCEPT !.sound = TRUE] \in History
        BY <3>1, <3>2, <3>3
      <3> QED BY <3>4
    <2>2. history' \in History BY <1>38, <2>1 DEF FormatData
    <2> QED BY ZenonT(60), <1>38, <2>2, <1>a, SessionEdits DEF FormatData, Steps, Fail
  <1>39. ASSUME NEW t \in Tasks, MountData(t) PROVE TypeOK'
    BY ZenonT(60), <1>39, <1>a, <1>b, <1>c, SessionEdits DEF MountData, Steps, Fail, persistent
  <1>40. ASSUME NEW t \in Tasks, ResetDone(t) PROVE TypeOK'
    BY <1>40, <1>a, <1>b, <1>c, SessionEdits DEF ResetDone, Steps, Phases
  <1>41. CASE UNCHANGED vars
    BY <1>41 DEF vars
  <1> QED
    BY <1>1, <1>2, <1>3, <1>4, <1>5, <1>6, <1>7, <1>8, <1>9, <1>10, <1>11, <1>12, <1>13, <1>14,
       <1>15, <1>16, <1>17, <1>18, <1>19, <1>20, <1>21, <1>22, <1>23, <1>24, <1>25, <1>26,
       <1>27, <1>28, <1>29, <1>30, <1>31, <1>32, <1>33, <1>34, <1>35, <1>36, <1>37, <1>38,
       <1>39, <1>40, <1>41, <1>42, <1>43
    DEF Next, Runs, Portal, Server, Saving, RecoveryTasks, ResetStep, User

USE DEF THRESHOLD

(* The types, without what each field holds: enough for the EXCEPTs.       *)

-----------------------------------------------------------------------------
(* The boot counter and the bad boots.                                     *)

(* A step that counts nothing and enters neither of the two modes between  *)
(* the hook and the root.                                                  *)
LEMMA BootFrame ==
  ASSUME BootInv,
         history'.bad = history.bad, history'.lost = history.lost,
         history'.strayed = history.strayed, data'.counter = data.counter,
         \/ mode' = mode
         \/ mode' \notin {"counted", "root"} /\ (mode' \in Usable => mode \in Usable)
  PROVE  BootInv'
  BY DEF BootInv, Bad, Counter

(* A step that ends where no bad boot is remembered.                       *)
LEMMA BootUsable ==
  ASSUME history'.bad = 0, history'.lost \in Nat, data'.counter \in Nat, mode' \notin {"counted", "root"}
  PROVE  BootInv'
  BY DEF BootInv, Bad, Counter

LEMMA BootStep == TypeOK /\ BootInv /\ [Next]_vars => BootInv'
  <1> SUFFICES ASSUME TypeOK, BootInv, [Next]_vars PROVE BootInv' OBVIOUS
  <1>a. TypeOK' BY TypeStep
  <1>b. data \in Data /\ data' \in Data /\ history \in History /\ history' \in History
    BY <1>a DEF TypeOK
  <1>c. /\ data.counter \in 0 .. 4 /\ data'.counter \in Nat
        /\ history.bad \in Nat /\ history.lost \in Nat /\ history'.lost \in Nat
        /\ history.strayed \in BOOLEAN
    BY <1>b DEF Data, History
  <1>d. \A f \in Data : /\ \A x : [f EXCEPT !.mounts = x].counter = f.counter
                        /\ \A x : [f EXCEPT !.recovery = x].counter = f.counter
                        /\ \A x : [f EXCEPT !.file = x].counter = f.counter
                        /\ \A x : [f EXCEPT !.bak = x].counter = f.counter
    BY DEF Data
  <1>e. \A f \in Data : /\ \A x : [f EXCEPT !.auto = x].counter = f.counter
                        /\ \A x : [f EXCEPT !.wifi = x].counter = f.counter
                        /\ \A x : [f EXCEPT !.backup = x].counter = f.counter
                        /\ \A x : [f EXCEPT !.counter = x].counter = x
    BY DEF Data
  <1>f. \A h \in History :
          /\ \A x : /\ [h EXCEPT !.hurt = x].bad = h.bad
                    /\ [h EXCEPT !.hurt = x].lost = h.lost
                    /\ [h EXCEPT !.hurt = x].strayed = h.strayed
          /\ \A x : /\ [h EXCEPT !.bad = x].bad = x
                    /\ [h EXCEPT !.bad = x].lost = h.lost
                    /\ [h EXCEPT !.bad = x].strayed = h.strayed
          /\ \A x : /\ [h EXCEPT !.lost = x].bad = h.bad
                    /\ [h EXCEPT !.lost = x].lost = x
                    /\ [h EXCEPT !.lost = x].strayed = h.strayed
    BY DEF History
  <1>g. Forgiven(history).bad = 0 /\ \A l : Forgiven(Remembered(l)).bad = 0
    BY <1>b DEF Forgiven, Remembered, History
  <1>1. CASE PowerCut
    <2>1. mode' = "off" BY <1>1 DEF PowerCut, Goto, Lose
    <2>2. CASE Counting /\ data' = SetCounter(0) /\ history' = Lost(history)
      <3>1. /\ history'.bad = history.bad /\ history'.lost = history.lost + 1
            /\ history'.strayed = history.strayed
        BY <1>b, <1>f, <2>2 DEF Lost
      <3>2. data'.counter = 0 BY <1>b, <1>e, <2>2 DEF SetCounter
      <3> QED BY <1>c, <2>1, <3>1, <3>2 DEF BootInv, Bad, Counter, Usable
    <2>3. CASE ~ (Counting /\ data' = SetCounter(0) /\ history' = Lost(history))
      <3>1. /\ history'.bad = history.bad /\ history'.lost = history.lost
            /\ history'.strayed = history.strayed
        BY <1>1, <1>b, <2>3 DEF PowerCut, History
      <3>2. data'.counter = data.counter BY <1>1, <1>b, <2>3 DEF PowerCut, Data
      <3> QED BY <2>1, <3>1, <3>2, BootFrame DEF Usable
    <2> QED BY <2>2, <2>3
  <1>2. CASE Unplug
    <2>1. /\ history'.bad = history.bad /\ history'.lost = history.lost
          /\ history'.strayed = history.strayed
      BY <1>2 DEF Unplug, persistent
    <2>2. data'.counter = data.counter
      BY <1>2, <1>b, <1>d, <1>e DEF Unplug, persistent
    <2>3. \/ mode' = mode
          \/ mode' \notin {"counted", "root"} /\ (mode' \in Usable => mode \in Usable)
      BY <1>2 DEF Unplug, Usable, Goto, Lose, persistent
    <2> QED BY <2>1, <2>2, <2>3, BootFrame
  <1>3. CASE CheckRoot
    <2>1. /\ history'.bad = history.bad /\ history'.lost = history.lost
          /\ history'.strayed = history.strayed
      BY <1>3 DEF CheckRoot
    <2>2. data'.counter = data.counter
      BY <1>3, <1>b, <1>d, <1>e DEF CheckRoot
    <2>3. \/ mode' = mode
          \/ mode' \notin {"counted", "root"} /\ (mode' \in Usable => mode \in Usable)
      BY <1>3 DEF CheckRoot, Usable, Goto, Lose
    <2> QED BY <2>1, <2>2, <2>3, BootFrame
  <1>4. CASE BootCheck
    <2>1. /\ mode = "initramfs"
          /\ mode' \in {"flagged", "counted"} \/ (mode' = "root" /\ Count < 3)
      BY <1>4 DEF BootCheck, Goto
    <2>2. CASE data' = data /\ history' = history /\ mode' # "root"
      <3>1. mode' = "flagged" \/ mode' = "counted" BY <2>1, <2>2
      <3> QED BY <2>2, <3>1 DEF BootInv, Bad, Counter, Usable
    <2>3. CASE WriteCount
      <3>1. Count \in Nat /\ Count >= data.counter /\ (Count < 3 => Count = data.counter + 1)
        BY <1>c DEF Count
      <3>2. CASE data' = SetCounter(Count) /\ history' = history
        <4>1. data'.counter = Count BY <1>b, <1>e, <3>2 DEF SetCounter
        <4> QED BY <1>c, <2>1, <3>1, <3>2, <4>1 DEF BootInv, Bad, Counter, Usable
      <3>3. CASE data' \in {data, SetCounter(0)} /\ history' = Lost(history)
        <4>1. /\ history'.bad = history.bad /\ history'.lost = history.lost + 1
              /\ history'.strayed = history.strayed
          BY <1>b, <1>f, <3>3 DEF Lost
        <4>2. CASE history.strayed
          BY <2>1, <4>1, <4>2 DEF BootInv, Bad, Counter, Usable
        <4>3. CASE ~ history.strayed
          <5>1. Bad <= 2 * (1 + history.lost) /\ Bad <= data.counter + 2 * history.lost
            BY <4>3 DEF BootInv, Counter
          <5>2. mode' = "root" => data.counter <= 1 BY <1>c, <2>1, <3>1
          <5>3. data'.counter \in Nat BY <1>c
          <5> QED BY <1>c, <2>1, <4>1, <5>1, <5>2, <5>3 DEF BootInv, Bad, Counter, Usable
        <4> QED BY <4>2, <4>3
      <3> QED BY <2>3, <3>2, <3>3 DEF WriteCount
    <2> QED BY <1>4, <2>2, <2>3 DEF BootCheck, Goto
  <1>5. CASE FlagRecovery
    <2>1. history' = history /\ data'.counter = data.counter
      BY <1>5, <1>b DEF FlagRecovery, Data
    <2>2. mode' = "flagged" BY <1>5 DEF FlagRecovery, Goto
    <2> QED BY <2>1, <2>2, BootFrame DEF Usable
  <1>6. CASE RecoveryRoot
    <2>1. data' = data BY <1>6 DEF RecoveryRoot, persistent
    <2>2. CASE mode' = "recovering" /\ history' = history
      BY <2>1, <2>2, BootFrame DEF Usable
    <2>3. CASE mode' = "root" /\ history' = [history EXCEPT !.strayed = TRUE]
      <3>1. history'.strayed = TRUE BY <1>b, <2>3 DEF History
      <3> QED BY <2>3, <3>1 DEF BootInv, Usable
    <2> QED BY <1>6, <2>2, <2>3 DEF RecoveryRoot, Goto
  <1>7. CASE ApCheck
    <2>1. /\ history'.bad = history.bad + 1 /\ history'.lost = history.lost
          /\ history'.strayed = history.strayed
      BY <1>7, <1>b, <1>f DEF ApCheck
    <2>2. data'.counter = data.counter BY <1>7, <1>b DEF ApCheck, Data
    <2>3. mode = "root" /\ mode' \in {"hung", "portal", "daemon"} BY <1>7 DEF ApCheck, Goto
    <2> QED BY <1>c, <2>1, <2>2, <2>3 DEF BootInv, Bad, Counter, Usable
  <1>8. CASE StartDaemon
    <2>1. history'.bad = 0 BY <1>8, <1>g DEF StartDaemon
    <2>2. mode' \in {"panic", "ready"} BY <1>8 DEF StartDaemon, Goto
    <2> QED BY <1>c, <2>1, <2>2, BootUsable
  <1>9. CASE StartPortal
    <2>1. \/ UNCHANGED <<data, phase, mode, history>>
          \/ Goto("panic") /\ history' = Forgiven(history)
          \/ RunSetupMode
      BY <1>9 DEF StartPortal
    <2>2. CASE UNCHANGED <<data, phase, mode, history>> BY <2>2, BootFrame
    <2>3. CASE (Goto("panic") /\ history' = Forgiven(history)) \/ RunSetupMode
      <3>1. history'.bad = 0 BY <1>g, <2>3 DEF RunSetupMode
      <3>2. mode' \in {"panic", "setup"} BY <2>3 DEF RunSetupMode, Goto
      <3> QED BY <1>c, <3>1, <3>2, BootUsable
    <2> QED BY <2>1, <2>2, <2>3
  <1>42. CASE DaemonDies
    <2>1. PICK l \in Load(data) :
            /\ data' = [data EXCEPT !.file = l.file] /\ history' = Remembered(l)
      BY <1>42 DEF DaemonDies
    <2>2. /\ history'.bad = history.bad /\ history'.lost = history.lost
          /\ history'.strayed = history.strayed
      BY <1>b, <2>1 DEF Remembered, History
    <2>3. data'.counter = data.counter BY <1>b, <1>d, <2>1
    <2>4. mode' = mode BY <1>42 DEF DaemonDies
    <2> QED BY <2>2, <2>3, <2>4, BootFrame
  <1>43. CASE EnterPanicRecovery
    <2>1. mode \in {"panic", "flagging", "phasing"} /\ mode' \in {"flagging", "phasing", "rebooting"}
      BY <1>43 DEF EnterPanicRecovery, Goto
    <2>2. history'.bad = 0 BY <1>43, <2>1 DEF EnterPanicRecovery, BootInv, Usable, Bad
    <2> QED BY <1>c, <2>1, <2>2, BootUsable
  <1>10. CASE DoReboot
    <2>1. history'.bad = 0
      BY <1>10, <1>b, <1>f DEF DoReboot, BootInv, Usable, Bad
    <2>2. mode' \notin {"counted", "root"}
      BY <1>10 DEF DoReboot, Goto, Lose
    <2> QED BY <1>c, <2>1, <2>2, BootUsable
  <1>11. CASE TriggerReboot
    <2>1. /\ history'.bad = history.bad /\ history'.lost = history.lost
          /\ history'.strayed = history.strayed
      BY <1>11 DEF TriggerReboot
    <2>2. data'.counter = data.counter
      BY <1>11, <1>b DEF TriggerReboot, Data
    <2>3. \/ mode' = mode
          \/ mode' \notin {"counted", "root"} /\ (mode' \in Usable => mode \in Usable)
      BY <1>11 DEF TriggerReboot, Usable, Goto, Lose
    <2> QED BY <2>1, <2>2, <2>3, BootFrame
  <1>12. CASE InitSubsystems
    <2>1. /\ history'.bad = history.bad /\ history'.lost = history.lost
          /\ history'.strayed = history.strayed
      BY <1>12 DEF InitSubsystems, persistent
    <2>2. data'.counter = data.counter
      BY <1>12, <1>b, <1>d, <1>e DEF InitSubsystems, persistent
    <2>3. \/ mode' = mode
          \/ mode' \notin {"counted", "root"} /\ (mode' \in Usable => mode \in Usable)
      BY <1>12 DEF InitSubsystems, Usable, Goto, Lose, persistent
    <2> QED BY <2>1, <2>2, <2>3, BootFrame
  <1>13. CASE RunRecoveryMode
    <2>1. history'.bad = 0 BY <1>13, <1>g DEF RunRecoveryMode
    <2>2. mode' \notin {"counted", "root"}
      BY <1>13 DEF RunRecoveryMode, Goto, Lose
    <2> QED BY <1>c, <2>1, <2>2, BootUsable
  <1>14. CASE Verify
    <2>1. /\ history'.bad = history.bad /\ history'.lost = history.lost
          /\ history'.strayed = history.strayed
      BY <1>14 DEF Verify
    <2>2. data'.counter = data.counter
      BY <1>14, <1>b DEF Verify, Data
    <2>3. \/ mode' = mode
          \/ mode' \notin {"counted", "root"} /\ (mode' \in Usable => mode \in Usable)
      BY <1>14 DEF Verify, Usable, Goto, Lose
    <2> QED BY <2>1, <2>2, <2>3, BootFrame
  <1>15. CASE Commit
    <2>1. /\ history'.bad = history.bad /\ history'.lost = history.lost
          /\ history'.strayed = history.strayed
      BY <1>15 DEF Commit
    <2>2. data'.counter = data.counter
      BY <1>15, <1>b DEF Commit, Data
    <2>3. \/ mode' = mode
          \/ mode' \notin {"counted", "root"} /\ (mode' \in Usable => mode \in Usable)
      BY <1>15 DEF Commit, Usable, Goto, Lose
    <2> QED BY <2>1, <2>2, <2>3, BootFrame
  <1>16. CASE Paired
    <2>1. /\ history'.bad = history.bad /\ history'.lost = history.lost
          /\ history'.strayed = history.strayed
      BY <1>16, <1>b, <1>f DEF Paired, Begin, persistent
    <2>2. data'.counter = data.counter
      BY <1>16, <1>b, <1>d, <1>e DEF Paired, Begin, persistent
    <2>3. \/ mode' = mode
          \/ mode' \notin {"counted", "root"} /\ (mode' \in Usable => mode \in Usable)
      BY <1>16 DEF Paired, Usable, Goto, Lose, Begin, persistent
    <2> QED BY <2>1, <2>2, <2>3, BootFrame
  <1>17. CASE SetConfig
    <2>1. /\ history'.bad = history.bad /\ history'.lost = history.lost
          /\ history'.strayed = history.strayed
      BY <1>17, <1>b, <1>f DEF SetConfig, Begin, persistent
    <2>2. data'.counter = data.counter
      BY <1>17, <1>b, <1>d, <1>e DEF SetConfig, Begin, persistent
    <2>3. \/ mode' = mode
          \/ mode' \notin {"counted", "root"} /\ (mode' \in Usable => mode \in Usable)
      BY <1>17 DEF SetConfig, Usable, Goto, Lose, Begin, persistent
    <2> QED BY <2>1, <2>2, <2>3, BootFrame
  <1>18. CASE LineRenumber
    <2>1. /\ history'.bad = history.bad /\ history'.lost = history.lost
          /\ history'.strayed = history.strayed
      BY <1>18, <1>b, <1>f DEF LineRenumber, Begin, persistent
    <2>2. data'.counter = data.counter
      BY <1>18, <1>b, <1>d, <1>e DEF LineRenumber, Begin, persistent
    <2>3. \/ mode' = mode
          \/ mode' \notin {"counted", "root"} /\ (mode' \in Usable => mode \in Usable)
      BY <1>18 DEF LineRenumber, Usable, Goto, Lose, Begin, persistent
    <2> QED BY <2>1, <2>2, <2>3, BootFrame
  <1>19. CASE OnRepair
    <2>1. /\ history'.bad = history.bad /\ history'.lost = history.lost
          /\ history'.strayed = history.strayed
      BY <1>19, <1>b, <1>f DEF OnRepair, Begin, persistent
    <2>2. data'.counter = data.counter
      BY <1>19, <1>b, <1>d, <1>e DEF OnRepair, Begin, persistent
    <2>3. \/ mode' = mode
          \/ mode' \notin {"counted", "root"} /\ (mode' \in Usable => mode \in Usable)
      BY <1>19 DEF OnRepair, Usable, Goto, Lose, Begin, persistent
    <2> QED BY <2>1, <2>2, <2>3, BootFrame
  <1>20. CASE ClearRecoveryBootState
    <2>1. history'.bad = 0
      BY <1>20, <1>b, <1>f DEF ClearRecoveryBootState, At, BootInv, Usable, Bad
    <2>2. mode' \notin {"counted", "root"}
      BY <1>20 DEF ClearRecoveryBootState, At, Goto, Lose
    <2> QED BY <1>c, <2>1, <2>2, BootUsable
  <1>21. CASE CodeSetup
    <2>1. /\ history'.bad = history.bad /\ history'.lost = history.lost
          /\ history'.strayed = history.strayed
      BY <1>21 DEF CodeSetup
    <2>2. data'.counter = data.counter
      BY <1>21, <1>b DEF CodeSetup, Data
    <2>3. \/ mode' = mode
          \/ mode' \notin {"counted", "root"} /\ (mode' \in Usable => mode \in Usable)
      BY <1>21 DEF CodeSetup, Usable, Goto, Lose
    <2> QED BY <2>1, <2>2, <2>3, BootFrame
  <1>22. CASE TriggerFactoryReset
    <2>1. history'.bad = 0
      BY <1>22, <1>b, <1>f DEF TriggerFactoryReset, BootInv, Usable, Bad
    <2>2. mode' \notin {"counted", "root"}
      BY <1>22 DEF TriggerFactoryReset, Goto, Lose
    <2> QED BY <1>c, <2>1, <2>2, BootUsable
  <1>23. CASE Configure
    <2>1. /\ history'.bad = history.bad /\ history'.lost = history.lost
          /\ history'.strayed = history.strayed
      BY <1>23 DEF Configure, SaveToBackup
    <2>2. data'.counter = data.counter
      BY <1>23, <1>b DEF Configure, SaveToBackup, Data
    <2>3. \/ mode' = mode
          \/ mode' \notin {"counted", "root"} /\ (mode' \in Usable => mode \in Usable)
      BY <1>23 DEF Configure, Usable, Goto, Lose, SaveToBackup
    <2> QED BY <2>1, <2>2, <2>3, BootFrame
  <1>24. CASE WebFactoryReset
    <2>1. /\ history'.bad = history.bad /\ history'.lost = history.lost
          /\ history'.strayed = history.strayed
      BY <1>24 DEF WebFactoryReset, persistent
    <2>2. data'.counter = data.counter
      BY <1>24, <1>b, <1>d, <1>e DEF WebFactoryReset, persistent
    <2>3. \/ mode' = mode
          \/ mode' \notin {"counted", "root"} /\ (mode' \in Usable => mode \in Usable)
      BY <1>24 DEF WebFactoryReset, Usable, Goto, Lose, persistent
    <2> QED BY <2>1, <2>2, <2>3, BootFrame
  <1>25. CASE KeyFactoryReset
    <2>1. /\ history'.bad = history.bad /\ history'.lost = history.lost
          /\ history'.strayed = history.strayed
      BY <1>25 DEF KeyFactoryReset, persistent
    <2>2. data'.counter = data.counter
      BY <1>25, <1>b, <1>d, <1>e DEF KeyFactoryReset, persistent
    <2>3. \/ mode' = mode
          \/ mode' \notin {"counted", "root"} /\ (mode' \in Usable => mode \in Usable)
      BY <1>25 DEF KeyFactoryReset, Usable, Goto, Lose, persistent
    <2> QED BY <2>1, <2>2, <2>3, BootFrame
  <1>26. CASE WebTryAgain
    <2>1. history'.bad = 0
      BY <1>26, <1>b, <1>f DEF WebTryAgain, At, BootInv, Usable, Bad
    <2>2. mode' \notin {"counted", "root"}
      BY <1>26 DEF WebTryAgain, At, Goto, Lose
    <2> QED BY <1>c, <2>1, <2>2, BootUsable
  <1>27. CASE KeyTryAgain
    <2>1. /\ history'.bad = history.bad /\ history'.lost = history.lost
          /\ history'.strayed = history.strayed
      BY <1>27 DEF KeyTryAgain, persistent
    <2>2. data'.counter = data.counter
      BY <1>27, <1>b, <1>d, <1>e DEF KeyTryAgain, persistent
    <2>3. \/ mode' = mode
          \/ mode' \notin {"counted", "root"} /\ (mode' \in Usable => mode \in Usable)
      BY <1>27 DEF KeyTryAgain, Usable, Goto, Lose, persistent
    <2> QED BY <2>1, <2>2, <2>3, BootFrame
  <1>28. ASSUME NEW star \in BOOLEAN, PowerOn(star) PROVE BootInv'
    <2>1. /\ history'.bad = history.bad /\ history'.lost = history.lost
          /\ history'.strayed = history.strayed
      BY <1>28 DEF PowerOn
    <2>2. data'.counter = data.counter
      BY <1>28, <1>b, <1>d, <1>e DEF PowerOn
    <2>3. \/ mode' = mode
          \/ mode' \notin {"counted", "root"} /\ (mode' \in Usable => mode \in Usable)
      BY <1>28 DEF PowerOn, Usable, Goto, Lose
    <2> QED BY <2>1, <2>2, <2>3, BootFrame
  <1>29. ASSUME NEW m \in {"initramfs", "off"}, CodeReboot(m) PROVE BootInv'
    <2>1. /\ history'.bad = history.bad /\ history'.lost = history.lost
          /\ history'.strayed = history.strayed
      BY <1>29 DEF CodeReboot, persistent
    <2>2. data'.counter = data.counter
      BY <1>29, <1>b, <1>d, <1>e DEF CodeReboot, persistent
    <2>3. \/ mode' = mode
          \/ mode' \notin {"counted", "root"} /\ (mode' \in Usable => mode \in Usable)
      BY <1>29 DEF CodeReboot, Usable, Goto, Lose, persistent
    <2> QED BY <2>1, <2>2, <2>3, BootFrame
  <1>30. ASSUME NEW g \in Savers, SaveCopy(g) PROVE BootInv'
    <2>1. /\ history'.bad = history.bad /\ history'.lost = history.lost
          /\ history'.strayed = history.strayed
      BY <1>30, <1>b DEF SaveCopy, History
    <2>2. data'.counter = data.counter
      BY <1>30, <1>b DEF SaveCopy, Data
    <2>3. \/ mode' = mode
          \/ mode' \notin {"counted", "root"} /\ (mode' \in Usable => mode \in Usable)
      BY <1>30 DEF SaveCopy, Usable, Goto, Lose
    <2> QED BY <2>1, <2>2, <2>3, BootFrame
  <1>31. ASSUME NEW g \in Savers, SaveWrite(g) PROVE BootInv'
    <2>1. /\ history'.bad = history.bad /\ history'.lost = history.lost
          /\ history'.strayed = history.strayed
      BY <1>31, <1>b DEF SaveWrite, History
    <2>2. data'.counter = data.counter
      BY <1>31, <1>b DEF SaveWrite, Written, Data
    <2>3. mode' = mode BY <1>31 DEF SaveWrite
    <2> QED BY <2>1, <2>2, <2>3, BootFrame
  <1>32. ASSUME NEW g \in Savers, Leave(g) PROVE BootInv'
    <2>1. /\ history'.bad = history.bad /\ history'.lost = history.lost
          /\ history'.strayed = history.strayed
      BY <1>32 DEF Leave, SaveAt, persistent
    <2>2. data'.counter = data.counter
      BY <1>32, <1>b, <1>d, <1>e DEF Leave, SaveAt, persistent
    <2>3. \/ mode' = mode
          \/ mode' \notin {"counted", "root"} /\ (mode' \in Usable => mode \in Usable)
      BY <1>32 DEF Leave, Usable, Goto, Lose, SaveAt, persistent
    <2> QED BY <2>1, <2>2, <2>3, BootFrame
  <1>33. ASSUME NEW t \in Tasks, ClearRecoveryPhase(t) PROVE BootInv'
    <2>1. /\ history'.bad = history.bad /\ history'.lost = history.lost
          /\ history'.strayed = history.strayed
      BY <1>33 DEF ClearRecoveryPhase
    <2>2. data'.counter = data.counter
      BY <1>33, <1>b, <1>d, <1>e DEF ClearRecoveryPhase
    <2>3. \/ mode' = mode
          \/ mode' \notin {"counted", "root"} /\ (mode' \in Usable => mode \in Usable)
      BY <1>33 DEF ClearRecoveryPhase, Usable, Goto, Lose
    <2> QED BY <2>1, <2>2, <2>3, BootFrame
  <1>34. ASSUME NEW t \in Tasks, RecoveryReboot(t) PROVE BootInv'
    <2>1. history'.bad = 0
      BY <1>34, <1>b, <1>f DEF RecoveryReboot, At, BootInv, Usable, Bad
    <2>2. mode' \notin {"counted", "root"}
      BY <1>34 DEF RecoveryReboot, At, Goto, Lose
    <2> QED BY <1>c, <2>1, <2>2, BootUsable
  <1>35. ASSUME NEW t \in Tasks, RestoreRoot(t) PROVE BootInv'
    <2>1. /\ history'.bad = history.bad /\ history'.lost = history.lost
          /\ history'.strayed = history.strayed
      BY <1>35 DEF RestoreRoot
    <2>2. data'.counter = data.counter
      BY <1>35, <1>b, <1>d, <1>e DEF RestoreRoot
    <2>3. \/ mode' = mode
          \/ mode' \notin {"counted", "root"} /\ (mode' \in Usable => mode \in Usable)
      BY <1>35 DEF RestoreRoot, Usable, Goto, Lose
    <2> QED BY <2>1, <2>2, <2>3, BootFrame
  <1>36. ASSUME NEW t \in Tasks, RootWritten(t) PROVE BootInv'
    <2>1. /\ history'.bad = history.bad /\ history'.lost = history.lost
          /\ history'.strayed = history.strayed
      BY <1>36 DEF RootWritten
    <2>2. data'.counter = data.counter
      BY <1>36, <1>b, <1>d, <1>e DEF RootWritten
    <2>3. \/ mode' = mode
          \/ mode' \notin {"counted", "root"} /\ (mode' \in Usable => mode \in Usable)
      BY <1>36 DEF RootWritten, Usable, Goto, Lose
    <2> QED BY <2>1, <2>2, <2>3, BootFrame
  <1>37. ASSUME NEW t \in Tasks, UnmountData(t) PROVE BootInv'
    <2>1. /\ history'.bad = history.bad /\ history'.lost = history.lost
          /\ history'.strayed = history.strayed
      BY <1>37 DEF UnmountData
    <2>2. data'.counter = data.counter
      BY <1>37, <1>b, <1>d, <1>e DEF UnmountData
    <2>3. \/ mode' = mode
          \/ mode' \notin {"counted", "root"} /\ (mode' \in Usable => mode \in Usable)
      BY <1>37 DEF UnmountData, Usable, Goto, Lose
    <2> QED BY <2>1, <2>2, <2>3, BootFrame
  <1>38. ASSUME NEW t \in Tasks, FormatData(t) PROVE BootInv'
    <2>1. history'.bad = history.bad /\ mode = "recovery" /\ mode' = mode
      BY <1>38, <1>b DEF FormatData, At, History
    <2>2. history'.bad = 0 BY <2>1 DEF BootInv, Usable, Bad
    <2> QED BY <1>c, <2>1, <2>2, BootUsable
  <1>39. ASSUME NEW t \in Tasks, MountData(t) PROVE BootInv'
    <2>1. /\ history'.bad = history.bad /\ history'.lost = history.lost
          /\ history'.strayed = history.strayed
      BY <1>39 DEF MountData, persistent
    <2>2. data'.counter = data.counter
      BY <1>39, <1>b, <1>d, <1>e DEF MountData, persistent
    <2>3. \/ mode' = mode
          \/ mode' \notin {"counted", "root"} /\ (mode' \in Usable => mode \in Usable)
      BY <1>39 DEF MountData, Usable, Goto, Lose, persistent
    <2> QED BY <2>1, <2>2, <2>3, BootFrame
  <1>40. ASSUME NEW t \in Tasks, ResetDone(t) PROVE BootInv'
    <2>1. /\ history'.bad = history.bad /\ history'.lost = history.lost
          /\ history'.strayed = history.strayed
      BY <1>40 DEF ResetDone
    <2>2. data'.counter = data.counter
      BY <1>40, <1>b, <1>d, <1>e DEF ResetDone
    <2>3. \/ mode' = mode
          \/ mode' \notin {"counted", "root"} /\ (mode' \in Usable => mode \in Usable)
      BY <1>40 DEF ResetDone, Usable, Goto, Lose
    <2> QED BY <2>1, <2>2, <2>3, BootFrame
  <1>41. CASE UNCHANGED vars
    BY <1>41, BootFrame DEF vars
  <1> QED
    BY <1>1, <1>2, <1>3, <1>4, <1>5, <1>6, <1>7, <1>8, <1>9, <1>10, <1>11, <1>12, <1>13, <1>14,
       <1>15, <1>16, <1>17, <1>18, <1>19, <1>20, <1>21, <1>22, <1>23, <1>24, <1>25, <1>26,
       <1>27, <1>28, <1>29, <1>30, <1>31, <1>32, <1>33, <1>34, <1>35, <1>36, <1>37, <1>38,
       <1>39, <1>40, <1>41, <1>42, <1>43
    DEF Next, Runs, Portal, Server, Saving, RecoveryTasks, ResetStep, User

-----------------------------------------------------------------------------
(* The configuration.                                                      *)

(* A step that leaves the two files and what hurt them alone, and at most  *)
(* forgets the daemon's memory.                                            *)
LEMMA ConfigFrame ==
  ASSUME ConfigInv,
         data'.file = data.file, data'.bak = data.bak,
         history'.hurt = history.hurt, history'.saved = history.saved,
         history'.sound = history.sound,
         \/ daemon' = NoDaemon /\ mode' \notin DaemonModes
         \/ daemon' = daemon /\ (mode' \in DaemonModes <=> mode \in DaemonModes)
  PROVE  ConfigInv'
  <1>1. CASE daemon' = daemon /\ (mode' \in DaemonModes <=> mode \in DaemonModes)
    BY <1>1 DEF ConfigInv, NobodySaves, OneSave, Saving_, Unhurt, HurtOnce, Recent
  <1>2. CASE daemon' = NoDaemon /\ mode' \notin DaemonModes
    <2>1. \A g \in Savers : daemon'.save[g].step = "idle" BY <1>2 DEF NoDaemon, NoSave
    <2>2. NobodySaves' /\ OneSave' BY <2>1 DEF NobodySaves, OneSave, Saving_
    <2>3. Unhurt => Unhurt' BY <2>1 DEF Unhurt, Recent
    <2>4. HurtOnce => HurtOnce' BY <1>2 DEF HurtOnce, Recent
    <2> QED BY <2>2, <2>3, <2>4 DEF ConfigInv
  <1> QED BY <1>1, <1>2

(* A Save that begins alone is the only one; another one hurts.            *)
LEMMA ConfigBegin ==
  ASSUME TypeOK, ConfigInv, NEW g \in Savers, NEW b, NEW why, Begin(g, why, b)
  PROVE  ConfigInv'
  <1>1. history \in History /\ daemon \in Daemon BY DEF TypeOK
  <1>2. data' = data /\ mode' = mode /\ mode = "ready" BY DEF Begin, persistent
  <1>3. /\ daemon'.save[g].step = "copy"
        /\ \A o \in Savers \ {g} : daemon'.save[o] = daemon.save[o]
    BY <1>1 DEF Begin, Daemon
  <1>4. CASE ~Alone(g)
    <2>1. history'.hurt = 2 BY <1>1, <1>4 DEF Begin, History
    <2> QED BY <1>2, <2>1 DEF ConfigInv, DaemonModes
  <1>5. CASE Alone(g)
    <2>1. history' = history BY <1>5 DEF Begin
    <2>2. OneSave' BY <1>3, <1>5 DEF OneSave, Saving_, Alone
    <2>3. Unhurt => Unhurt' BY <1>2, <1>3 DEF Unhurt, Recent
    <2>4. HurtOnce => HurtOnce' BY <1>2 DEF HurtOnce, Recent
    <2> QED BY <1>2, <2>1, <2>2, <2>3, <2>4 DEF ConfigInv, DaemonModes
  <1> QED BY <1>4, <1>5

(* The first half of a Save: an unhurt file is copied over the backup.     *)
LEMMA ConfigCopy ==
  ASSUME TypeOK, ConfigInv, NEW g \in Savers, SaveCopy(g)
  PROVE  ConfigInv'
  <1>1. data \in Data /\ history \in History /\ daemon \in Daemon /\ data.file \in Files
    BY DEF TypeOK, Data
  <1>2. mode' = mode /\ mode \in DaemonModes /\ daemon.save[g].step = "copy"
    BY DEF SaveCopy, SaveAt, DaemonModes
  <1>3. \A o \in Savers : daemon'.save[o].step = IF o = g THEN "write" ELSE daemon.save[o].step
    BY <1>1 DEF SaveCopy, SaveGoto, Daemon, Save
  <1>4. OneSave => OneSave' BY <1>2, <1>3 DEF OneSave, Saving_
  <1>5. CASE data' = [data EXCEPT !.bak = Copied(data)] /\ history' = history
    <2>1. data'.file = data.file /\ data'.bak = Copied(data) BY <1>1, <1>5 DEF Data
    <2>2. Unhurt => Unhurt' BY <1>3, <2>1 DEF Unhurt, Recent, Copied, IsCorrupt
    <2>3. HurtOnce => HurtOnce' BY <1>2, <2>1 DEF HurtOnce, Recent
    <2> QED BY <1>2, <1>4, <1>5, <2>2, <2>3 DEF ConfigInv
  <1>6. CASE data' = data /\ history' = [history EXCEPT !.hurt = Hurt(history.hurt + 1)]
    <2>1. /\ history'.hurt = Hurt(history.hurt + 1) /\ history'.saved = history.saved
          /\ history'.sound = history.sound /\ history.hurt \in 0 .. 2
      BY <1>1, <1>6 DEF History
    <2>2. history'.hurt # 0 /\ (history'.hurt <= 1 => history.hurt = 0) BY <2>1 DEF Hurt
    <2>3. Unhurt => HurtOnce' BY <1>6 DEF Unhurt, HurtOnce
    <2> QED BY <1>2, <1>4, <2>1, <2>2, <2>3 DEF ConfigInv
  <1> QED BY <1>5, <1>6 DEF SaveCopy

(* The second half: a Save whose backup is the last one heals both files.  *)
LEMMA ConfigWrite ==
  ASSUME TypeOK, ConfigInv, NEW g \in Savers, SaveWrite(g)
  PROVE  ConfigInv'
  <1>1. data \in Data /\ history \in History /\ daemon \in Daemon /\ data.bak \in Files
    BY DEF TypeOK, Data
  <1>2. mode' = mode /\ mode \in DaemonModes /\ daemon.save[g].step = "write"
    BY DEF SaveWrite, SaveAt, DaemonModes
  <1>3. /\ daemon'.save[g].step \in {"idle", "leave"}
        /\ \A o \in Savers \ {g} : daemon'.save[o] = daemon.save[o]
    <2>1. \/ daemon' = [daemon EXCEPT !.save[g] = NoSave]
          \/ daemon' = [daemon EXCEPT !.save[g].step = "leave"]
      BY DEF SaveWrite, AfterSave, SaveGoto
    <2>2. CASE daemon' = [daemon EXCEPT !.save[g] = NoSave]
      BY <1>1, <2>2 DEF Daemon, NoSave
    <2>3. CASE daemon' = [daemon EXCEPT !.save[g].step = "leave"]
      <3>1. daemon.save[g] \in Save BY <1>1 DEF Daemon
      <3>2. [daemon.save[g] EXCEPT !.step = "leave"].step = "leave" BY <3>1 DEF Save
      <3> QED BY <1>1, <2>3, <3>2 DEF Daemon
    <2> QED BY <2>1, <2>2, <2>3
  <1>4. OneSave => OneSave' BY <1>3 DEF OneSave, Saving_
  <1>5. OneSave => Alone(g) BY <1>2 DEF OneSave, Saving_, Alone
  <1>6. Alone(g) => OneSave' /\ \A o \in Savers : daemon'.save[o].step # "write"
    BY <1>3 DEF Alone, OneSave, Saving_
  <1>7. CASE data' = data /\ history' = history
    <2>1. Unhurt => Unhurt' BY <1>3, <1>7 DEF Unhurt, Recent
    <2>2. HurtOnce => HurtOnce' BY <1>2, <1>7 DEF HurtOnce, Recent
    <2> QED BY <1>2, <1>4, <1>7, <2>1, <2>2 DEF ConfigInv
  <1>8. CASE /\ data' = Written(data, daemon.save[g].paired)
             /\ history' = [history EXCEPT !.saved = @ \/ Healed(data'),
                              !.hurt = IF Healed(data') /\ Alone(g) THEN 0 ELSE @,
                              !.sound = @ \/ (Healed(data') /\ Alone(g))]
    <2>1. /\ data'.file = File("good", daemon.save[g].paired, "last")
          /\ data'.bak = Older(data.bak)
      BY <1>1, <1>8 DEF Written, Data
    <2>2. data'.file.shape = "good" /\ data'.file.age = "last" BY <2>1 DEF File
    <2>3. /\ data'.bak.shape = data.bak.shape
          /\ data'.bak.age = IF data.bak.age = "last" THEN "before" ELSE "older"
      BY <1>1, <2>1 DEF Older, Files
    <2>4. /\ history.hurt \in 0 .. 2 /\ history.saved \in BOOLEAN /\ history.sound \in BOOLEAN
          /\ history'.hurt = IF Healed(data') /\ Alone(g) THEN 0 ELSE history.hurt
          /\ history'.saved = (history.saved \/ Healed(data'))
          /\ history'.sound = (history.sound \/ (Healed(data') /\ Alone(g)))
      BY <1>1, <1>8 DEF History
    <2>5. HurtOnce' BY <2>2 DEF HurtOnce, Recent
    <2>6. CASE Healed(data') /\ Alone(g)
      <3>1. Unhurt' BY <1>6, <2>6 DEF Unhurt, Recent, Healed
      <3>2. history'.hurt = 0 /\ history'.sound = TRUE BY <2>4, <2>6
      <3> QED BY <1>2, <1>6, <2>6, <3>1, <3>2 DEF ConfigInv
    <2>7. CASE ~(Healed(data') /\ Alone(g))
      <3>1. Unhurt => Healed(data') BY <1>2, <2>2, <2>3 DEF Unhurt, Recent, Healed
      <3>2. history.hurt = 0 => ~history.saved /\ ~history'.saved
        BY <1>5, <2>4, <2>7, <3>1 DEF ConfigInv
      <3> QED BY <1>2, <1>4, <2>4, <2>5, <2>7, <3>2 DEF ConfigInv
    <2> QED BY <2>6, <2>7
  <1> QED BY <1>7, <1>8 DEF SaveWrite

(* A daemon that starts, and reads its configuration by Load.              *)
LEMMA ConfigLoad ==
  ASSUME TypeOK, TypeOK', ConfigInv, NEW l \in Load(data),
         data'.file = l.file, data'.bak = data.bak,
         history'.hurt = Hurt(history.hurt + l.failed),
         history'.saved = history.saved,
         history'.sound = (l.config.age # "older" \/ ~history.saved),
         NobodySaves'
  PROVE  ConfigInv'
  <1>1. /\ data \in Data /\ history.hurt \in 0 .. 2
        /\ history.saved \in BOOLEAN /\ history.sound \in BOOLEAN
    BY DEF TypeOK, History
  <1>2. OneSave' BY DEF NobodySaves, OneSave, Saving_
  <1>3. /\ Recent(data.file) => l.config = data.file /\ l.file = data.file /\ l.failed = 0
        /\ data.file.shape \in {"nulls", "garbled"} /\ Recent(data.bak) =>
             l.config = data.bak /\ (l.failed = 0 => l.file = data.bak) /\ l.failed \in {0, 1}
    BY DEF Load, LoadBackup, Recent
  <1>4. l.failed \in {0, 1} BY <1>1, LoadTypes
  <1>5. CASE ~history.saved
    BY <1>1, <1>2, <1>5 DEF ConfigInv
  <1>6. CASE history.saved /\ history.hurt = 0
    <2>1. Unhurt BY <1>6 DEF ConfigInv
    <2>2. l.config = data.file /\ l.file = data.file /\ l.failed = 0 BY <1>3, <2>1 DEF Unhurt
    <2>3. history'.hurt = 0 /\ history'.sound = TRUE
      <3>1. l.config.age = "last" /\ history'.hurt = Hurt(0) BY <1>6, <2>1, <2>2 DEF Unhurt
      <3> QED BY <3>1 DEF Hurt
    <2>4. Unhurt' BY <2>1, <2>2 DEF Unhurt, Recent, NobodySaves
    <2> QED BY <1>2, <2>3, <2>4 DEF ConfigInv
  <1>7. CASE history.saved /\ history.hurt = 1
    <2>1. HurtOnce BY <1>7 DEF ConfigInv
    <2>2. history'.hurt = IF l.failed = 0 THEN 1 ELSE 2 BY <1>4, <1>7 DEF Hurt
    <2>3. l.failed = 0 => Recent(l.file) /\ l.config.age # "older"
      BY <1>3, <2>1 DEF HurtOnce, Recent
    <2>4. l.failed = 0 => HurtOnce' /\ history'.sound = TRUE BY <2>3 DEF HurtOnce, Recent
    <2> QED BY <1>2, <1>4, <2>2, <2>4 DEF ConfigInv
  <1>8. CASE history.hurt = 2
    <2>1. history'.hurt = 2 BY <1>4, <1>8 DEF Hurt
    <2> QED BY <1>2, <2>1 DEF ConfigInv
  <1> QED BY <1>1, <1>5, <1>6, <1>7, <1>8

LEMMA ConfigStep == TypeOK /\ ConfigInv /\ [Next]_vars => ConfigInv'
  <1> SUFFICES ASSUME TypeOK, ConfigInv, [Next]_vars PROVE ConfigInv' OBVIOUS
  <1>a. TypeOK' BY TypeStep
  <1>b. data \in Data /\ history \in History /\ daemon \in Daemon BY <1>a DEF TypeOK
  <1>c. data.file \in Files /\ data.bak \in Files BY <1>b DEF Data
  <1>d. history.hurt \in 0 .. 2 /\ history.saved \in BOOLEAN /\ history.sound \in BOOLEAN
    BY <1>b DEF History
  <1>1. CASE PowerCut
    <2>1. mode' = "off" /\ daemon' = NoDaemon BY <1>1 DEF PowerCut, Lose, Goto
    <2>2. \A g \in Savers : daemon'.save[g].step = "idle" BY <2>1 DEF NoDaemon, NoSave
    <2>3. NobodySaves' /\ OneSave' BY <2>2 DEF NobodySaves, OneSave, Saving_
    <2>4. CASE /\ history' \in {history, Lost(history)}
               /\ data'.file = data.file /\ data'.bak = data.bak
      <3>1. /\ history'.hurt = history.hurt /\ history'.saved = history.saved
            /\ history'.sound = history.sound
        BY <1>b, <2>4 DEF Lost, History
      <3> QED BY <2>1, <2>4, <3>1, ConfigFrame DEF DaemonModes
    <2>5. ASSUME NEW shape \in {"nulls", "garbled"},
                 \/ data' = [data EXCEPT !.file = Damaged(shape)]
                 \/ data' = [data EXCEPT !.bak = Damaged(shape)],
                 history' = [history EXCEPT !.hurt = Hurt(history.hurt + 1)]
          PROVE  ConfigInv'
      <3>1. /\ history'.saved = history.saved /\ history'.sound = history.sound
            /\ history'.hurt = Hurt(history.hurt + 1)
        BY <1>b, <2>5 DEF History
      <3>2. history'.hurt # 0 /\ (history'.hurt <= 1 => history.hurt = 0)
        BY <1>d, <3>1 DEF Hurt
      <3>3. \/ data'.file = Damaged(shape) /\ data'.bak = data.bak
            \/ data'.file = data.file
        BY <1>b, <2>5 DEF Data
      <3>4. Damaged(shape).shape \in {"nulls", "garbled"} BY DEF Damaged, File
      <3>5. Unhurt => HurtOnce'
        BY <2>1, <3>3, <3>4 DEF Unhurt, HurtOnce, Recent, DaemonModes
      <3> QED BY <1>d, <2>3, <3>1, <3>2, <3>5 DEF ConfigInv
    <2>6. \/ /\ history' \in {history, Lost(history)}
             /\ data'.file = data.file /\ data'.bak = data.bak
          \/ /\ \E shape \in {"nulls", "garbled"} :
                  \/ data' = [data EXCEPT !.file = Damaged(shape)]
                  \/ data' = [data EXCEPT !.bak = Damaged(shape)]
             /\ history' = [history EXCEPT !.hurt = Hurt(history.hurt + 1)]
      BY <1>1, <1>b DEF PowerCut, SetCounter, Data
    <2> QED BY <2>4, <2>5, <2>6
  <1>2. CASE Unplug
    <2>1. data'.file = data.file /\ data'.bak = data.bak
      BY <1>2, <1>b DEF Unplug, persistent, Data
    <2>2. /\ history'.hurt = history.hurt /\ history'.saved = history.saved
          /\ history'.sound = history.sound
      BY <1>2, <1>b DEF Unplug, persistent, History
    <2>3. \/ daemon' = NoDaemon /\ mode' \notin DaemonModes
          \/ daemon' = daemon /\ (mode' \in DaemonModes <=> mode \in DaemonModes)
      BY <1>2 DEF Unplug, DaemonModes, Goto, Lose, persistent
    <2> QED BY <2>1, <2>2, <2>3, ConfigFrame
  <1>3. CASE CheckRoot
    <2>1. data'.file = data.file /\ data'.bak = data.bak
      BY <1>3, <1>b DEF CheckRoot, Data
    <2>2. /\ history'.hurt = history.hurt /\ history'.saved = history.saved
          /\ history'.sound = history.sound
      BY <1>3, <1>b DEF CheckRoot, History
    <2>3. \/ daemon' = NoDaemon /\ mode' \notin DaemonModes
          \/ daemon' = daemon /\ (mode' \in DaemonModes <=> mode \in DaemonModes)
      BY <1>3 DEF CheckRoot, DaemonModes, Goto, Lose
    <2> QED BY <2>1, <2>2, <2>3, ConfigFrame
  <1>4. CASE BootCheck
    <2>1. data'.file = data.file /\ data'.bak = data.bak
      BY <1>4, <1>b DEF BootCheck, WriteCount, SetCounter, Data
    <2>2. /\ history'.hurt = history.hurt /\ history'.saved = history.saved
          /\ history'.sound = history.sound
      BY <1>4, <1>b DEF BootCheck, WriteCount, Lost, History
    <2>3. \/ daemon' = NoDaemon /\ mode' \notin DaemonModes
          \/ daemon' = daemon /\ (mode' \in DaemonModes <=> mode \in DaemonModes)
      BY <1>4 DEF BootCheck, DaemonModes, Goto, Lose, SetCounter
    <2> QED BY <2>1, <2>2, <2>3, ConfigFrame
  <1>5. CASE FlagRecovery
    <2>1. data'.file = data.file /\ data'.bak = data.bak
      BY <1>5, <1>b DEF FlagRecovery, Data
    <2>2. /\ history'.hurt = history.hurt /\ history'.saved = history.saved
          /\ history'.sound = history.sound
      BY <1>5, <1>b DEF FlagRecovery, History
    <2>3. \/ daemon' = NoDaemon /\ mode' \notin DaemonModes
          \/ daemon' = daemon /\ (mode' \in DaemonModes <=> mode \in DaemonModes)
      BY <1>5 DEF FlagRecovery, DaemonModes, Goto, Lose
    <2> QED BY <2>1, <2>2, <2>3, ConfigFrame
  <1>6. CASE RecoveryRoot
    <2>1. data'.file = data.file /\ data'.bak = data.bak
      BY <1>6, <1>b DEF RecoveryRoot, persistent, Data
    <2>2. /\ history'.hurt = history.hurt /\ history'.saved = history.saved
          /\ history'.sound = history.sound
      BY <1>6, <1>b DEF RecoveryRoot, persistent, History
    <2>3. \/ daemon' = NoDaemon /\ mode' \notin DaemonModes
          \/ daemon' = daemon /\ (mode' \in DaemonModes <=> mode \in DaemonModes)
      BY <1>6 DEF RecoveryRoot, DaemonModes, Goto, Lose, persistent
    <2> QED BY <2>1, <2>2, <2>3, ConfigFrame
  <1>7. CASE ApCheck
    <2>1. data'.file = data.file /\ data'.bak = data.bak
      BY <1>7, <1>b DEF ApCheck, Data
    <2>2. /\ history'.hurt = history.hurt /\ history'.saved = history.saved
          /\ history'.sound = history.sound
      BY <1>7, <1>b DEF ApCheck, History
    <2>3. \/ daemon' = NoDaemon /\ mode' \notin DaemonModes
          \/ daemon' = daemon /\ (mode' \in DaemonModes <=> mode \in DaemonModes)
      BY <1>7 DEF ApCheck, DaemonModes, Goto, Lose
    <2> QED BY <2>1, <2>2, <2>3, ConfigFrame
  <1>8. CASE StartDaemon
    <2>1. PICK l \in Load(data), failed \in 0 .. 1 :
            LET loaded == [data EXCEPT !.file = l.file]
            IN  /\ history' = Forgiven(Remembered(l))
                /\ daemon' = [NoDaemon EXCEPT !.paired = l.config.paired]
                /\ data' \in {loaded, [loaded EXCEPT !.counter = 0]}
      BY <1>8 DEF StartDaemon
    <2>2. /\ l.file \in Files
          /\ Remembered(l) \in History
          /\ Remembered(l).hurt = Hurt(history.hurt + l.failed)
          /\ Remembered(l).saved = history.saved
          /\ Remembered(l).sound = (l.config.age # "older" \/ ~history.saved)
      BY <1>b, LoadTypes, LoadedEdit
    <2>3. [data EXCEPT !.file = l.file] \in Data BY <1>b, <2>2, DataEdits
    <2>4. data'.file = l.file /\ data'.bak = data.bak BY <1>b, <2>1, <2>2, <2>3 DEF Data
    <2>5. /\ history'.hurt = Hurt(history.hurt + l.failed)
          /\ history'.saved = history.saved
          /\ history'.sound = (l.config.age # "older" \/ ~history.saved)
      BY <2>1, <2>2 DEF Forgiven, History
    <2>6. NobodySaves' BY <2>1 DEF NobodySaves, NoDaemon, NoSave
    <2> QED BY <2>4, <2>5, <2>6, <1>a, ConfigLoad
  <1>42. CASE DaemonDies
    <2>1. PICK l \in Load(data) :
            data' = [data EXCEPT !.file = l.file] /\ history' = Remembered(l)
      BY <1>42 DEF DaemonDies
    <2>2. /\ history'.hurt = Hurt(history.hurt + l.failed)
          /\ history'.saved = history.saved
          /\ history'.sound = (l.config.age # "older" \/ ~history.saved)
      BY <1>b, <2>1, LoadedEdit
    <2>3. data'.file = l.file /\ data'.bak = data.bak BY <1>b, <2>1 DEF Data
    <2>4. mode = "daemon" /\ daemon' = daemon BY <1>42 DEF DaemonDies
    <2>5. NobodySaves' BY <2>4 DEF ConfigInv, DaemonModes, NobodySaves
    <2> QED BY <2>2, <2>3, <2>5, <1>a, ConfigLoad
  <1>43. CASE EnterPanicRecovery
    <2>1. data'.file = data.file /\ data'.bak = data.bak
      BY <1>43, <1>b DEF EnterPanicRecovery, SetCounter, Data
    <2>2. /\ history'.hurt = history.hurt /\ history'.saved = history.saved
          /\ history'.sound = history.sound
      BY <1>43 DEF EnterPanicRecovery
    <2>3. daemon' = daemon /\ (mode' \in DaemonModes <=> mode \in DaemonModes)
      BY <1>43 DEF EnterPanicRecovery, DaemonModes, Goto
    <2> QED BY <2>1, <2>2, <2>3, ConfigFrame
  <1>9. CASE StartPortal
    <2>1. \/ UNCHANGED <<data, phase, mode, history>>
          \/ /\ Goto("panic") /\ UNCHANGED data /\ history' = Forgiven(history)
          \/ RunSetupMode
      BY <1>9 DEF StartPortal
    <2>2. mode = "portal" /\ daemon' = daemon BY <1>9 DEF StartPortal
    <2>3. CASE UNCHANGED <<data, phase, mode, history>> BY <2>2, <2>3, ConfigFrame
    <2>4. CASE \/ Goto("panic") /\ UNCHANGED data /\ history' = Forgiven(history)
               \/ RunSetupMode
      <3>1. data'.file = data.file /\ data'.bak = data.bak
        BY <1>b, <2>4 DEF RunSetupMode, SetCounter, Data
      <3>2. /\ history'.hurt = history.hurt /\ history'.saved = history.saved
            /\ history'.sound = history.sound
        BY <1>b, <2>4 DEF RunSetupMode, Forgiven, History
      <3>3. mode' \in {"panic", "setup"} BY <2>4 DEF RunSetupMode, Goto
      <3> QED BY <2>2, <3>1, <3>2, <3>3, ConfigFrame DEF DaemonModes
    <2> QED BY <2>1, <2>3, <2>4
  <1>10. CASE DoReboot
    <2>1. data'.file = data.file /\ data'.bak = data.bak
      BY <1>10, <1>b DEF DoReboot, Cleared, Data
    <2>2. /\ history'.hurt = history.hurt /\ history'.saved = history.saved
          /\ history'.sound = history.sound
      BY <1>10, <1>b DEF DoReboot, Cleared, History
    <2>3. \/ daemon' = NoDaemon /\ mode' \notin DaemonModes
          \/ daemon' = daemon /\ (mode' \in DaemonModes <=> mode \in DaemonModes)
      BY <1>10 DEF DoReboot, DaemonModes, Goto, Lose, Cleared
    <2> QED BY <2>1, <2>2, <2>3, ConfigFrame
  <1>11. CASE TriggerReboot
    <2>1. data'.file = data.file /\ data'.bak = data.bak
      BY <1>11, <1>b DEF TriggerReboot, Data
    <2>2. /\ history'.hurt = history.hurt /\ history'.saved = history.saved
          /\ history'.sound = history.sound
      BY <1>11, <1>b DEF TriggerReboot, History
    <2>3. \/ daemon' = NoDaemon /\ mode' \notin DaemonModes
          \/ daemon' = daemon /\ (mode' \in DaemonModes <=> mode \in DaemonModes)
      BY <1>11 DEF TriggerReboot, DaemonModes, Goto, Lose
    <2> QED BY <2>1, <2>2, <2>3, ConfigFrame
  <1>12. CASE InitSubsystems
    <2>1. data'.file = data.file /\ data'.bak = data.bak
      BY <1>12, <1>b DEF InitSubsystems, persistent, Data
    <2>2. /\ history'.hurt = history.hurt /\ history'.saved = history.saved
          /\ history'.sound = history.sound
      BY <1>12, <1>b DEF InitSubsystems, persistent, History
    <2>3. \/ daemon' = NoDaemon /\ mode' \notin DaemonModes
          \/ daemon' = daemon /\ (mode' \in DaemonModes <=> mode \in DaemonModes)
      BY <1>12 DEF InitSubsystems, DaemonModes, Goto, Lose, persistent
    <2> QED BY <2>1, <2>2, <2>3, ConfigFrame
  <1>13. CASE RunRecoveryMode
    <2>1. data'.file = data.file /\ data'.bak = data.bak
      BY <1>13, <1>b DEF RunRecoveryMode, WithoutAutoFlag, Data
    <2>2. /\ history'.hurt = history.hurt /\ history'.saved = history.saved
          /\ history'.sound = history.sound
      BY <1>13, <1>b DEF RunRecoveryMode, Forgiven, WithoutAutoFlag, History
    <2>3. \/ daemon' = NoDaemon /\ mode' \notin DaemonModes
          \/ daemon' = daemon /\ (mode' \in DaemonModes <=> mode \in DaemonModes)
      BY <1>13 DEF RunRecoveryMode, DaemonModes, Goto, Lose, WithoutAutoFlag
    <2> QED BY <2>1, <2>2, <2>3, ConfigFrame
  <1>14. CASE Verify
    <2>1. data'.file = data.file /\ data'.bak = data.bak
      BY <1>14, <1>b DEF Verify, Data
    <2>2. /\ history'.hurt = history.hurt /\ history'.saved = history.saved
          /\ history'.sound = history.sound
      BY <1>14, <1>b DEF Verify, History
    <2>3. \/ daemon' = NoDaemon /\ mode' \notin DaemonModes
          \/ daemon' = daemon /\ (mode' \in DaemonModes <=> mode \in DaemonModes)
      BY <1>14 DEF Verify, DaemonModes, Goto, Lose
    <2> QED BY <2>1, <2>2, <2>3, ConfigFrame
  <1>15. CASE Commit
    <2>1. data'.file = data.file /\ data'.bak = data.bak
      BY <1>15, <1>b DEF Commit, Data
    <2>2. /\ history'.hurt = history.hurt /\ history'.saved = history.saved
          /\ history'.sound = history.sound
      BY <1>15, <1>b DEF Commit, History
    <2>3. \/ daemon' = NoDaemon /\ mode' \notin DaemonModes
          \/ daemon' = daemon /\ (mode' \in DaemonModes <=> mode \in DaemonModes)
      BY <1>15 DEF Commit, DaemonModes, Goto, Lose
    <2> QED BY <2>1, <2>2, <2>3, ConfigFrame
  <1>16. CASE Paired
    BY <1>16, ConfigBegin DEF Paired, Savers
  <1>17. CASE SetConfig
    BY <1>17, ConfigBegin DEF SetConfig, Savers
  <1>18. CASE LineRenumber
    BY <1>18, ConfigBegin DEF LineRenumber, Savers
  <1>19. CASE OnRepair
    BY <1>19, ConfigBegin DEF OnRepair, Savers
  <1>20. CASE ClearRecoveryBootState
    <2>1. data'.file = data.file /\ data'.bak = data.bak
      BY <1>20, <1>b DEF ClearRecoveryBootState, At, Cleared, Data
    <2>2. /\ history'.hurt = history.hurt /\ history'.saved = history.saved
          /\ history'.sound = history.sound
      BY <1>20, <1>b DEF ClearRecoveryBootState, At, Cleared, History
    <2>3. \/ daemon' = NoDaemon /\ mode' \notin DaemonModes
          \/ daemon' = daemon /\ (mode' \in DaemonModes <=> mode \in DaemonModes)
      BY <1>20 DEF ClearRecoveryBootState, DaemonModes, Goto, Lose, At, Cleared
    <2> QED BY <2>1, <2>2, <2>3, ConfigFrame
  <1>21. CASE CodeSetup
    <2>1. data'.file = data.file /\ data'.bak = data.bak
      BY <1>21, <1>b DEF CodeSetup, Data
    <2>2. /\ history'.hurt = history.hurt /\ history'.saved = history.saved
          /\ history'.sound = history.sound
      BY <1>21, <1>b DEF CodeSetup, History
    <2>3. \/ daemon' = NoDaemon /\ mode' \notin DaemonModes
          \/ daemon' = daemon /\ (mode' \in DaemonModes <=> mode \in DaemonModes)
      BY <1>21 DEF CodeSetup, DaemonModes, Goto, Lose
    <2> QED BY <2>1, <2>2, <2>3, ConfigFrame
  <1>22. CASE TriggerFactoryReset
    <2>1. data'.file = data.file /\ data'.bak = data.bak
      BY <1>22, <1>b DEF TriggerFactoryReset, SetCounter, Data
    <2>2. /\ history'.hurt = history.hurt /\ history'.saved = history.saved
          /\ history'.sound = history.sound
      BY <1>22, <1>b DEF TriggerFactoryReset, SetCounter, History
    <2>3. \/ daemon' = NoDaemon /\ mode' \notin DaemonModes
          \/ daemon' = daemon /\ (mode' \in DaemonModes <=> mode \in DaemonModes)
      BY <1>22 DEF TriggerFactoryReset, DaemonModes, Goto, Lose, SetCounter
    <2> QED BY <2>1, <2>2, <2>3, ConfigFrame
  <1>23. CASE Configure
    <2>1. data'.file = data.file /\ data'.bak = data.bak
      BY <1>23, <1>b DEF Configure, SaveToBackup, Data
    <2>2. /\ history'.hurt = history.hurt /\ history'.saved = history.saved
          /\ history'.sound = history.sound
      BY <1>23, <1>b DEF Configure, SaveToBackup, History
    <2>3. \/ daemon' = NoDaemon /\ mode' \notin DaemonModes
          \/ daemon' = daemon /\ (mode' \in DaemonModes <=> mode \in DaemonModes)
      BY <1>23 DEF Configure, DaemonModes, Goto, Lose, SaveToBackup
    <2> QED BY <2>1, <2>2, <2>3, ConfigFrame
  <1>24. CASE WebFactoryReset
    <2>1. data'.file = data.file /\ data'.bak = data.bak
      BY <1>24, <1>b DEF WebFactoryReset, persistent, Data
    <2>2. /\ history'.hurt = history.hurt /\ history'.saved = history.saved
          /\ history'.sound = history.sound
      BY <1>24, <1>b DEF WebFactoryReset, persistent, History
    <2>3. \/ daemon' = NoDaemon /\ mode' \notin DaemonModes
          \/ daemon' = daemon /\ (mode' \in DaemonModes <=> mode \in DaemonModes)
      BY <1>24 DEF WebFactoryReset, DaemonModes, Goto, Lose, persistent
    <2> QED BY <2>1, <2>2, <2>3, ConfigFrame
  <1>25. CASE KeyFactoryReset
    <2>1. data'.file = data.file /\ data'.bak = data.bak
      BY <1>25, <1>b DEF KeyFactoryReset, persistent, Data
    <2>2. /\ history'.hurt = history.hurt /\ history'.saved = history.saved
          /\ history'.sound = history.sound
      BY <1>25, <1>b DEF KeyFactoryReset, persistent, History
    <2>3. \/ daemon' = NoDaemon /\ mode' \notin DaemonModes
          \/ daemon' = daemon /\ (mode' \in DaemonModes <=> mode \in DaemonModes)
      BY <1>25 DEF KeyFactoryReset, DaemonModes, Goto, Lose, persistent
    <2> QED BY <2>1, <2>2, <2>3, ConfigFrame
  <1>26. CASE WebTryAgain
    <2>1. data'.file = data.file /\ data'.bak = data.bak
      BY <1>26, <1>b DEF WebTryAgain, Cleared, Data
    <2>2. /\ history'.hurt = history.hurt /\ history'.saved = history.saved
          /\ history'.sound = history.sound
      BY <1>26, <1>b DEF WebTryAgain, Cleared, History
    <2>3. \/ daemon' = NoDaemon /\ mode' \notin DaemonModes
          \/ daemon' = daemon /\ (mode' \in DaemonModes <=> mode \in DaemonModes)
      BY <1>26 DEF WebTryAgain, DaemonModes, Goto, Lose, Cleared
    <2> QED BY <2>1, <2>2, <2>3, ConfigFrame
  <1>27. CASE KeyTryAgain
    <2>1. data'.file = data.file /\ data'.bak = data.bak
      BY <1>27, <1>b DEF KeyTryAgain, persistent, Data
    <2>2. /\ history'.hurt = history.hurt /\ history'.saved = history.saved
          /\ history'.sound = history.sound
      BY <1>27, <1>b DEF KeyTryAgain, persistent, History
    <2>3. \/ daemon' = NoDaemon /\ mode' \notin DaemonModes
          \/ daemon' = daemon /\ (mode' \in DaemonModes <=> mode \in DaemonModes)
      BY <1>27 DEF KeyTryAgain, DaemonModes, Goto, Lose, persistent
    <2> QED BY <2>1, <2>2, <2>3, ConfigFrame
  <1>28. ASSUME NEW star \in BOOLEAN, PowerOn(star) PROVE ConfigInv'
    <2>1. data'.file = data.file /\ data'.bak = data.bak
      BY <1>28, <1>b DEF PowerOn, Data
    <2>2. /\ history'.hurt = history.hurt /\ history'.saved = history.saved
          /\ history'.sound = history.sound
      BY <1>28, <1>b DEF PowerOn, History
    <2>3. \/ daemon' = NoDaemon /\ mode' \notin DaemonModes
          \/ daemon' = daemon /\ (mode' \in DaemonModes <=> mode \in DaemonModes)
      BY <1>28 DEF PowerOn, DaemonModes, Goto, Lose
    <2> QED BY <2>1, <2>2, <2>3, ConfigFrame
  <1>29. ASSUME NEW m \in {"initramfs", "off"}, CodeReboot(m) PROVE ConfigInv'
    <2>1. data'.file = data.file /\ data'.bak = data.bak
      BY <1>29, <1>b DEF CodeReboot, persistent, Data
    <2>2. /\ history'.hurt = history.hurt /\ history'.saved = history.saved
          /\ history'.sound = history.sound
      BY <1>29, <1>b DEF CodeReboot, persistent, History
    <2>3. \/ daemon' = NoDaemon /\ mode' \notin DaemonModes
          \/ daemon' = daemon /\ (mode' \in DaemonModes <=> mode \in DaemonModes)
      BY <1>29 DEF CodeReboot, DaemonModes, Goto, Lose, persistent
    <2> QED BY <2>1, <2>2, <2>3, ConfigFrame
  <1>30. ASSUME NEW g \in Savers, SaveCopy(g) PROVE ConfigInv'
    BY <1>30, ConfigCopy
  <1>31. ASSUME NEW g \in Savers, SaveWrite(g) PROVE ConfigInv'
    BY <1>31, ConfigWrite
  <1>32. ASSUME NEW g \in Savers, Leave(g) PROVE ConfigInv'
    <2>1. data'.file = data.file /\ data'.bak = data.bak
      BY <1>32, <1>b DEF Leave, SaveAt, persistent, Data
    <2>2. /\ history'.hurt = history.hurt /\ history'.saved = history.saved
          /\ history'.sound = history.sound
      BY <1>32, <1>b DEF Leave, SaveAt, persistent, History
    <2>3. \/ daemon' = NoDaemon /\ mode' \notin DaemonModes
          \/ daemon' = daemon /\ (mode' \in DaemonModes <=> mode \in DaemonModes)
      BY <1>32 DEF Leave, DaemonModes, Goto, Lose, SaveAt, persistent
    <2> QED BY <2>1, <2>2, <2>3, ConfigFrame
  <1>33. ASSUME NEW t \in Tasks, ClearRecoveryPhase(t) PROVE ConfigInv'
    <2>1. data'.file = data.file /\ data'.bak = data.bak
      BY <1>33, <1>b DEF ClearRecoveryPhase, Data
    <2>2. /\ history'.hurt = history.hurt /\ history'.saved = history.saved
          /\ history'.sound = history.sound
      BY <1>33, <1>b DEF ClearRecoveryPhase, History
    <2>3. \/ daemon' = NoDaemon /\ mode' \notin DaemonModes
          \/ daemon' = daemon /\ (mode' \in DaemonModes <=> mode \in DaemonModes)
      BY <1>33 DEF ClearRecoveryPhase, DaemonModes, Goto, Lose
    <2> QED BY <2>1, <2>2, <2>3, ConfigFrame
  <1>34. ASSUME NEW t \in Tasks, RecoveryReboot(t) PROVE ConfigInv'
    <2>1. data'.file = data.file /\ data'.bak = data.bak
      BY <1>34, <1>b DEF RecoveryReboot, At, Cleared, Data
    <2>2. /\ history'.hurt = history.hurt /\ history'.saved = history.saved
          /\ history'.sound = history.sound
      BY <1>34, <1>b DEF RecoveryReboot, At, Cleared, History
    <2>3. \/ daemon' = NoDaemon /\ mode' \notin DaemonModes
          \/ daemon' = daemon /\ (mode' \in DaemonModes <=> mode \in DaemonModes)
      BY <1>34 DEF RecoveryReboot, DaemonModes, Goto, Lose, At, Cleared
    <2> QED BY <2>1, <2>2, <2>3, ConfigFrame
  <1>35. ASSUME NEW t \in Tasks, RestoreRoot(t) PROVE ConfigInv'
    <2>1. data'.file = data.file /\ data'.bak = data.bak
      BY <1>35, <1>b DEF RestoreRoot, Data
    <2>2. /\ history'.hurt = history.hurt /\ history'.saved = history.saved
          /\ history'.sound = history.sound
      BY <1>35, <1>b DEF RestoreRoot, History
    <2>3. \/ daemon' = NoDaemon /\ mode' \notin DaemonModes
          \/ daemon' = daemon /\ (mode' \in DaemonModes <=> mode \in DaemonModes)
      BY <1>35 DEF RestoreRoot, DaemonModes, Goto, Lose
    <2> QED BY <2>1, <2>2, <2>3, ConfigFrame
  <1>36. ASSUME NEW t \in Tasks, RootWritten(t) PROVE ConfigInv'
    <2>1. data'.file = data.file /\ data'.bak = data.bak
      BY <1>36, <1>b DEF RootWritten, Data
    <2>2. /\ history'.hurt = history.hurt /\ history'.saved = history.saved
          /\ history'.sound = history.sound
      BY <1>36, <1>b DEF RootWritten, History
    <2>3. \/ daemon' = NoDaemon /\ mode' \notin DaemonModes
          \/ daemon' = daemon /\ (mode' \in DaemonModes <=> mode \in DaemonModes)
      BY <1>36 DEF RootWritten, DaemonModes, Goto, Lose
    <2> QED BY <2>1, <2>2, <2>3, ConfigFrame
  <1>37. ASSUME NEW t \in Tasks, UnmountData(t) PROVE ConfigInv'
    <2>1. data'.file = data.file /\ data'.bak = data.bak
      BY <1>37, <1>b DEF UnmountData, Data
    <2>2. /\ history'.hurt = history.hurt /\ history'.saved = history.saved
          /\ history'.sound = history.sound
      BY <1>37, <1>b DEF UnmountData, History
    <2>3. \/ daemon' = NoDaemon /\ mode' \notin DaemonModes
          \/ daemon' = daemon /\ (mode' \in DaemonModes <=> mode \in DaemonModes)
      BY <1>37 DEF UnmountData, DaemonModes, Goto, Lose
    <2> QED BY <2>1, <2>2, <2>3, ConfigFrame
  <1>38. ASSUME NEW t \in Tasks, FormatData(t) PROVE ConfigInv'
    <2>1. mode = "recovery" /\ mode' = mode /\ daemon' = daemon BY <1>38 DEF FormatData, At
    <2>2. NobodySaves BY <2>1 DEF ConfigInv, DaemonModes
    <2>3. NobodySaves' /\ OneSave' BY <2>1, <2>2 DEF NobodySaves, OneSave, Saving_
    <2>4. CASE data' = data /\ history' = history BY <2>1, <2>4, ConfigFrame
    <2>5. CASE history' = [history EXCEPT !.saved = FALSE, !.hurt = 0, !.sound = TRUE]
      <3>1. history'.saved = FALSE /\ history'.sound = TRUE BY <1>b, <2>5 DEF History
      <3> QED BY <2>3, <3>1 DEF ConfigInv
    <2> QED BY <1>38, <2>4, <2>5 DEF FormatData
  <1>39. ASSUME NEW t \in Tasks, MountData(t) PROVE ConfigInv'
    <2>1. data'.file = data.file /\ data'.bak = data.bak
      BY <1>39, <1>b DEF MountData, persistent, Data
    <2>2. /\ history'.hurt = history.hurt /\ history'.saved = history.saved
          /\ history'.sound = history.sound
      BY <1>39, <1>b DEF MountData, persistent, History
    <2>3. \/ daemon' = NoDaemon /\ mode' \notin DaemonModes
          \/ daemon' = daemon /\ (mode' \in DaemonModes <=> mode \in DaemonModes)
      BY <1>39 DEF MountData, DaemonModes, Goto, Lose, persistent
    <2> QED BY <2>1, <2>2, <2>3, ConfigFrame
  <1>40. ASSUME NEW t \in Tasks, ResetDone(t) PROVE ConfigInv'
    <2>1. data'.file = data.file /\ data'.bak = data.bak
      BY <1>40, <1>b DEF ResetDone, Data
    <2>2. /\ history'.hurt = history.hurt /\ history'.saved = history.saved
          /\ history'.sound = history.sound
      BY <1>40, <1>b DEF ResetDone, History
    <2>3. \/ daemon' = NoDaemon /\ mode' \notin DaemonModes
          \/ daemon' = daemon /\ (mode' \in DaemonModes <=> mode \in DaemonModes)
      BY <1>40 DEF ResetDone, DaemonModes, Goto, Lose
    <2> QED BY <2>1, <2>2, <2>3, ConfigFrame
  <1>41. CASE UNCHANGED vars
    BY <1>41, ConfigFrame DEF vars
  <1> QED
    BY <1>1, <1>2, <1>3, <1>4, <1>5, <1>6, <1>7, <1>8, <1>9, <1>10, <1>11, <1>12, <1>13, <1>14,
       <1>15, <1>16, <1>17, <1>18, <1>19, <1>20, <1>21, <1>22, <1>23, <1>24, <1>25, <1>26,
       <1>27, <1>28, <1>29, <1>30, <1>31, <1>32, <1>33, <1>34, <1>35, <1>36, <1>37, <1>38,
       <1>39, <1>40, <1>41, <1>42, <1>43
    DEF Next, Runs, Portal, Server, Saving, RecoveryTasks, ResetStep, User

-----------------------------------------------------------------------------
LEMMA InitInv == Init => IInv
  <1> SUFFICES ASSUME Init PROVE IInv OBVIOUS
  <1>1. BootInv BY DEF Init, BootInv, Bad, Counter, Fresh
  <1>2. ConfigInv
    <2>1. /\ data.file.shape = "good" /\ data.file.age = "last"
          /\ data.bak.shape = "good" /\ data.bak.age = "before"
      BY DEF Init, File, Fresh
    <2>2. NobodySaves BY DEF Init, NobodySaves, NoDaemon, NoSave
    <2>3. Unhurt BY <2>1, <2>2 DEF Unhurt, Recent, NobodySaves
    <2>4. OneSave BY <2>2 DEF OneSave, NobodySaves, Saving_
    <2> QED BY <2>2, <2>3, <2>4 DEF Init, ConfigInv
  <1> QED BY <1>1, <1>2, InitType DEF IInv

LEMMA Inductive == Spec => []IInv
  <1>1. IInv /\ [Next]_vars => IInv' BY TypeStep, BootStep, ConfigStep DEF IInv
  <1> QED BY InitInv, <1>1, PTL DEF Spec

\* Every value a boot, a save or a reset leaves behind is of its type: the
\* partition, the recovery session, the daemon's memory and the budgets.
THEOREM TypeCorrect == Spec => []TypeOK
  <1>1. IInv => TypeOK BY DEF IInv
  <1> QED BY <1>1, Inductive, PTL

\* However often the power is cut and whatever fails, the normal root is entered at
\* most twice in a row without becoming usable, and twice more for every write of
\* the boot counter that failed or was cut (boot-check.sh, THRESHOLD), unless the
\* recovery partition did not mount.
THEOREM BootsAreBounded == Spec => []BadBootsAreBounded
  <1>1. IInv => BadBootsAreBounded
    BY DEF IInv, BootInv, BadBootsAreBounded, Bad, TypeOK, History
  <1> QED BY <1>1, Inductive, PTL

\* Whatever the order of cuts, Saves and Loads, one damaged or unwritten file
\* does not cost the phone its configuration (config.go, Load and Save).
THEOREM OneDamageIsSurvived == Spec => []ConfigSurvives
  <1>1. IInv => ConfigSurvives BY DEF IInv, ConfigInv, ConfigSurvives
  <1> QED BY <1>1, Inductive, PTL

-----------------------------------------------------------------------------
(* Call return, from CallReturn.                                           *)

(***************************************************************************)
(* The inductive invariant of call return.  A retry that waits while its   *)
(* two lines are free is about to be looked at: by a goroutine that will   *)
(* hear of a call of theirs, or one that looks at it now (Covers); and     *)
(* while nothing excuses it both lines are connected and in no conference, *)
(* so that a look at free lines ends with a ring.                          *)
(***************************************************************************)
Names == R!Everyone \cup {NoNumber}
Stages == {"idle", "notify", "check", "target", "self", "online", "ring", "after"}
Handlers == [pc : Stages, ended : Names \X Names, target : Names]
UpMessages == {"call_return", "call_return_cancel", "hangup"} \X {NoNumber}
              \cup {"call", "call_return_retry"} \X Others

ReturnTypes ==
  /\ calls \subseteq R!Everyone \X R!Everyone /\ conf \subseteq Others
  /\ up \in Seq(UpMessages)
  /\ pending \in [target : Names, expired : BOOLEAN]
  /\ handler \in [R!Goroutines -> Handlers]
  /\ excused \in BOOLEAN

Covers(g) ==
  \/ handler[g].pc = "notify" /\ R!Concerns(handler[g].ended)
  \/ handler[g].pc = "check"
  \/ /\ handler[g].pc \in {"target", "self", "online", "ring"}
     /\ handler[g].target = pending.target

BusyLine == R!Busy(Requester) \/ R!Busy(pending.target)
Watched == BusyLine \/ \E g \in R!Goroutines : Covers(g)
Connected == {Requester, pending.target} \subseteq online \ conf

ReturnInv ==
  /\ ReturnTypes
  /\ R!Pending /\ ~ excused => Connected
  /\ R!Pending /\ ~ excused /\ ~ pending.expired => Watched

(* What the phone sends is a message of its.                               *)
LEMMA AskTyped ==
  ASSUME ReturnTypes, NEW k, NEW n, <<k, n>> \in UpMessages, R!Ask(k, n)
  PROVE  up' \in Seq(UpMessages)
  <1> DEFINE m == <<k, n>>
  <1>1. m \in UpMessages /\ (up' = up \/ up' = Append(up, m)) BY DEF R!Ask
  <1>2. up \in Seq(UpMessages) BY DEF ReturnTypes
  <1> HIDE DEF m
  <1> QED BY <1>1, <1>2

LEMMA Served ==
  ASSUME ReturnTypes, NEW k, R!Receives(k)
  PROVE  /\ up' \in Seq(UpMessages) /\ (k \in {"call", "call_return_retry"} => R!Number \in Others)
         /\ "loop" \in R!Goroutines /\ handler["loop"].pc = "idle"
  <1>1. up \in Seq(UpMessages) /\ up # <<>> BY DEF ReturnTypes, R!Receives
  <1>2. Head(up) \in UpMessages /\ Tail(up) \in Seq(UpMessages) BY <1>1
  <1>3. Head(up)[1] = k BY DEF R!Receives
  <1>4. k \in {"call", "call_return_retry"} => Head(up)[2] \in Others BY <1>2, <1>3 DEF UpMessages
  <1> QED BY <1>2, <1>4 DEF R!Receives, R!Number, R!Goroutines, R!HandlerAt

(* Nothing of the server changes, unless a line connects.                  *)
LEMMA ReturnFrame ==
  ASSUME ReturnInv, UNCHANGED <<calls, conf, pending, handler, excused>>,
         online \subseteq online', up' \in Seq(UpMessages)
  PROVE  ReturnInv'
  <1>1. ReturnTypes' BY DEF ReturnInv, ReturnTypes
  <1>2. Watched' <=> Watched
    BY DEF Watched, BusyLine, Covers, R!Busy, R!Concerns, R!Pending
  <1>3. Connected => Connected' BY DEF Connected
  <1>4. R!Pending' <=> R!Pending BY DEF R!Pending
  <1> QED BY <1>1, <1>2, <1>3, <1>4 DEF ReturnInv

LEMMA PhoneStep ==
  ASSUME ReturnInv, R!Phone PROVE ReturnInv'
  <1>2. CASE R!Reconnected
    <2> DEFINE m == <<"hangup", NoNumber>>
    <2>1. m \in UpMessages BY DEF UpMessages
    <2>2. up' = up \/ up' = Append(up, m) BY <1>2 DEF R!Reconnected
    <2>3. up \in Seq(UpMessages) BY DEF ReturnInv, ReturnTypes
    <2>4. up' \in Seq(UpMessages)
      <3> HIDE DEF m
      <3> QED BY <2>1, <2>2, <2>3
    <2> QED BY <1>2, <2>4, ReturnFrame DEF R!Reconnected, R!tracker
  <1>3. CASE ~ R!Reconnected
    <2>1. UNCHANGED <<calls, conf, pending, handler, excused, online>>
      BY <1>3 DEF R!Phone, R!OnHookOff, R!OnHookOn, R!PressOne, R!Dial, R!OnCallReturn,
         R!OnCallReturnCancel, R!OnCallReturnAbandon, R!DialtoneReset, R!DialDelay,
         R!SendRetry, R!OnResult, R!OnCancelled, R!HandleCallReturnRing, R!OnBusy,
         R!OnError, R!OnSignalRing, R!OnSignalAnswer, R!OnSignalHangup, R!Only,
         R!Becomes, R!server, R!tracker
    <2>2. \/ UNCHANGED up
          \/ \E k \in {"call_return", "call_return_cancel", "hangup"} : R!Ask(k, NoNumber)
          \/ \E k \in {"call", "call_return_retry"}, n \in Others : R!Ask(k, n)
      BY <1>3 DEF R!Phone, R!OnHookOff, R!OnHookOn, R!PressOne, R!Dial, R!OnCallReturn,
         R!OnCallReturnCancel, R!OnCallReturnAbandon, R!DialtoneReset, R!DialDelay,
         R!SendRetry, R!OnResult, R!OnCancelled, R!HandleCallReturnRing, R!OnBusy,
         R!OnError, R!OnSignalRing, R!OnSignalAnswer, R!OnSignalHangup, R!Only,
         R!Becomes, R!wires
    <2>3. /\ \A k \in {"call_return", "call_return_cancel", "hangup"} : <<k, NoNumber>> \in UpMessages
          /\ \A k \in {"call", "call_return_retry"}, n \in Others : <<k, n>> \in UpMessages
      BY DEF UpMessages
    <2>4. ~ UNCHANGED up => up' \in Seq(UpMessages)
      BY <2>2, <2>3, AskTyped DEF ReturnInv
    <2>5. up' \in Seq(UpMessages) BY <2>4 DEF ReturnInv, ReturnTypes
    <2> QED BY <2>1, <2>5, ReturnFrame
  <1> QED BY <1>2, <1>3

(* A goroutine goes on, and nobody is overlooked.                          *)
LEMMA HandlerMoves ==
  ASSUME ReturnTypes, NEW g \in R!Goroutines, NEW h \in Handlers,
         handler' = [handler EXCEPT ![g] = h]
  PROVE  /\ handler' \in [R!Goroutines -> Handlers] /\ handler'[g] = h
         /\ \A o \in R!Goroutines : o # g => handler'[o] = handler[o]
  BY DEF ReturnTypes

LEMMA LookMoves ==
  ASSUME ReturnInv, NEW g \in R!Goroutines, NEW h \in Handlers,
         handler' = [handler EXCEPT ![g] = h],
         UNCHANGED <<calls, conf, up>>, pending' \in {pending, R!NoRetry},
         excused' \in {excused, TRUE}, R!Pending' /\ ~ excused' => online' = online,
         R!Pending' /\ ~ excused' /\ ~ pending.expired /\ Covers(g) => BusyLine \/ Covers(g)'
  PROVE  ReturnInv'
  <1>1. /\ handler' \in [R!Goroutines -> Handlers] /\ handler'[g] = h
        /\ \A o \in R!Goroutines : o # g => handler'[o] = handler[o]
    BY HandlerMoves DEF ReturnInv
  <1>2. R!NoRetry \in [target : Names, expired : BOOLEAN] BY DEF R!NoRetry, Names
  <1>3. ReturnTypes' BY <1>1, <1>2 DEF ReturnInv, ReturnTypes
  <1>4. CASE pending' = pending /\ excused' = excused /\ R!Pending /\ ~ excused
    <2>1. R!Pending' BY <1>4 DEF R!Pending
    <2>2. Connected' BY <1>4, <2>1 DEF ReturnInv, Connected
    <2>3. BusyLine' <=> BusyLine BY <1>4 DEF BusyLine, R!Busy
    <2>4. \A o \in R!Goroutines : o # g => (Covers(o)' <=> Covers(o))
      BY <1>1, <1>4 DEF Covers, R!Concerns, R!Pending
    <2>5. ~ pending.expired => Watched'
      BY <1>4, <2>1, <2>3, <2>4 DEF ReturnInv, Watched
    <2> QED BY <1>3, <1>4, <2>2, <2>5 DEF ReturnInv
  <1>5. CASE ~ (pending' = pending /\ excused' = excused /\ R!Pending /\ ~ excused)
    <2>1. ~ R!Pending' \/ excused' BY <1>5 DEF R!Pending, ReturnInv, ReturnTypes
    <2> QED BY <1>3, <2>1 DEF ReturnInv
  <1> QED BY <1>4, <1>5

(* OnCallEndedNotify and checkPendingReturn, look by look.                 *)
LEMMA LookStep ==
  ASSUME ReturnInv, NEW g \in R!Goroutines, R!Look(g) PROVE ReturnInv'
  <1>0. ReturnTypes /\ handler[g] \in Handlers /\ pending.target \in Names
    BY DEF ReturnInv, ReturnTypes
  <1>1. R!Rest \in Handlers BY DEF R!Rest, Handlers, Stages, Names
  <1>2. \A pc \in Stages : /\ [handler[g] EXCEPT !.pc = pc] \in Handlers
                           /\ [handler EXCEPT ![g].pc = pc] =
                                [handler EXCEPT ![g] = [handler[g] EXCEPT !.pc = pc]]
    BY <1>0 DEF Handlers, ReturnTypes
  <1>3. CASE R!OnCallEndedNotify(g)
    <2> DEFINE pc == IF R!Concerns(handler[g].ended) /\ ~ pending.expired THEN "check" ELSE "after"
               h == [handler[g] EXCEPT !.pc = pc]
    <2>1. pc \in Stages BY DEF Stages
    <2>2. h \in Handlers /\ handler' = [handler EXCEPT ![g] = h]
      BY <1>2, <1>3, <2>1 DEF R!OnCallEndedNotify, R!HandlerTo
    <2>3. h.pc = pc BY <1>0 DEF Handlers
    <2>4. handler'[g] = h BY <1>0, <2>2, HandlerMoves
    <2>5. ~ pending.expired /\ Covers(g) => Covers(g)'
      BY <1>3, <2>3, <2>4 DEF Covers, R!OnCallEndedNotify, R!HandlerAt
    <2> HIDE DEF h
    <2> QED
      BY <1>3, <2>2, <2>5, LookMoves DEF R!OnCallEndedNotify, R!tracker, R!wires
  <1>4. CASE R!CheckPendingReturn(g)
    <2> DEFINE h == IF ~ R!Pending \/ pending.expired THEN [handler[g] EXCEPT !.pc = "after"]
                    ELSE [handler[g] EXCEPT !.pc = "target", !.target = pending.target]
    <2>1. h \in Handlers BY <1>0 DEF Handlers, Stages
    <2>2. handler' = [handler EXCEPT ![g] = h]
      BY <1>0, <1>4 DEF R!CheckPendingReturn, ReturnTypes, Handlers
    <2>3. R!Pending /\ ~ pending.expired => h.pc = "target" /\ h.target = pending.target
      BY <1>0 DEF Handlers
    <2>4. handler'[g] = h BY <1>0, <2>1, <2>2, HandlerMoves
    <2>5. R!Pending' /\ ~ pending.expired => Covers(g)'
      BY <1>4, <2>3, <2>4 DEF Covers, R!CheckPendingReturn, R!Pending
    <2> HIDE DEF h
    <2> QED
      BY <1>4, <2>1, <2>2, <2>5, LookMoves DEF R!CheckPendingReturn, R!tracker, R!wires
  <1>5. ASSUME NEW n, NEW from \in Stages, NEW next \in Stages, R!AskBusy(g, from, n, next),
               <<from, n, next>> \in {<<"target", handler[g].target, "self">>,
                                      <<"self", Requester, "online">>}
        PROVE  ReturnInv'
    <2> DEFINE pc == IF R!Busy(n) THEN "after" ELSE next
               h == [handler[g] EXCEPT !.pc = pc]
    <2>1. pc \in Stages BY DEF Stages
    <2>2. h \in Handlers /\ handler' = [handler EXCEPT ![g] = h]
      BY <1>2, <1>5, <2>1 DEF R!AskBusy, R!HandlerTo
    <2>3. h.pc = pc /\ h.target = handler[g].target BY <1>0 DEF Handlers
    <2>4. handler'[g] = h BY <1>0, <2>2, HandlerMoves
    <2>5. Covers(g) => BusyLine \/ Covers(g)'
      BY <1>5, <2>3, <2>4 DEF Covers, BusyLine, R!AskBusy, R!HandlerAt
    <2> HIDE DEF h
    <2> QED BY <1>5, <2>2, <2>5, LookMoves DEF R!AskBusy, R!tracker, R!wires
  <1>6. CASE R!AskOnline(g)
    <2> DEFINE pc == IF R!IsOnline(Requester) /\ R!IsOnline(handler[g].target) THEN "ring" ELSE "after"
               h == [handler[g] EXCEPT !.pc = pc]
    <2>1. pc \in Stages BY DEF Stages
    <2>2. h \in Handlers /\ handler' = [handler EXCEPT ![g] = h]
      BY <1>2, <1>6, <2>1 DEF R!AskOnline, R!HandlerTo
    <2>3. h.pc = pc /\ h.target = handler[g].target BY <1>0 DEF Handlers
    <2>4. handler'[g] = h BY <1>0, <2>2, HandlerMoves
    <2>5. R!Pending /\ ~ excused /\ Covers(g) => Covers(g)'
      BY <1>6, <2>3, <2>4
      DEF Covers, R!AskOnline, R!HandlerAt, R!IsOnline, ReturnInv, Connected
    <2>6. R!Pending' => R!Pending BY <1>6 DEF R!AskOnline, R!Pending
    <2> HIDE DEF h
    <2> QED BY <1>6, <2>2, <2>5, <2>6, LookMoves DEF R!AskOnline, R!tracker, R!wires
  <1>7. CASE R!RingRequester(g)
    <2>1. "after" \in Stages BY DEF Stages
    <2>2. /\ [handler[g] EXCEPT !.pc = "after"] \in Handlers
          /\ handler' = [handler EXCEPT ![g] = [handler[g] EXCEPT !.pc = "after"]]
      BY <1>2, <1>7, <2>1 DEF R!RingRequester, R!HandlerTo
    <2>3. ~ R!Pending' BY <1>7 DEF R!RingRequester, R!Pending
    <2> QED BY <1>7, <2>2, <2>3, LookMoves DEF R!RingRequester, R!tracker
  <1>8. CASE R!AfterNotify(g)
    <2> DEFINE ended == handler[g].ended
               gone == ended # R!Rest.ended /\ ended[2] = NoNumber
    <2>1. /\ handler' = [handler EXCEPT ![g] = R!Rest] /\ handler[g].pc = "after"
          /\ UNCHANGED <<calls, conf, up>>
          /\ pending' = IF gone /\ ended[1] = Requester THEN R!NoRetry ELSE pending
          /\ online' = IF gone THEN online \ {ended[1]} ELSE online
          /\ IF gone THEN R!Excuse({ended[1]}) ELSE UNCHANGED excused
      BY <1>8 DEF R!AfterNotify, R!tracker, R!HandlerAt
    <2>2. excused' \in {excused, TRUE} BY <2>1 DEF R!Excuse, ReturnInv, ReturnTypes
    <2>3. ~ Covers(g) BY <2>1 DEF Covers
    <2>4. CASE R!Pending' /\ ~ excused' /\ gone
      <3>1. pending' = pending /\ R!Pending BY <2>1, <2>4 DEF R!Pending
      <3>2. ended[1] \notin {Requester, pending.target} /\ ~ excused
        BY <2>1, <2>4, <3>1 DEF R!Excuse
      <3>3. /\ handler' \in [R!Goroutines -> Handlers] /\ handler'[g] = R!Rest
            /\ \A o \in R!Goroutines : o # g => handler'[o] = handler[o]
        BY <1>0, <1>1, <2>1, HandlerMoves
      <3>4. ReturnTypes' BY <2>1, <2>2, <3>1, <3>3 DEF ReturnInv, ReturnTypes
      <3>5. Connected' BY <2>1, <2>4, <3>1, <3>2 DEF ReturnInv, Connected
      <3>6. ~ pending.expired => Watched'
        <4>1. BusyLine' <=> BusyLine BY <2>1, <3>1 DEF BusyLine, R!Busy
        <4>2. \A o \in R!Goroutines : o # g => (Covers(o)' <=> Covers(o))
          BY <3>1, <3>3, <2>4 DEF Covers, R!Concerns, R!Pending
        <4> QED BY <2>3, <3>1, <3>2, <4>1, <4>2 DEF ReturnInv, Watched
      <3> QED BY <3>1, <3>4, <3>5, <3>6 DEF ReturnInv
    <2>5. CASE ~ (R!Pending' /\ ~ excused' /\ gone)
      <3>1. R!Pending' /\ ~ excused' => online' = online BY <2>1, <2>5
      <3>2. pending' \in {pending, R!NoRetry} BY <2>1
      <3> QED BY <1>1, <2>1, <2>2, <2>3, <3>1, <3>2, LookMoves
    <2> QED BY <2>4, <2>5
  <1> QED
    <2>1. {"target", "self", "online"} \subseteq Stages BY DEF Stages
    <2> QED BY <1>3, <1>4, <1>5, <1>6, <1>7, <1>8, <2>1 DEF R!Look

(* The end of a call is heard of, or excuses the retries of its lines.     *)
LEMMA CallEndStep ==
  ASSUME ReturnInv, NEW g \in R!Goroutines, handler[g].pc = "idle",
         NEW c \in calls, R!OnCallEnded(g, c),
         UNCHANGED <<conf, online, pending>>, up' \in Seq(UpMessages)
  PROVE  ReturnInv'
  <1> DEFINE notify == [R!Rest EXCEPT !.pc = "notify", !.ended = c]
             after == [R!Rest EXCEPT !.pc = "after", !.ended = c]
  <1>1. c \in Names \X Names /\ ReturnTypes BY DEF ReturnInv, ReturnTypes, Names
  <1>2. notify \in Handlers /\ after \in Handlers /\ notify.pc = "notify" /\ notify.ended = c
    BY <1>1 DEF Handlers, R!Rest, Stages, Names
  <1>3. PICK h \in {notify, after} : handler' = [handler EXCEPT ![g] = h]
    BY DEF R!OnCallEnded
  <1>4. \/ h = notify /\ excused' = excused
        \/ R!Excuse({c[1], c[2]})
    BY <1>1, <1>2, <1>3 DEF R!OnCallEnded, ReturnTypes
  <1>5. calls' = calls \ {c} BY DEF R!OnCallEnded
  <1> HIDE DEF notify, after
  <1>6. /\ handler' \in [R!Goroutines -> Handlers] /\ handler'[g] = h
        /\ \A o \in R!Goroutines : o # g => handler'[o] = handler[o]
    BY <1>1, <1>2, <1>3, HandlerMoves
  <1>7. excused' \in BOOLEAN /\ (excused => excused')
    BY <1>1, <1>4 DEF R!Excuse, ReturnTypes
  <1>8. ReturnTypes' BY <1>1, <1>5, <1>6, <1>7 DEF ReturnTypes
  <1>9. ASSUME R!Pending', ~ excused' PROVE Connected'
    BY <1>7, <1>9 DEF ReturnInv, Connected, R!Pending
  <1>10. ASSUME R!Pending', ~ excused', ~ pending'.expired PROVE Watched'
    <2>1. R!Pending /\ ~ excused /\ ~ pending.expired BY <1>7, <1>10 DEF R!Pending
    <2>2. ~ Covers(g) BY DEF Covers
    <2>3. \A o \in R!Goroutines : o # g => (Covers(o)' <=> Covers(o))
      BY <1>6 DEF Covers, R!Concerns, R!Pending
    <2>4. CASE {Requester, pending.target} \cap {c[1], c[2]} = {}
      <3>1. BusyLine => BusyLine' BY <1>5, <2>4 DEF BusyLine, R!Busy
      <3> QED BY <2>1, <2>2, <2>3, <3>1 DEF ReturnInv, Watched
    <2>5. CASE {Requester, pending.target} \cap {c[1], c[2]} # {}
      <3>1. h = notify BY <1>4, <1>10, <2>1, <2>5 DEF R!Excuse
      <3>2. Covers(g)' BY <1>2, <1>6, <1>10, <2>5, <3>1 DEF Covers, R!Concerns
      <3> QED BY <3>2 DEF Watched
    <2> QED BY <2>4, <2>5
  <1> QED BY <1>8, <1>9, <1>10 DEF ReturnInv

(* A call more makes no line free.                                         *)
LEMMA CallAddedStep ==
  ASSUME ReturnInv, NEW c \in R!Everyone \X R!Everyone, calls' = calls \cup {c},
         UNCHANGED <<conf, online, pending, handler, excused>>, up' \in Seq(UpMessages)
  PROVE  ReturnInv'
  <1>1. ReturnTypes' BY DEF ReturnInv, ReturnTypes
  <1>2. Watched => Watched'
    BY DEF Watched, BusyLine, Covers, R!Busy, R!Concerns, R!Pending
  <1>3. (Connected' <=> Connected) /\ (R!Pending' <=> R!Pending) BY DEF Connected, R!Pending
  <1> QED BY <1>1, <1>2, <1>3 DEF ReturnInv

(* The read loop serves the requester's messages.                          *)
LEMMA HandleStep ==
  ASSUME ReturnInv, R!Handle, ReturnAssumption PROVE ReturnInv'
  <1>0. ReturnTypes BY DEF ReturnInv
  <1>1. CASE R!HandleCallReturn
    BY <1>0, <1>1, Served, ReturnFrame DEF R!HandleCallReturn, R!server, R!tracker
  <1>2. CASE R!HandleCallReturnRetry
    <2> DEFINE h == [handler["loop"] EXCEPT !.pc = "check"]
    <2>1. /\ up' \in Seq(UpMessages) /\ R!Number \in Others
          /\ "loop" \in R!Goroutines /\ handler["loop"].pc = "idle"
      BY <1>0, <1>2, Served DEF R!HandleCallReturnRetry
    <2>2. h \in Handlers /\ h.pc = "check" /\ handler' = [handler EXCEPT !["loop"] = h]
      <3>1. handler["loop"] \in Handlers BY <1>0, <2>1 DEF ReturnTypes
      <3>2. h \in Handlers /\ h.pc = "check" BY <3>1 DEF Handlers, Stages
      <3>3. handler' = [handler EXCEPT !["loop"].pc = "check"]
        BY <1>2 DEF R!HandleCallReturnRetry, R!HandlerTo
      <3> QED BY <3>2, <3>3
    <2> HIDE DEF h
    <2>3. handler' \in [R!Goroutines -> Handlers] /\ handler'["loop"] = h
      BY <1>0, <2>1, <2>2, HandlerMoves
    <2>4. /\ pending' = [target |-> R!Number, expired |-> FALSE]
          /\ UNCHANGED <<calls, conf, online>>
          /\ excused' = (R!Number \in conf \/ {R!Number, Requester} \cap (R!Everyone \ online) # {})
      BY <1>2 DEF R!HandleCallReturnRetry, R!NoRetry, R!tracker
    <2>5. R!Number \in Names BY <2>1 DEF Names, R!Everyone
    <2>6. ReturnTypes' BY <1>0, <2>1, <2>3, <2>4, <2>5 DEF ReturnTypes
    <2>7. ~ excused' => Connected'
      BY <1>0, <2>1, <2>4 DEF Connected, R!Everyone, ReturnTypes, ReturnAssumption
    <2>8. Watched' BY <2>1, <2>2, <2>3 DEF Watched, Covers
    <2> QED BY <2>6, <2>7, <2>8 DEF ReturnInv
  <1>3. CASE R!HandleCallReturnCancel
    <2>1. up' \in Seq(UpMessages) BY <1>0, <1>3, Served DEF R!HandleCallReturnCancel
    <2>2. UNCHANGED <<calls, conf, handler, excused>> /\ pending' = R!NoRetry
      BY <1>3 DEF R!HandleCallReturnCancel, R!tracker
    <2>3. R!NoRetry \in [target : Names, expired : BOOLEAN] BY DEF R!NoRetry, Names
    <2>4. ReturnTypes' BY <1>0, <2>1, <2>2, <2>3 DEF ReturnTypes
    <2> QED BY <2>2, <2>4 DEF ReturnInv, R!Pending
  <1>4. CASE R!HandleCall
    <2>1. up' \in Seq(UpMessages) /\ R!Number \in Others BY <1>0, <1>4, Served DEF R!HandleCall
    <2>2. <<Requester, R!Number>> \in R!Everyone \X R!Everyone BY <2>1 DEF R!Everyone
    <2>3. /\ UNCHANGED <<conf, online, pending, handler, excused>>
          /\ calls' = calls \/ calls' = calls \cup {<<Requester, R!Number>>}
      BY <1>4 DEF R!HandleCall
    <2>4. CASE calls' = calls BY <2>1, <2>3, <2>4, ReturnFrame
    <2>5. CASE calls' = calls \cup {<<Requester, R!Number>>}
      <3> DEFINE c == <<Requester, R!Number>>
      <3>1. c \in R!Everyone \X R!Everyone /\ calls' = calls \cup {c} BY <2>2, <2>5
      <3> HIDE DEF c
      <3> QED BY <2>1, <2>3, <3>1, CallAddedStep
    <2> QED BY <2>3, <2>4, <2>5
  <1>5. CASE R!HandleHangup
    <2>1. /\ up' \in Seq(UpMessages) /\ "loop" \in R!Goroutines
          /\ handler["loop"].pc = "idle"
      BY <1>0, <1>5, Served DEF R!HandleHangup
    <2>2. UNCHANGED <<conf, online, pending>> BY <1>5 DEF R!HandleHangup
    <2>3. CASE \E c \in calls : R!OnCallEnded("loop", c)
      BY <2>1, <2>2, <2>3, CallEndStep
    <2>4. CASE UNCHANGED <<calls, handler, excused>> BY <2>1, <2>2, <2>4, ReturnFrame
    <2> QED BY <1>5, <2>3, <2>4 DEF R!HandleHangup
  <1> QED BY <1>1, <1>2, <1>3, <1>4, <1>5 DEF R!Handle

(* Lines, networks and the clock.                                          *)
LEMMA MergeStep ==
  ASSUME ReturnInv, NEW c \in calls, R!ConferenceMerges(c), ReturnAssumption
  PROVE  ReturnInv'
  <1>1. /\ calls' = calls \ {c} /\ conf' = conf \cup {c[1], c[2]}
        /\ Requester \notin {c[1], c[2]}
        /\ excused' = (excused \/ (R!Pending /\ {c[1], c[2]} \cap {Requester, pending.target} # {}))
        /\ UNCHANGED <<online, pending, handler, up>>
    BY DEF R!ConferenceMerges, R!Excuse, R!wires
  <1>2. R!Pending' <=> R!Pending BY <1>1 DEF R!Pending
  <1>3. ASSUME R!Pending', ~ excused' PROVE Connected' /\ (Watched => Watched')
    <2>1. {c[1], c[2]} \cap {Requester, pending.target} = {} /\ R!Pending /\ ~ excused
      BY <1>1, <1>2, <1>3
    <2>2. Connected' BY <1>1, <2>1 DEF ReturnInv, Connected
    <2>3. BusyLine => BusyLine' BY <1>1, <2>1 DEF BusyLine, R!Busy
    <2>4. \A g \in R!Goroutines : Covers(g) => Covers(g)'
      BY <1>1, <1>2 DEF Covers, R!Concerns
    <2> QED BY <2>2, <2>3, <2>4 DEF Watched
  <1>4. {c[1], c[2]} \subseteq Others
    BY <1>1 DEF ReturnInv, ReturnTypes, R!Everyone
  <1>5. excused' \in BOOLEAN BY <1>1 DEF ReturnInv, ReturnTypes, R!Pending
  <1>6. ReturnTypes' BY <1>1, <1>4, <1>5 DEF ReturnInv, ReturnTypes
  <1> QED BY <1>1, <1>2, <1>3, <1>6 DEF ReturnInv

LEMMA DisconnectStep ==
  ASSUME ReturnInv, NEW n \in R!Everyone, R!Disconnect(n) PROVE ReturnInv'
  <1> DEFINE g == IF n = Requester THEN "loop" ELSE "other"
             h == [R!Rest EXCEPT !.pc = "notify", !.ended = <<n, NoNumber>>]
  <1>0. /\ ReturnTypes /\ g \in R!Goroutines /\ handler[g].pc = "idle"
        /\ UNCHANGED <<calls, conf, pending>>
    BY DEF ReturnInv, R!Disconnect, R!Goroutines, R!HandlerAt, R!tracker
  <1>1. up' \in Seq(UpMessages)
    <2>1. up' = up \/ up' = <<>> BY DEF R!Disconnect, R!wires
    <2>2. up \in Seq(UpMessages) BY <1>0 DEF ReturnTypes
    <2>3. <<>> \in Seq(UpMessages) OBVIOUS
    <2> QED BY ONLY <2>1, <2>2, <2>3
  <1>2. CASE R!Busy(n)
    <2>1. /\ online' = online \ {n} /\ UNCHANGED handler
          /\ excused' = (excused \/ (R!Pending /\ {n} \cap {Requester, pending.target} # {}))
      BY <1>2 DEF R!Disconnect, R!Excuse
    <2>2. ReturnTypes' BY <1>0, <1>1, <2>1 DEF ReturnTypes
    <2>3. (R!Pending' <=> R!Pending) /\ (Watched' <=> Watched)
      BY <1>0, <2>1 DEF R!Pending, Watched, BusyLine, R!Busy, Covers, R!Concerns
    <2>4. R!Pending /\ ~ excused' => Connected'
      BY <1>0, <2>1 DEF ReturnInv, Connected
    <2> QED BY <1>0, <2>1, <2>2, <2>3, <2>4 DEF ReturnInv
  <1>3. CASE ~ R!Busy(n)
    <2>1. /\ UNCHANGED <<online, excused>> /\ handler' = [handler EXCEPT ![g] = h]
      BY <1>3 DEF R!Disconnect
    <2>2. h \in Handlers BY DEF Handlers, R!Rest, Stages, Names
    <2>3. ~ Covers(g) BY <1>0 DEF Covers
    <2>4. pending' \in {pending, R!NoRetry} /\ excused' \in {excused, TRUE}
      BY <1>0, <2>1
    <2>5. /\ handler' \in [R!Goroutines -> Handlers]
          /\ \A o \in R!Goroutines : o # g => handler'[o] = handler[o]
      <3> HIDE DEF g, h
      <3> QED BY <1>0, <2>1, <2>2, HandlerMoves
    <2> HIDE DEF g, h
    <2>6. ReturnTypes' BY <1>0, <1>1, <2>1, <2>5 DEF ReturnTypes
    <2>7. (R!Pending' <=> R!Pending) /\ (Connected' <=> Connected) /\ (BusyLine' <=> BusyLine)
      BY <1>0, <2>1 DEF R!Pending, Connected, BusyLine, R!Busy
    <2>8. \A o \in R!Goroutines : Covers(o) => Covers(o)'
      BY <1>0, <2>3, <2>5 DEF Covers, R!Concerns, R!Pending
    <2> QED BY <1>0, <2>1, <2>6, <2>7, <2>8 DEF ReturnInv, Watched
  <1> QED BY <1>2, <1>3

LEMMA SurroundingsStep ==
  ASSUME ReturnInv, R!Surroundings, ReturnAssumption PROVE ReturnInv'
  <1>0. ReturnTypes BY DEF ReturnInv
  <1>1. \A n \in R!Everyone : n \in Names BY DEF Names
  <1>2. \A n \in Others : n \in R!Everyone BY DEF R!Everyone
  <1>3. Requester \in R!Everyone BY DEF R!Everyone
  <1>4. ASSUME NEW a \in R!Everyone, NEW b \in R!Everyone, calls' = calls \cup {<<a, b>>},
               UNCHANGED <<conf, online, pending, handler, up, excused>>
        PROVE  ReturnInv'
    <2> DEFINE c == <<a, b>>
    <2>1. c \in R!Everyone \X R!Everyone /\ calls' = calls \cup {c} BY <1>4
    <2>2. up' \in Seq(UpMessages) BY <1>0, <1>4 DEF ReturnTypes
    <2> HIDE DEF c
    <2> QED BY <1>4, <2>1, <2>2, CallAddedStep
  <1>5. ASSUME NEW a \in Others, NEW b \in Others, R!OthersCall(a, b) PROVE ReturnInv'
    BY <1>2, <1>4, <1>5 DEF R!OthersCall, R!wires
  <1>6. ASSUME NEW a \in Others, R!CallRequester(a) PROVE ReturnInv'
    BY <1>2, <1>3, <1>4, <1>6 DEF R!CallRequester
  <1>7. ASSUME UNCHANGED <<calls, conf, pending, handler, excused, up>>, online \subseteq online'
        PROVE  ReturnInv'
    BY <1>0, <1>7, ReturnFrame DEF ReturnTypes
  <1>8. ASSUME NEW b \in Others, R!CalleeAnswers(b) PROVE ReturnInv'
    BY <1>7, <1>8 DEF R!CalleeAnswers, R!server, R!tracker
  <1>9. ASSUME NEW n \in Others, R!OtherReturns(n) PROVE ReturnInv'
    BY <1>7, <1>9 DEF R!OtherReturns, R!tracker, R!wires
  <1>10. ASSUME NEW c \in calls, R!OtherEnds(c) PROVE ReturnInv'
    <2>1. /\ "other" \in R!Goroutines /\ handler["other"].pc = "idle"
          /\ R!OnCallEnded("other", c) /\ UNCHANGED <<conf, online, pending, up>>
      BY <1>10 DEF R!OtherEnds, R!Goroutines, R!HandlerAt, R!wires
    <2>2. up' \in Seq(UpMessages) BY <1>0, <2>1 DEF ReturnTypes
    <2> QED BY <2>1, <2>2, CallEndStep
  <1>11. CASE R!ConferenceEnds
    <2>1. /\ UNCHANGED <<calls, online, pending, handler, excused, up>> /\ conf' = {}
      BY <1>11 DEF R!ConferenceEnds, R!wires
    <2>2. ReturnTypes' BY <1>0, <2>1 DEF ReturnTypes
    <2>3. ASSUME R!Pending, ~ excused PROVE Connected' /\ (Watched => Watched')
      <3>1. Connected BY <2>3 DEF ReturnInv
      <3>2. BusyLine => BusyLine' BY <2>1, <3>1 DEF Connected, BusyLine, R!Busy
      <3>3. \A g \in R!Goroutines : Covers(g) => Covers(g)'
        BY <2>1 DEF Covers, R!Concerns, R!Pending
      <3> QED BY <2>1, <3>1, <3>2, <3>3 DEF Watched, Connected
    <2>4. R!Pending' <=> R!Pending BY <2>1 DEF R!Pending
    <2> QED BY <2>1, <2>2, <2>3, <2>4 DEF ReturnInv
  <1>12. CASE R!Expires
    <2>1. /\ UNCHANGED <<calls, conf, online, handler, excused, up>>
          /\ R!Pending /\ pending' = [pending EXCEPT !.expired = TRUE]
      BY <1>12 DEF R!Expires, R!tracker, R!wires
    <2>2. /\ pending' \in [target : Names, expired : BOOLEAN]
          /\ pending'.expired /\ pending'.target = pending.target
      BY <1>0, <2>1 DEF ReturnTypes
    <2>3. ReturnTypes' BY <1>0, <2>1, <2>2 DEF ReturnTypes
    <2>4. Connected' <=> Connected BY <2>1, <2>2 DEF Connected
    <2> QED BY <2>1, <2>2, <2>3, <2>4 DEF ReturnInv
  <1> QED BY <1>5, <1>6, <1>8, <1>9, <1>10, <1>11, <1>12, MergeStep, DisconnectStep DEF R!Surroundings

LEMMA ReturnStart == ASSUME R!ReturnInit, ReturnAssumption PROVE ReturnInv
  <1>1. R!NoRetry \in [target : Names, expired : BOOLEAN] BY DEF R!NoRetry, Names
  <1>2. R!Rest \in Handlers BY DEF R!Rest, Handlers, Stages, Names
  <1>4. calls \subseteq R!Everyone \X R!Everyone BY DEF R!ReturnInit, R!Everyone
  <1>5. up \in Seq(UpMessages) BY DEF R!ReturnInit
  <1>6. handler \in [R!Goroutines -> Handlers] BY <1>2 DEF R!ReturnInit
  <1>7. pending = R!NoRetry /\ conf = {} /\ excused = FALSE BY DEF R!ReturnInit
  <1>8. ReturnTypes BY <1>1, <1>4, <1>5, <1>6, <1>7 DEF ReturnTypes
  <1> QED BY <1>7, <1>8 DEF ReturnInv, R!Pending

LEMMA ReturnInductive ==
  ASSUME ReturnInv, ReturnAssumption, [R!ReturnNext]_(R!returnVars) PROVE ReturnInv'
  <1>1. CASE UNCHANGED R!returnVars
    <2>1. UNCHANGED <<calls, conf, pending, handler, excused, online, up>>
      BY <1>1 DEF R!returnVars, R!server, R!tracker, R!wires
    <2>2. up' \in Seq(UpMessages) BY <2>1 DEF ReturnInv, ReturnTypes
    <2> QED BY <2>1, <2>2, ReturnFrame
  <1>2. CASE R!ReturnNext
    BY <1>2, LookStep, HandleStep, SurroundingsStep, PhoneStep DEF R!ReturnNext
  <1> QED BY <1>1, <1>2

\* A retry of *69 is never forgotten: whichever goroutines end the calls of its
\* two lines, in whatever order their looks come, once nobody is looking it only
\* waits while one of the two is busy, unless one of them was unreachable or in a
\* conference meanwhile or the end of its call could not be recorded (relay.go,
\* OnCallEndedNotify and checkPendingReturn).
THEOREM RetriesAreNotForgotten ==
  R!ReturnInit /\ [][R!ReturnNext]_(R!returnVars) => []FreeRetryFires
  <1>1. R!ReturnInit => ReturnInv BY ReturnStart, ReturnAssumption
  <1>2. ReturnInv /\ [R!ReturnNext]_(R!returnVars) => ReturnInv'
    BY ReturnInductive, ReturnAssumption
  <1>3. ReturnInv => FreeRetryFires
    BY DEF FreeRetryFires, R!FreeRetryFires, ReturnInv, Watched, BusyLine, Covers, R!HandlerAt
  <1> QED BY <1>1, <1>2, <1>3, PTL
-----------------------------------------------------------------------------
(* The handset: the firmware's commands, one after the other.              *)

(* A set of numbers that has the first and with each the next has all.     *)
LEMMA FromTheFirst ==
  ASSUME NEW N \in Nat, NEW S \in SUBSET Nat, 0 \in S,
         \A n \in 0 .. N : n # N /\ n \in S => n + 1 \in S
  PROVE  0 .. N \subseteq S
  <1> DEFINE Gaps == {n \in 0 .. N : n \notin S}
  <1>1. SUFFICES ASSUME Gaps # {} PROVE FALSE OBVIOUS
  <1>2. Gaps \in SUBSET Nat OBVIOUS
  <1>3. IsWellFoundedOn(OpToRel(<, Nat), Nat) BY NatLessThanWellFounded
  <1>4. PICK x \in Gaps : \A y \in Gaps : ~ (<<y, x>> \in OpToRel(<, Nat))
    <2> HIDE DEF Gaps
    <2> QED BY <1>1, <1>2, <1>3, WFMin
  <1>5. x \in Nat /\ x # 0 /\ x - 1 \in 0 .. N /\ x - 1 # N OBVIOUS
  <1>6. x - 1 \notin Gaps
    <2>1. SUFFICES ASSUME x - 1 \in Gaps PROVE FALSE OBVIOUS
    <2> DEFINE y == x - 1
    <2>2. y \in Gaps /\ y \in Nat /\ y < x BY <1>5, <2>1
    <2> HIDE DEF y
    <2>3. <<y, x>> \in OpToRel(<, Nat) BY <1>5, <2>2 DEF OpToRel
    <2> QED BY <1>4, <2>2, <2>3
  <1>7. x - 1 \in S /\ (x - 1) + 1 = x BY <1>5, <1>6
  <1>8. x \in S BY <1>5, <1>7
  <1> QED BY <1>8

\* The states of the firmware between one command and the next.
Course(f, p, s) ==
  f = [n \in 0 .. Len(s) |-> IF n = 0 THEN p ELSE H!process_pi_command(f[n - 1], s[n])]

LEMMA CourseExists ==
  ASSUME NEW p, NEW s \in Seq(H!Commands) PROVE \E f : Course(f, p, s)
  <1> DEFINE Part(f, m) ==
               f = [n \in 0 .. m |-> IF n = 0 THEN p ELSE H!process_pi_command(f[n - 1], s[n])]
             S == {m \in Nat : \E f : Part(f, m)}
  <1>1. Len(s) \in Nat OBVIOUS
  <1>2. 0 \in S
    <2>1. Part([n \in 0 .. 0 |-> p], 0) OBVIOUS
    <2> QED BY <2>1
  <1>3. ASSUME NEW m \in Nat, m \in S PROVE m + 1 \in S
    <2>1. PICK f : Part(f, m) BY <1>3
    <2> DEFINE tail == H!process_pi_command(f[m], s[m + 1])
               g == [n \in 0 .. (m + 1) |-> IF n = m + 1 THEN tail ELSE f[n]]
    <2>2. ASSUME NEW n \in 0 .. (m + 1)
          PROVE  g[n] = IF n = 0 THEN p ELSE H!process_pi_command(g[n - 1], s[n])
      <3>1. CASE n = m + 1
        <4>1. n - 1 = m /\ n # 0 /\ m \in 0 .. (m + 1) /\ m # m + 1 BY <3>1
        <4>2. g[n] = tail /\ g[n - 1] = f[m] BY <3>1, <4>1
        <4> HIDE DEF g
        <4> QED BY <3>1, <4>1, <4>2
      <3>2. CASE n # m + 1
        <4>1. n \in 0 .. m BY <3>2
        <4>2. g[n] = f[n] BY <3>2
        <4>3. n # 0 => n - 1 \in 0 .. (m + 1) /\ n - 1 # m + 1 BY <4>1
        <4>4. n # 0 => g[n - 1] = f[n - 1] BY <4>3
        <4>5. f[n] = IF n = 0 THEN p ELSE H!process_pi_command(f[n - 1], s[n])
          BY <2>1, <4>1
        <4> HIDE DEF g
        <4> QED BY <4>2, <4>4, <4>5
      <3> QED BY <3>1, <3>2
    <2>3. g = [n \in 0 .. (m + 1) |-> g[n]] OBVIOUS
    <2>4. Part(g, m + 1)
      <3> HIDE DEF g
      <3> QED BY <2>2, <2>3
    <2> HIDE DEF g, Part
    <2> QED BY <2>4
  <1> HIDE DEF S
  <1>4. S \in SUBSET Nat BY DEF S
  <1>5. 0 .. Len(s) \subseteq S BY <1>1, <1>2, <1>3, <1>4, FromTheFirst
  <1>6. Len(s) \in S BY <1>1, <1>5
  <1>7. \E f : Part(f, Len(s)) BY <1>6 DEF S
  <1> QED BY <1>7 DEF Course

Stepwise(f, p, s) ==
  f[0] = p /\ \A n \in 1 .. Len(s) : f[n] = H!process_pi_command(f[n - 1], s[n])

LEMMA CourseEnds ==
  ASSUME NEW p, NEW s \in Seq(H!Commands)
  PROVE  \E f : Stepwise(f, p, s) /\ H!ProcessCommands(p, s) = f[Len(s)]
  <1> DEFINE f == CHOOSE after : Course(after, p, s)
  <1>1. Course(f, p, s) BY CourseExists
  <1>2. H!ProcessCommands(p, s) = f[Len(s)] BY DEF H!ProcessCommands, Course
  <1> HIDE DEF f
  <1>3. Stepwise(f, p, s) BY <1>1 DEF Course, Stepwise
  <1> QED BY <1>2, <1>3

\* The firmware within an iteration.
Firmware ==
  [state : H!PicoStates, digits : Nat, sent : BOOLEAN, up : BOOLEAN, window : BOOLEAN,
   flash : BOOLEAN, event : H!HookEvents, lost : BOOLEAN, out : Seq(H!Events)]

LEMMA CommandActs ==
  ASSUME NEW p \in Firmware, NEW cmd \in H!Commands, NEW q, q = H!process_pi_command(p, cmd)
  PROVE  /\ q \in Firmware /\ q.up = p.up /\ q.out = p.out
         /\ q.window => p.window
         /\ p.lost => q.lost
         /\ ~ q.lost => q.event = IF p.window /\ ~ q.window THEN "HOOK:ON" ELSE p.event
         /\ cmd = "RING:START" => q.state = "RINGING"
         /\ cmd = "RING:STOP" => q.state # "RINGING"
         /\ cmd \in {"HOOK:FLASH:ON", "HOOK:FLASH:OFF"} => q.state = p.state
  <1>1. CASE cmd = "RING:START"
    <2> DEFINE r == [p EXCEPT !.event = "NONE", !.lost = @ \/ p.event # "NONE"]
    <2>1. /\ r \in Firmware /\ r.up = p.up /\ r.out = p.out /\ r.window = p.window
          /\ p.lost => r.lost
          /\ ~ r.lost => r.event = p.event
      BY DEF Firmware, H!HookEvents
    <2>2. q = H!set_state(r, "RINGING") BY <1>1 DEF H!process_pi_command
    <2> HIDE DEF r
    <2>3. q = IF r.state = "RINGING" THEN r ELSE [r EXCEPT !.state = "RINGING"]
      BY <2>2 DEF H!set_state
    <2>4. q \in Firmware /\ q.up = r.up /\ q.out = r.out /\ q.window = r.window
          /\ q.lost = r.lost /\ q.event = r.event /\ q.state = "RINGING"
      BY <2>1, <2>3 DEF Firmware, H!PicoStates
    <2> QED BY <1>1, <2>1, <2>4
  <1>2. CASE cmd = "RING:STOP"
    BY <1>2 DEF H!process_pi_command, H!set_state, Firmware, H!PicoStates, H!HookEvents
  <1>3. CASE cmd = "CALL:CONNECTED"
    BY <1>3 DEF H!process_pi_command, H!set_state, Firmware, H!PicoStates, H!HookEvents
  <1>4. CASE cmd \in {"HOOK:FLASH:ON", "HOOK:FLASH:OFF"}
    BY <1>4 DEF H!process_pi_command, H!hook_set_flash_enabled, Firmware, H!HookEvents
  <1> QED BY <1>1, <1>2, <1>3, <1>4 DEF H!Commands

(* Commands do not move the hook; a window they close reports it, unless a *)
(* report is lost.                                                         *)
LEMMA CommandsAct ==
  ASSUME NEW p \in Firmware, NEW s \in Seq(H!Commands), NEW f, Stepwise(f, p, s)
  PROVE  \A n \in 0 .. Len(s) :
           /\ f[n] \in Firmware /\ f[n].up = p.up /\ f[n].out = p.out
           /\ f[n].window => p.window
           /\ p.lost => f[n].lost
           /\ ~ f[n].lost => f[n].event = IF p.window /\ ~ f[n].window THEN "HOOK:ON" ELSE p.event
  <1> DEFINE P(q) == /\ q \in Firmware /\ q.up = p.up /\ q.out = p.out
                     /\ q.window => p.window
                     /\ p.lost => q.lost
                     /\ ~ q.lost => q.event = IF p.window /\ ~ q.window THEN "HOOK:ON" ELSE p.event
             S == {n \in Nat : P(f[n])}
  <1>1. 0 \in S BY DEF Firmware, Stepwise
  <1>2. ASSUME NEW n \in 0 .. Len(s), n # Len(s), n \in S PROVE n + 1 \in S
    <2> DEFINE q == f[n]
               r == f[n + 1]
    <2>1. n + 1 \in 1 .. Len(s) /\ (n + 1) - 1 = n BY <1>2
    <2>2. r = H!process_pi_command(q, s[n + 1]) /\ s[n + 1] \in H!Commands BY <2>1 DEF Stepwise
    <2>3. P(q) BY <1>2
    <2> HIDE DEF q, r
    <2>4. /\ r \in Firmware /\ r.up = q.up /\ r.out = q.out
          /\ r.window => q.window
          /\ q.lost => r.lost
          /\ ~ r.lost => r.event = IF q.window /\ ~ r.window THEN "HOOK:ON" ELSE q.event
      BY <2>2, <2>3, CommandActs
    <2>5. P(r) BY <2>3, <2>4
    <2> HIDE DEF P
    <2> QED BY <2>1, <2>5 DEF r
  <1> HIDE DEF P
  <1>3. Len(s) \in Nat OBVIOUS
  <1>4. S \in SUBSET Nat OBVIOUS
  <1>5. 0 .. Len(s) \subseteq S
    <2> HIDE DEF S
    <2> QED BY <1>1, <1>2, <1>3, <1>4, FromTheFirst
  <1>6. \A n \in 0 .. Len(s) : P(f[n]) BY <1>5
  <1> QED BY <1>6 DEF P

(* The last command about the bell decides whether it rings.               *)
LastAt(s, k) ==
  /\ k \in 0 .. Len(s) /\ (k # 0 => s[k] \in {"RING:START", "RING:STOP"})
  /\ \A n \in 1 .. Len(s) : n > k => s[n] \in {"HOOK:FLASH:ON", "HOOK:FLASH:OFF"}

LEMMA LastBellDecides ==
  ASSUME NEW p \in Firmware, NEW s \in Seq(H!Commands), NEW f, Stepwise(f, p, s),
         NEW k, LastAt(s, k)
  PROVE  f[Len(s)].state = "RINGING" <=>
           IF k = 0 THEN p.state = "RINGING" ELSE s[k] = "RING:START"
  <1> DEFINE Rings == IF k = 0 THEN p.state = "RINGING" ELSE s[k] = "RING:START"
             S == {n \in Nat : k <= n => (f[n].state = "RINGING" <=> Rings)}
  <1>0. /\ k \in 0 .. Len(s) /\ (k # 0 => s[k] \in {"RING:START", "RING:STOP"})
        /\ \A n \in 1 .. Len(s) : n > k => s[n] \in {"HOOK:FLASH:ON", "HOOK:FLASH:OFF"}
    BY DEF LastAt
  <1>1. 0 \in S BY <1>0 DEF Stepwise
  <1>2. ASSUME NEW n \in 0 .. Len(s), n # Len(s), n \in S PROVE n + 1 \in S
    <2> DEFINE q == f[n]
               r == f[n + 1]
    <2>1. n + 1 \in 1 .. Len(s) /\ (n + 1) - 1 = n BY <1>2
    <2>2. r = H!process_pi_command(q, s[n + 1]) /\ s[n + 1] \in H!Commands BY <2>1 DEF Stepwise
    <2>3. q \in Firmware BY CommandsAct
    <2>0. k \in Nat BY <1>0
    <2>4. n + 1 = k => (r.state = "RINGING" <=> Rings)
      <3>1. n + 1 = k => s[n + 1] \in {"RING:START", "RING:STOP"} /\ (Rings <=> s[n + 1] = "RING:START")
        BY <1>0, <2>1
      <3> HIDE DEF q, r, Rings
      <3>2. s[n + 1] = "RING:START" => r.state = "RINGING" BY <2>2, <2>3, CommandActs
      <3>3. s[n + 1] = "RING:STOP" => r.state # "RINGING" BY <2>2, <2>3, CommandActs
      <3> QED BY <3>1, <3>2, <3>3
    <2>5. k <= n => r.state = q.state
      <3>1. k <= n => s[n + 1] \in {"HOOK:FLASH:ON", "HOOK:FLASH:OFF"} BY <1>0, <2>1
      <3> HIDE DEF q, r
      <3> QED BY <2>2, <2>3, <3>1, CommandActs
    <2>6. k <= n => (q.state = "RINGING" <=> Rings) BY <1>2
    <2>7. k <= n + 1 => (r.state = "RINGING" <=> Rings) BY <2>0, <2>4, <2>5, <2>6
    <2> HIDE DEF Rings
    <2> QED BY <2>1, <2>7
  <1>3. Len(s) \in Nat OBVIOUS
  <1>4. S \in SUBSET Nat OBVIOUS
  <1>5. 0 .. Len(s) \subseteq S
    <2> HIDE DEF S
    <2> QED BY <1>1, <1>2, <1>3, <1>4, FromTheFirst
  <1>6. Len(s) \in S BY <1>3, <1>5
  <1> QED BY <1>0, <1>6

-----------------------------------------------------------------------------
(* An iteration of the firmware.                                           *)

\* As the daemon is to see it, the handset is off the hook while a window is open.
OffHook(p) == p.up \/ p.window

\* Between two iterations.
AtRest(p) == p \in Firmware /\ p.event = "NONE" /\ p.out = <<>> /\ ~ (p.up /\ p.window)

LEMMA Polled ==
  ASSUME NEW p, AtRest(p), NEW change \in {"lift", "cradle", "expire", "none"},
         change = "lift" => ~ p.up /\ ~ p.window,
         change = "cradle" => p.up, change = "expire" => p.window,
         NEW q, q = H!hook_poll(p, change)
  PROVE  /\ q \in Firmware /\ q.out = <<>> /\ ~ (q.up /\ q.window)
         /\ q.lost = p.lost /\ q.state = p.state
         /\ q.event = IF OffHook(p) <=> OffHook(q) THEN "NONE"
                      ELSE IF OffHook(q) THEN "HOOK:OFF" ELSE "HOOK:ON"
         /\ ~ OffHook(p) /\ ~ OffHook(q) => q = p
         /\ q.window => OffHook(p)
  <1>1. CASE change = "lift" BY <1>1 DEF H!hook_poll, AtRest, OffHook, Firmware, H!HookEvents
  <1>2. CASE change = "cradle" BY <1>2 DEF H!hook_poll, AtRest, OffHook, Firmware, H!HookEvents
  <1>3. CASE change = "expire" BY <1>3 DEF H!hook_poll, AtRest, OffHook, Firmware, H!HookEvents
  <1>4. CASE change = "none" BY <1>4 DEF H!hook_poll, AtRest, OffHook, Firmware, H!HookEvents
  <1> QED BY <1>1, <1>2, <1>3, <1>4

LEMMA Reported ==
  ASSUME NEW p \in Firmware, p.out = <<>>, NEW q, q = H!ReportHook(p)
  PROVE  /\ q \in Firmware /\ q.event = "NONE"
         /\ q.up = p.up /\ q.window = p.window /\ q.lost = p.lost
         /\ q.out = IF p.event = "NONE" THEN <<>> ELSE <<p.event>>
         /\ p.event = "NONE" => q.state = p.state
  <1> DEFINE quiet == [p EXCEPT !.event = "NONE"]
             sent(ev) == H!uart_proto_send(quiet, ev)
  <1>1. quiet \in Firmware /\ quiet.out = <<>> /\ quiet.event = "NONE" /\ quiet.up = p.up
        /\ quiet.window = p.window /\ quiet.lost = p.lost /\ quiet.state = p.state
    BY DEF Firmware, H!HookEvents
  <1>2. q = CASE p.event = "HOOK:OFF" -> sent("HOOK:OFF")
              [] p.event = "HOOK:ON" -> H!set_state(sent("HOOK:ON"), "IDLE")
              [] p.event = "NONE" -> quiet
    BY DEF H!ReportHook
  <1> HIDE DEF quiet
  <1>3. ASSUME NEW ev \in H!Events
        PROVE  /\ sent(ev) \in Firmware /\ sent(ev).out = <<ev>> /\ sent(ev).event = "NONE"
               /\ sent(ev).up = p.up /\ sent(ev).window = p.window /\ sent(ev).lost = p.lost
    <2>1. Append(quiet.out, ev) = <<ev>> BY <1>1
    <2>2. Append(quiet.out, ev) \in Seq(H!Events) BY <2>1
    <2> QED BY <1>1, <2>1, <2>2 DEF H!uart_proto_send, Firmware
  <1>4. "HOOK:OFF" \in H!Events /\ "HOOK:ON" \in H!Events BY DEF H!Events
  <1> HIDE DEF sent
  <1>5. ASSUME NEW r \in Firmware, NEW t, t = H!set_state(r, "IDLE")
        PROVE  /\ t \in Firmware /\ t.out = r.out /\ t.event = r.event
               /\ t.up = r.up /\ t.window = r.window /\ t.lost = r.lost
    BY <1>5 DEF H!set_state, Firmware, H!PicoStates
  <1>6. CASE p.event = "HOOK:OFF" BY <1>2, <1>3, <1>4, <1>6
  <1>7. CASE p.event = "HOOK:ON" BY <1>2, <1>3, <1>4, <1>5, <1>7
  <1>8. CASE p.event = "NONE" BY <1>1, <1>2, <1>8
  <1> QED BY <1>6, <1>7, <1>8 DEF Firmware, H!HookEvents

LEMMA Followed ==
  ASSUME NEW p \in Firmware, NEW q, q = H!FollowHook(p)
  PROVE  /\ q \in Firmware /\ q.event = p.event /\ q.out = p.out
         /\ q.up = p.up /\ q.window = p.window /\ q.lost = p.lost
         /\ ~ OffHook(p) => /\ q.state \in {"IDLE", "RINGING"}
                            /\ q.state = "RINGING" <=> p.state = "RINGING"
  BY DEF H!FollowHook, H!set_state, Firmware, H!PicoStates, OffHook

\* What an iteration tells the daemon of the hook.
Tells(p, q, ev) == IF OffHook(p) <=> OffHook(q) THEN ev = <<>>
                   ELSE ev = <<IF OffHook(q) THEN "HOOK:OFF" ELSE "HOOK:ON">>

LEMMA Iterated ==
  ASSUME AtRest(pico), toPico \in Seq(H!Commands),
         NEW change \in {"lift", "cradle", "expire", "none"}, NEW n \in 0 .. Len(toPico),
         H!LoopHook(change, n)
  PROVE  /\ AtRest(pico')
         /\ ~ pico'.lost => ~ pico.lost
         /\ ~ OffHook(pico') => pico'.state \in {"IDLE", "RINGING"}
         /\ \E ev \in Seq(H!Events) :
              toPi' = toPi \o ev /\ (~ pico'.lost => Tells(pico, pico', ev))
         /\ ~ pico'.lost /\ ~ OffHook(pico) /\ ~ OffHook(pico') =>
              (pico'.state = "RINGING" <=>
                 H!ProcessCommands(pico, SubSeq(toPico, 1, n)).state = "RINGING")
  <1> DEFINE cmds == SubSeq(toPico, 1, n)
             a == H!hook_poll(pico, change)
             b == H!ProcessCommands(a, cmds)
             c == H!ReportHook(b)
             e == H!FollowHook(c)
  <1>1. /\ pico' = [e EXCEPT !.out = <<>>] /\ toPi' = toPi \o e.out
        /\ change = "lift" => ~ pico.up /\ ~ pico.window
        /\ change = "cradle" => pico.up
        /\ change = "expire" => pico.window
    BY DEF H!LoopHook, H!Loop
  <1>2. cmds \in Seq(H!Commands) OBVIOUS
  <1>3. /\ a \in Firmware /\ a.out = <<>> /\ ~ (a.up /\ a.window)
        /\ a.lost = pico.lost /\ a.state = pico.state
        /\ a.event = IF OffHook(pico) <=> OffHook(a) THEN "NONE"
                     ELSE IF OffHook(a) THEN "HOOK:OFF" ELSE "HOOK:ON"
        /\ ~ OffHook(pico) /\ ~ OffHook(a) => a = pico
        /\ a.window => OffHook(pico)
    <2> HIDE DEF b, c, e
    <2> QED BY <1>1, Polled
  <1> HIDE DEF a
  <1>4. /\ b \in Firmware /\ b.up = a.up /\ b.out = a.out /\ (b.window => a.window)
        /\ a.lost => b.lost
        /\ ~ b.lost => b.event = IF a.window /\ ~ b.window THEN "HOOK:ON" ELSE a.event
    <2> HIDE DEF cmds
    <2>1. PICK f : Stepwise(f, a, cmds) /\ b = f[Len(cmds)]
      BY <1>2, CourseEnds
    <2>2. Len(cmds) \in 0 .. Len(cmds) BY <1>2
    <2> HIDE DEF b
    <2>3. \A i \in 0 .. Len(cmds) :
            /\ f[i] \in Firmware /\ f[i].up = a.up /\ f[i].out = a.out
            /\ f[i].window => a.window
            /\ a.lost => f[i].lost
            /\ ~ f[i].lost => f[i].event = IF a.window /\ ~ f[i].window THEN "HOOK:ON" ELSE a.event
      BY <1>2, <1>3, <2>1, CommandsAct
    <2> QED BY <2>1, <2>2, <2>3
  <1> HIDE DEF b
  <1>5. /\ c \in Firmware /\ c.event = "NONE"
        /\ c.up = b.up /\ c.window = b.window /\ c.lost = b.lost
        /\ c.out = IF b.event = "NONE" THEN <<>> ELSE <<b.event>>
        /\ b.event = "NONE" => c.state = b.state
    BY <1>3, <1>4, Reported
  <1> HIDE DEF c
  <1>6. /\ e \in Firmware /\ e.event = c.event /\ e.out = c.out
        /\ e.up = c.up /\ e.window = c.window /\ e.lost = c.lost
        /\ ~ OffHook(c) => /\ e.state \in {"IDLE", "RINGING"}
                           /\ e.state = "RINGING" <=> c.state = "RINGING"
    BY <1>5, Followed
  <1> HIDE DEF e
  <1>7. /\ pico' \in Firmware /\ pico'.out = <<>> /\ pico'.event = e.event /\ pico'.up = e.up
        /\ pico'.window = e.window /\ pico'.lost = e.lost /\ pico'.state = e.state
    <2>1. <<>> \in Seq(H!Events) OBVIOUS
    <2> QED BY <1>1, <1>6, <2>1 DEF Firmware
  <1>8. AtRest(pico') BY <1>3, <1>4, <1>5, <1>6, <1>7 DEF AtRest
  <1>9. ~ pico'.lost => b.event = IF OffHook(pico) <=> OffHook(pico') THEN "NONE"
                                  ELSE IF OffHook(pico') THEN "HOOK:OFF" ELSE "HOOK:ON"
    <2>1. pico'.lost = b.lost /\ pico'.up = a.up /\ pico'.window = b.window
      BY <1>4, <1>5, <1>6, <1>7
    <2>2. CASE a.window /\ ~ b.window
      <3>1. OffHook(pico) /\ ~ OffHook(pico') BY <1>3, <2>1, <2>2 DEF OffHook
      <3> QED BY <1>4, <2>1, <2>2, <3>1
    <2>3. CASE ~ (a.window /\ ~ b.window)
      <3>1. OffHook(pico') <=> OffHook(a) BY <1>4, <2>1, <2>3 DEF OffHook
      <3> QED BY <1>3, <1>4, <2>1, <2>3, <3>1
    <2> QED BY <2>2, <2>3
  <1>10. e.out \in Seq(H!Events) BY <1>6 DEF Firmware
  <1>11. ~ pico'.lost => Tells(pico, pico', e.out) BY <1>5, <1>6, <1>9 DEF Tells
  <1>12. ASSUME ~ pico'.lost, ~ OffHook(pico), ~ OffHook(pico')
         PROVE  (pico'.state = "RINGING" <=> b.state = "RINGING") /\ a = pico
    <2>1. b.event = "NONE"
      <3>1. OffHook(pico) <=> OffHook(pico') BY <1>12
      <3> QED BY <1>9, <1>12, <3>1
    <2>2. ~ OffHook(a) BY <1>3, <1>4, <1>5, <1>6, <1>7, <1>12, <2>1 DEF OffHook, Firmware
    <2> QED BY <1>3, <1>5, <1>6, <1>7, <1>12, <2>1, <2>2 DEF OffHook
  <1> QED
    <2>1. ~ OffHook(pico') => pico'.state \in {"IDLE", "RINGING"}
      BY <1>5, <1>6, <1>7 DEF OffHook
    <2>2. ~ pico'.lost => ~ pico.lost BY <1>3, <1>4, <1>5, <1>6, <1>7
    <2>3. \E ev \in Seq(H!Events) :
            toPi' = toPi \o ev /\ (~ pico'.lost => Tells(pico, pico', ev))
      BY <1>1, <1>10, <1>11
    <2>4. ~ pico'.lost /\ ~ OffHook(pico) /\ ~ OffHook(pico') =>
            (pico'.state = "RINGING" <=> H!ProcessCommands(pico, cmds).state = "RINGING")
      BY <1>12 DEF b
    <2> HIDE DEF b
    <2> QED BY <1>8, <2>1, <2>2, <2>3, <2>4

-----------------------------------------------------------------------------
(* The inductive invariant of the handset.                                 *)

Jobs    == [kind : {"dial", "deadline", "overdue"}, call : Nat]
Letters == [type : {"ring", "sdp", "answer", "hangup", "busy", "error", "call"},
            call : Nat, timeout : BOOLEAN]
Signals == {m \in Letters : m.type # "call"}

\* The daemon within a step.
Works ==
  [state : H!States, pendingCaller : Nat, pendingOffer : Nat, preAnswer : Nat, peer : Nat,
   timer : Nat, attempt : Nat, tasks : SUBSET Jobs, cmds : Seq(H!Commands), msgs : Seq(Letters)]

PhoneTypes ==
  /\ AtRest(pico) /\ toPico \in Seq(H!Commands) /\ toPi \in Seq(H!Events)
  /\ digitsd \in Works /\ digitsd.cmds = <<>> /\ digitsd.msgs = <<>>
  /\ leg \in [call : Nat, offered : BOOLEAN, answered : BOOLEAN]
  /\ toPhone \in Seq(Signals) /\ toServer \in Seq(Letters)
  /\ hooks \in Nat /\ ins \in Nat

(***************************************************************************)
(* The hook: the events on the wire lead from what the daemon thinks to    *)
(* what is, each of them a change.                                         *)
(***************************************************************************)
HookOf(p)  == IF OffHook(p) THEN "off" ELSE "on"
HeardBy(c) == IF c.state \in {"IDLE", "RINGING"} THEN "on" ELSE "off"

Leads(x, ev, y) == CASE ev = "HOOK:OFF" -> x = "on" /\ y = "off"
                     [] ev = "HOOK:ON"  -> x = "off" /\ y = "on"
                     [] OTHER           -> x = y

Replay(s, x, y) ==
  \E h \in [0 .. Len(s) -> {"on", "off"}] :
    h[0] = x /\ h[Len(s)] = y /\ \A i \in 1 .. Len(s) : Leads(h[i - 1], s[i], h[i])

HookInv ==
  /\ ~ OffHook(pico) => pico.state \in {"IDLE", "RINGING"}
  /\ ~ pico.lost => Replay(toPi, HeardBy(digitsd), HookOf(pico))

(***************************************************************************)
(* The bell: on a cradled phone of which the daemon knows, the last        *)
(* command about the bell decides.                                         *)
(***************************************************************************)
LastBell(s, a, b) ==
  \E k \in 0 .. Len(s) :
    /\ k = 0 => (a = "RINGING" <=> b = "RINGING")
    /\ k # 0 => s[k] = IF b = "RINGING" THEN "RING:START" ELSE "RING:STOP"
    /\ \A i \in 1 .. Len(s) : i > k => s[i] \in {"HOOK:FLASH:ON", "HOOK:FLASH:OFF"}

NoHook(s) == \A i \in 1 .. Len(s) : s[i] \notin {"HOOK:OFF", "HOOK:ON"}
Settled == ~ pico.lost /\ ~ OffHook(pico) /\ NoHook(toPi)
BellInv == Settled => LastBell(toPico, pico.state, digitsd.state)

(***************************************************************************)
(* The call: whatever gives the line one at the server is followed by a    *)
(* hangup, unless the controller is in it.                                 *)
(***************************************************************************)
Talks(c) == c.state \in {"CALLING", "CONNECTED"}
HangsUp(s, i) == \E j \in 1 .. Len(s) : i < j /\ s[j].type = "hangup"
CallInv ==
  /\ digitsd.peer # 0 => Talks(digitsd)
  /\ leg.answered \/ leg.call > MaxIn => Talks(digitsd) \/ HangsUp(toServer, 0)
  /\ \A i \in 1 .. Len(toServer) :
       toServer[i].type \in {"call", "answer"} => Talks(digitsd) \/ HangsUp(toServer, i)

PhoneInv == PhoneTypes /\ HookInv /\ BellInv /\ CallInv

-----------------------------------------------------------------------------
(* What comes to and goes from the wires.                                  *)

LEMMA ReplayMore ==
  ASSUME NEW s \in Seq(H!Events), NEW x, NEW y, NEW z \in {"on", "off"}, NEW ev \in H!Events,
         Replay(s, x, y), Leads(y, ev, z)
  PROVE  Replay(Append(s, ev), x, z)
  <1> DEFINE N == Len(s)
             t == Append(s, ev)
  <1>1. PICK h \in [0 .. N -> {"on", "off"}] :
          h[0] = x /\ h[N] = y /\ \A i \in 1 .. N : Leads(h[i - 1], s[i], h[i])
    BY DEF Replay
  <1> DEFINE g == [i \in 0 .. (N + 1) |-> IF i = N + 1 THEN z ELSE h[i]]
  <1>2. N \in Nat /\ Len(t) = N + 1 /\ t[N + 1] = ev /\ \A i \in 1 .. N : t[i] = s[i] OBVIOUS
  <1>3. \A i \in 0 .. N : i \in 0 .. (N + 1) /\ i # N + 1 BY <1>2
  <1>4. g \in [0 .. (N + 1) -> {"on", "off"}] BY <1>1, <1>2
  <1>5. \A i \in 0 .. N : g[i] = h[i] BY <1>3
  <1>6. g[N + 1] = z BY <1>2
  <1> HIDE DEF g, t, N
  <1>7. ASSUME NEW i \in 1 .. (N + 1) PROVE Leads(g[i - 1], t[i], g[i])
    <2>1. CASE i = N + 1
      <3>1. i - 1 = N /\ N \in 0 .. N BY <1>2, <2>1
      <3>2. g[i - 1] = y /\ g[i] = z /\ t[i] = ev BY <1>1, <1>2, <1>5, <1>6, <2>1, <3>1
      <3> QED BY <3>2
    <2>2. CASE i # N + 1
      <3>1. i \in 1 .. N /\ i \in 0 .. N /\ i - 1 \in 0 .. N BY <1>2, <2>2
      <3>2. g[i - 1] = h[i - 1] /\ g[i] = h[i] /\ t[i] = s[i] BY <1>2, <1>5, <3>1
      <3>3. Leads(h[i - 1], s[i], h[i]) BY <1>1, <3>1
      <3> QED BY <3>2, <3>3
    <2> QED BY <2>1, <2>2
  <1>8. g[0] = x BY <1>1, <1>2, <1>5
  <1>9. Replay(t, x, z) BY <1>2, <1>4, <1>6, <1>7, <1>8 DEF Replay
  <1> QED BY <1>9 DEF t

LEMMA ReplayLess ==
  ASSUME NEW s \in Seq(H!Events), s # <<>>, NEW x, NEW y, Replay(s, x, y)
  PROVE  \E z \in {"on", "off"} : Leads(x, Head(s), z) /\ Replay(Tail(s), z, y)
  <1> DEFINE N == Len(s)
             t == Tail(s)
  <1>1. PICK h \in [0 .. N -> {"on", "off"}] :
          h[0] = x /\ h[N] = y /\ \A i \in 1 .. N : Leads(h[i - 1], s[i], h[i])
    BY DEF Replay
  <1> DEFINE g == [i \in 0 .. (N - 1) |-> h[i + 1]]
  <1>2. /\ N \in Nat /\ N >= 1 /\ Len(t) = N - 1 /\ Head(s) = s[1]
        /\ \A i \in 1 .. (N - 1) : t[i] = s[i + 1]
    OBVIOUS
  <1>3. \A i \in 0 .. (N - 1) : i + 1 \in 0 .. N /\ (i + 1) - 1 = i /\ i + 1 \in 1 .. N BY <1>2
  <1>4. g \in [0 .. (N - 1) -> {"on", "off"}] BY <1>1, <1>3
  <1>5. \A i \in 0 .. (N - 1) : g[i] = h[i + 1] OBVIOUS
  <1> HIDE DEF g, t, N
  <1>6. ASSUME NEW i \in 1 .. (N - 1) PROVE Leads(g[i - 1], t[i], g[i])
    <2>1. i \in 0 .. (N - 1) /\ i - 1 \in 0 .. (N - 1) /\ (i - 1) + 1 = i BY <1>2
    <2>2. g[i - 1] = h[i] /\ g[i] = h[i + 1] /\ t[i] = s[i + 1] BY <1>2, <1>5, <2>1
    <2>3. Leads(h[(i + 1) - 1], s[i + 1], h[i + 1]) BY <1>1, <1>3, <2>1
    <2>4. (i + 1) - 1 = i BY <2>1
    <2> QED BY <2>2, <2>3, <2>4
  <1>7. g[0] = h[1] /\ g[N - 1] = y
    <2>1. 0 \in 0 .. (N - 1) /\ N - 1 \in 0 .. (N - 1) /\ (N - 1) + 1 = N /\ 0 + 1 = 1 BY <1>2
    <2> QED BY <1>1, <1>5, <2>1
  <1>8. Leads(x, Head(s), h[1]) /\ h[1] \in {"on", "off"}
    <2>1. 1 \in 1 .. N /\ 1 - 1 = 0 /\ 1 \in 0 .. N BY <1>2
    <2> QED BY <1>1, <1>2, <2>1
  <1>9. Replay(t, h[1], y) BY <1>2, <1>4, <1>6, <1>7 DEF Replay
  <1> QED BY <1>8, <1>9 DEF t

LEMMA ReplayStill ==
  ASSUME NEW s \in Seq(H!Events), NEW x, NEW y, Replay(s, x, y), NoHook(s)
  PROVE  x = y
  <1>1. PICK h \in [0 .. Len(s) -> {"on", "off"}] :
          h[0] = x /\ h[Len(s)] = y /\ \A i \in 1 .. Len(s) : Leads(h[i - 1], s[i], h[i])
    BY DEF Replay
  <1> DEFINE S == {n \in Nat : h[n] = x}
  <1>2. 0 \in S /\ S \in SUBSET Nat /\ Len(s) \in Nat BY <1>1
  <1>3. ASSUME NEW n \in 0 .. Len(s), n # Len(s), n \in S PROVE n + 1 \in S
    <2>1. n + 1 \in 1 .. Len(s) /\ (n + 1) - 1 = n BY <1>3
    <2>2. Leads(h[n], s[n + 1], h[n + 1]) BY <1>1, <2>1
    <2>3. h[n + 1] = h[n] BY <2>1, <2>2 DEF Leads, NoHook
    <2> QED BY <1>3, <2>3
  <1>4. 0 .. Len(s) \subseteq S
    <2> HIDE DEF S
    <2> QED BY <1>2, <1>3, FromTheFirst
  <1>5. Len(s) \in S BY <1>2, <1>4
  <1> QED BY <1>1, <1>5

LEMMA BellMore ==
  ASSUME NEW s \in Seq(H!Commands), NEW a, NEW b, NEW cmds,
         \/ cmds = <<"RING:START">> /\ b = "RINGING"
         \/ cmds \in {<<"RING:STOP">>, <<"RING:STOP", "HOOK:FLASH:OFF">>} /\ b # "RINGING"
  PROVE  LastBell(s \o cmds, a, b)
  <1> DEFINE k == Len(s) + 1
             t == s \o cmds
  <1>1. Len(s) \in Nat OBVIOUS
  <1>2. CASE cmds = <<"RING:START">> /\ b = "RINGING"
    <2>1. Len(t) = k /\ t[k] = "RING:START" BY <1>2
    <2> HIDE DEF t
    <2>2. LastBell(t, a, b) BY <1>1, <1>2, <2>1 DEF LastBell
    <2> QED BY <2>2 DEF t
  <1>3. CASE cmds = <<"RING:STOP">> /\ b # "RINGING"
    <2>1. Len(t) = k /\ t[k] = "RING:STOP" BY <1>3
    <2> HIDE DEF t
    <2>2. LastBell(t, a, b) BY <1>1, <1>3, <2>1 DEF LastBell
    <2> QED BY <2>2 DEF t
  <1>4. CASE cmds = <<"RING:STOP", "HOOK:FLASH:OFF">> /\ b # "RINGING"
    <2>1. Len(t) = k + 1 /\ t[k] = "RING:STOP" /\ t[k + 1] = "HOOK:FLASH:OFF" BY <1>4
    <2> HIDE DEF t
    <2>2. \A i \in 1 .. Len(t) : i > k => i = k + 1 BY <1>1, <2>1
    <2>3. LastBell(t, a, b) BY <1>1, <1>4, <2>1, <2>2 DEF LastBell
    <2> QED BY <2>3 DEF t
  <1> QED BY <1>2, <1>3, <1>4

LEMMA BellServed ==
  ASSUME NEW p \in Firmware, NEW s \in Seq(H!Commands), NEW b, LastBell(s, p.state, b),
         NEW n \in 0 .. Len(s), NEW q,
         q = "RINGING" <=> H!ProcessCommands(p, SubSeq(s, 1, n)).state = "RINGING"
  PROVE  LastBell(SubSeq(s, n + 1, Len(s)), q, b)
  <1> DEFINE t == SubSeq(s, n + 1, Len(s))
             u == SubSeq(s, 1, n)
  <1>1. PICK k \in 0 .. Len(s) :
          /\ k = 0 => (p.state = "RINGING" <=> b = "RINGING")
          /\ k # 0 => s[k] = IF b = "RINGING" THEN "RING:START" ELSE "RING:STOP"
          /\ \A i \in 1 .. Len(s) : i > k => s[i] \in {"HOOK:FLASH:ON", "HOOK:FLASH:OFF"}
    BY DEF LastBell
  <1>2. /\ Len(s) \in Nat /\ Len(t) = Len(s) - n
        /\ \A i \in 1 .. Len(t) : t[i] = s[n + i]
    OBVIOUS
  <1>3. u \in Seq(H!Commands) /\ Len(u) = n /\ \A i \in 1 .. n : u[i] = s[i] OBVIOUS
  <1> HIDE DEF t, u
  <1>4. CASE k > n
    <2>1. k - n \in 1 .. Len(t) /\ n + (k - n) = k /\ k # 0 BY <1>1, <1>2, <1>4
    <2>2. t[k - n] = s[k] BY <1>2, <2>1
    <2>3. ASSUME NEW i \in 1 .. Len(t), i > k - n
          PROVE  t[i] \in {"HOOK:FLASH:ON", "HOOK:FLASH:OFF"}
      <3>1. n + i \in 1 .. Len(s) /\ n + i > k BY <1>2, <2>3
      <3> QED BY <1>1, <1>2, <3>1
    <2>4. LastBell(t, q, b) BY <1>1, <2>1, <2>2, <2>3 DEF LastBell
    <2> QED BY <2>4 DEF t
  <1>5. CASE k <= n
    <2>1. PICK f : Stepwise(f, p, u) /\ H!ProcessCommands(p, u) = f[Len(u)]
      BY <1>3, CourseEnds
    <2>2. /\ k \in 0 .. Len(u)
          /\ k # 0 => u[k] = s[k]
          /\ \A i \in 1 .. Len(u) : i > k => u[i] \in {"HOOK:FLASH:ON", "HOOK:FLASH:OFF"}
      BY <1>1, <1>3, <1>5
    <2>3. LastAt(u, k) BY <1>1, <2>2 DEF LastAt
    <2>4. f[Len(u)].state = "RINGING" <=>
            IF k = 0 THEN p.state = "RINGING" ELSE u[k] = "RING:START"
      BY <1>3, <2>1, <2>3, LastBellDecides
    <2>5. q = "RINGING" <=> b = "RINGING"
      <3>1. q = "RINGING" <=> f[Len(u)].state = "RINGING" BY <2>1 DEF u
      <3> QED BY <1>1, <2>2, <2>4, <3>1
    <2>6. \A i \in 1 .. Len(t) : t[i] \in {"HOOK:FLASH:ON", "HOOK:FLASH:OFF"}
      <3> TAKE i \in 1 .. Len(t)
      <3>1. n + i \in 1 .. Len(s) /\ n + i > k BY <1>2, <1>5
      <3> QED BY <1>1, <1>2, <3>1
    <2>7. LastBell(t, q, b) BY <1>2, <2>5, <2>6 DEF LastBell
    <2> QED BY <2>7 DEF t
  <1> QED BY <1>1, <1>4, <1>5

-----------------------------------------------------------------------------
(* The daemon's operators.                                                 *)

(* What becomes of a record of the daemon, field by field.                 *)
Alike(c, r) == r.state = c.state /\ r.peer = c.peer /\ r.cmds = c.cmds /\ r.msgs = c.msgs

LEMMA SentPico ==
  ASSUME NEW c \in Works, NEW cmd \in H!Commands, NEW r, r = H!SendPico(c, cmd)
  PROVE  /\ r \in Works /\ r.state = c.state /\ r.peer = c.peer /\ r.msgs = c.msgs
         /\ r.cmds = Append(c.cmds, cmd)
  <1> DEFINE s == Append(c.cmds, cmd)
  <1>1. s \in Seq(H!Commands) BY DEF Works
  <1>2. r = [c EXCEPT !.cmds = s] BY DEF H!SendPico
  <1> HIDE DEF s
  <1>3. /\ r \in Works /\ r.state = c.state /\ r.peer = c.peer /\ r.msgs = c.msgs
        /\ r.cmds = s
    BY <1>1, <1>2 DEF Works
  <1> QED BY <1>3 DEF s

LEMMA Sent ==
  ASSUME NEW c \in Works, NEW m \in Letters, NEW r, r = H!Send(c, m)
  PROVE  /\ r \in Works /\ r.state = c.state /\ r.peer = c.peer /\ r.cmds = c.cmds
         /\ r.msgs = Append(c.msgs, m)
  <1> DEFINE s == Append(c.msgs, m)
  <1>1. s \in Seq(Letters) BY DEF Works
  <1>2. r = [c EXCEPT !.msgs = s] BY DEF H!Send
  <1> HIDE DEF s
  <1>3. /\ r \in Works /\ r.state = c.state /\ r.peer = c.peer /\ r.cmds = c.cmds
        /\ r.msgs = s
    BY <1>1, <1>2 DEF Works
  <1> QED BY <1>3 DEF s

LEMMA Tasked ==
  ASSUME NEW c \in Works, NEW t, t \in Jobs
  PROVE  /\ H!Without(c, t) \in Works /\ Alike(c, H!Without(c, t))
         /\ H!Spawn(c, t.kind, t.call) \in Works /\ Alike(c, H!Spawn(c, t.kind, t.call))
  <1> DEFINE u == [kind |-> t.kind, call |-> t.call]
  <1>1. u \in Jobs BY DEF Jobs
  <1> HIDE DEF u
  <1>2. H!Spawn(c, t.kind, t.call) = [c EXCEPT !.tasks = @ \cup {u}] BY DEF H!Spawn, u
  <1> QED BY <1>1, <1>2 DEF H!Without, Works, Alike

LEMMA Msgs ==
  ASSUME NEW type \in {"ring", "sdp", "answer", "hangup", "busy", "error", "call"},
         NEW call \in Nat
  PROVE  H!Msg(type, call) \in Letters /\ H!Msg(type, call).type = type
  BY DEF H!Msg, Letters

LEMMA HungUp ==
  ASSUME NEW c \in Works, NEW r, r = H!HangupCall(c)
  PROVE  /\ r \in Works /\ r.state = c.state /\ r.peer = 0
         /\ r.cmds = Append(c.cmds, "HOOK:FLASH:OFF")
         /\ \E m \in Letters : m.type = "hangup" /\ r.msgs = Append(c.msgs, m)
  <1> DEFINE a == H!SendPico(c, "HOOK:FLASH:OFF")
             b == [a EXCEPT !.pendingOffer = 0, !.pendingCaller = 0, !.preAnswer = 0,
                            !.peer = 0, !.timer = 0]
             m == H!Msg("hangup", c.peer)
  <1>1. "HOOK:FLASH:OFF" \in H!Commands BY DEF H!Commands
  <1>2. /\ a \in Works /\ a.state = c.state /\ a.msgs = c.msgs
        /\ a.cmds = Append(c.cmds, "HOOK:FLASH:OFF")
    BY <1>1, SentPico
  <1>3. r = H!Send(b, m) BY DEF H!HangupCall
  <1> HIDE DEF a
  <1>4. /\ b \in Works /\ b.state = c.state /\ b.peer = 0 /\ b.msgs = c.msgs
        /\ b.cmds = Append(c.cmds, "HOOK:FLASH:OFF")
    BY <1>2 DEF Works
  <1>5. m \in Letters /\ m.type = "hangup" BY Msgs DEF Works
  <1> HIDE DEF b, m
  <1>6. /\ r \in Works /\ r.state = b.state /\ r.peer = b.peer /\ r.cmds = b.cmds
        /\ r.msgs = Append(b.msgs, m)
    BY <1>3, <1>4, <1>5, Sent
  <1> QED BY <1>4, <1>5, <1>6

LEMMA Answered ==
  ASSUME NEW c \in Works, NEW how \in H!Answers, NEW r, r = H!AnswerCall(c, how)
  PROVE  /\ r \in Works /\ r.state = c.state /\ r.cmds = c.cmds
         /\ \/ r.msgs = c.msgs
            \/ \E m \in Letters : m.type = "answer" /\ r.msgs = Append(c.msgs, m)
  <1> DEFINE caller == IF c.preAnswer # 0 /\ how = "live" THEN c.preAnswer ELSE c.pendingCaller
             peer == IF how = "none" THEN 0 ELSE caller
             taken == [c EXCEPT !.preAnswer = 0, !.pendingOffer = 0, !.pendingCaller = 0,
                                !.peer = peer]
             b == [taken EXCEPT !.timer = caller]
             m == H!Msg("answer", caller)
  <1>1. caller \in Nat /\ peer \in Nat BY DEF Works
  <1>2. r \in {c, taken, H!Send(b, m)} BY DEF H!AnswerCall, H!Answers
  <1> HIDE DEF caller, peer
  <1>3. taken \in Works /\ taken.state = c.state /\ taken.cmds = c.cmds /\ taken.msgs = c.msgs
    BY <1>1 DEF Works
  <1> HIDE DEF taken
  <1>6. b \in Works /\ b.state = c.state /\ b.cmds = c.cmds /\ b.msgs = c.msgs
    BY <1>1, <1>3 DEF Works
  <1>4. m \in Letters /\ m.type = "answer" BY <1>1, Msgs
  <1> HIDE DEF b, m
  <1>5. r = H!Send(b, m) => /\ r \in Works /\ r.state = b.state /\ r.cmds = b.cmds
                            /\ r.msgs = Append(b.msgs, m)
    BY <1>4, <1>6, Sent
  <1> QED BY <1>2, <1>3, <1>4, <1>5, <1>6

LEMMA Pair ==
  ASSUME NEW S, NEW x \in S, NEW y \in S PROVE Append(<<x>>, y) = <<x, y>>
  <1> DEFINE a == Append(<<x>>, y)
             b == <<x, y>>
  <1>1. <<x>> \in Seq(S) /\ Len(<<x>>) = 1 OBVIOUS
  <1>2. a \in Seq(S) /\ Len(a) = 2 /\ a[1] = x /\ a[2] = y BY <1>1
  <1>3. b \in Seq(S) /\ Len(b) = 2 OBVIOUS
  <1>4. \A i \in 1 .. Len(a) : a[i] = b[i] BY <1>2
  <1> HIDE DEF a, b
  <1>5. a = b BY <1>2, <1>3, <1>4, SeqEqual
  <1> QED BY <1>5 DEF a, b

LEMMA Initiated ==
  ASSUME NEW c \in Works, MaxIn \in Nat, c.msgs = <<>>,
         NEW outcome \in {"unreachable", "failed", "ok"}, NEW r, r = H!InitiateCall(c, outcome)
  PROVE  /\ r \in Works /\ r.state = c.state /\ r.cmds = c.cmds
         /\ \/ r.msgs = <<>> /\ r.peer = c.peer
            \/ \E m \in Letters : m.type = "call" /\ r.msgs = <<m>>
            \/ \E m, e \in Letters : e.type = "hangup" /\ r.msgs = <<m, e>>
  <1> DEFINE call == H!OutCall(c.attempt)
             b == [c EXCEPT !.peer = call]
             m == H!Msg("call", call)
             e == H!Msg("hangup", call)
             sent == H!Send(b, m)
  <1>1. call \in Nat BY DEF H!OutCall, Works
  <1>2. r \in {c, sent, H!Send(sent, e)} BY DEF H!InitiateCall
  <1> HIDE DEF call
  <1>3. b \in Works /\ b.state = c.state /\ b.cmds = c.cmds /\ b.msgs = <<>>
    BY <1>1 DEF Works
  <1>4. m \in Letters /\ m.type = "call" BY <1>1, Msgs
  <1>5. e \in Letters /\ e.type = "hangup" BY <1>1, Msgs
  <1> HIDE DEF b, m, e
  <1>6. sent \in Works /\ sent.state = c.state /\ sent.cmds = c.cmds /\ sent.msgs = <<m>>
    <2>1. /\ sent \in Works /\ sent.state = b.state /\ sent.cmds = b.cmds
          /\ sent.msgs = Append(b.msgs, m)
      BY <1>3, <1>4, Sent
    <2>2. Append(<<>>, m) = <<m>> OBVIOUS
    <2> QED BY <1>3, <2>1, <2>2
  <1> HIDE DEF sent
  <1>7. r = H!Send(sent, e) => /\ r \in Works /\ r.state = c.state /\ r.cmds = c.cmds
                               /\ r.msgs = <<m, e>>
    <2>1. r = H!Send(sent, e) => /\ r \in Works /\ r.state = sent.state /\ r.cmds = sent.cmds
                                 /\ r.msgs = Append(sent.msgs, e)
      BY <1>5, <1>6, Sent
    <2>2. Append(<<m>>, e) = <<m, e>> BY <1>4, <1>5, Pair
    <2> QED BY <1>6, <2>1, <2>2
  <1>8. r = c => r \in Works /\ r.state = c.state /\ r.cmds = c.cmds /\ r.msgs = <<>> /\ r.peer = c.peer
    OBVIOUS
  <1> QED BY <1>2, <1>4, <1>5, <1>6, <1>7, <1>8

-----------------------------------------------------------------------------
(* The controller's handlers.                                              *)

\* The daemon between two steps.
Rests(c) == c \in Works /\ c.cmds = <<>> /\ c.msgs = <<>> /\ (c.peer # 0 => Talks(c))

\* Who leaves a call says so, and who has placed or answered one is in it.
CallMoves(c, r) ==
  /\ r.peer # 0 => Talks(r)
  /\ \/ r.msgs = <<>> /\ (Talks(c) => Talks(r))
     \/ \E m \in Letters : r.msgs = <<m>> /\ m.type = "hangup"
     \/ \E m \in Letters : r.msgs = <<m>> /\ Talks(r)
     \/ \E m, e \in Letters : r.msgs = <<m, e>> /\ e.type = "hangup"
Serves(c, r) == r \in Works /\ CallMoves(c, r)

\* The bell is told what the controller thinks.
BellMoves(r) ==
  \/ r.cmds = <<"RING:START">> /\ r.state = "RINGING"
  \/ r.cmds \in {<<"RING:STOP">>, <<"RING:STOP", "HOOK:FLASH:OFF">>} /\ r.state # "RINGING"

\* A step that is not about the hook.
Keeps(c, r) ==
  /\ Serves(c, r) /\ HeardBy(r) = HeardBy(c)
  /\ HeardBy(c) = "on" => BellMoves(r) \/ (r.cmds = <<>> /\ r.state = c.state)

LEMMA AlikeKeeps ==
  ASSUME NEW c, Rests(c), NEW r \in Works, Alike(c, r) PROVE Keeps(c, r) /\ Rests(r)
  BY DEF Rests, Alike, Keeps, Serves, CallMoves, HeardBy, Talks

\* A handler that only moves the controller.
LEMMA MovedKeeps ==
  ASSUME NEW c, Rests(c), NEW state \in H!States, NEW r, r = [c EXCEPT !.state = state],
         HeardBy(c) = "off", state \notin {"IDLE", "RINGING"},
         Talks(c) => state \in {"CALLING", "CONNECTED"}
  PROVE  Keeps(c, r) /\ Rests(r) /\ r.state = state
  <1>1. /\ r \in Works /\ r.state = state /\ r.peer = c.peer /\ r.cmds = <<>> /\ r.msgs = <<>>
    BY DEF Rests, Works
  <1> QED BY <1>1 DEF Rests, Keeps, Serves, CallMoves, HeardBy, Talks

LEMMA HookCommands ==
  /\ "RING:STOP" \in H!Commands /\ "RING:START" \in H!Commands
  /\ "HOOK:FLASH:ON" \in H!Commands /\ "CALL:CONNECTED" \in H!Commands
  /\ \A cmd \in H!Commands : Append(<<>>, cmd) = <<cmd>>
  /\ \A m \in Letters : Append(<<>>, m) = <<m>>
  BY DEF H!Commands

LEMMA OffHandled ==
  ASSUME NEW c, Rests(c), NEW how \in H!Answers, NEW r, r = H!onHookOff(c, how)
  PROVE  Serves(c, r) /\ (HeardBy(c) = "on" => HeardBy(r) = "off")
  <1>1. CASE c.state = "IDLE"
    <2>1. r = [c EXCEPT !.state = "DIALTONE"] BY <1>1 DEF H!onHookOff
    <2>2. /\ r \in Works /\ r.state = "DIALTONE" /\ r.peer = c.peer /\ r.msgs = <<>>
      BY <2>1 DEF Rests, Works, H!States
    <2> QED BY <1>1, <2>2 DEF Rests, Serves, CallMoves, Talks, HeardBy
  <1>2. CASE c.state = "RINGING"
    <2> DEFINE a == [c EXCEPT !.state = "CONNECTED"]
               b == H!SendPico(a, "RING:STOP")
               e == H!SendPico(b, "HOOK:FLASH:ON")
    <2>1. r = H!AnswerCall(e, how) BY <1>2 DEF H!onHookOff
    <2>0. "RING:STOP" \in H!Commands /\ "HOOK:FLASH:ON" \in H!Commands BY HookCommands
    <2>2. a \in Works /\ a.state = "CONNECTED" /\ a.peer = c.peer /\ a.msgs = <<>>
      BY DEF Rests, Works, H!States
    <2> HIDE DEF a
    <2>3. b \in Works /\ b.state = "CONNECTED" /\ b.peer = c.peer /\ b.msgs = <<>>
      BY <2>0, <2>2, SentPico
    <2> HIDE DEF b
    <2>4. e \in Works /\ e.state = "CONNECTED" /\ e.peer = c.peer /\ e.msgs = <<>>
      BY <2>0, <2>3, SentPico
    <2> HIDE DEF e
    <2>5. /\ r \in Works /\ r.state = e.state
          /\ \/ r.msgs = e.msgs
             \/ \E m \in Letters : m.type = "answer" /\ r.msgs = Append(e.msgs, m)
      BY <2>1, <2>4, Answered
    <2>6. r.msgs = <<>> \/ \E m \in Letters : r.msgs = <<m>> BY <2>4, <2>5, HookCommands
    <2> QED BY <2>4, <2>5, <2>6 DEF Serves, CallMoves, Talks, HeardBy
  <1>3. CASE c.state \notin {"IDLE", "RINGING"}
    <2>1. r = c BY <1>3 DEF H!onHookOff
    <2> QED BY <1>3, <2>1 DEF Rests, Serves, CallMoves, HeardBy
  <1> QED BY <1>1, <1>2, <1>3

LEMMA OnHandled ==
  ASSUME NEW c, Rests(c), NEW r, r = H!onHookOn(c)
  PROVE  Serves(c, r) /\ (HeardBy(c) = "off" => HeardBy(r) = "on" /\ BellMoves(r))
  <1> DEFINE a == [c EXCEPT !.state = "IDLE"]
             b == H!SendPico(a, "RING:STOP")
  <1>1. r = IF c.state = "IDLE" THEN c
            ELSE IF Talks(c) THEN H!HangupCall(b) ELSE b
    BY DEF H!onHookOn, Talks
  <1>2. a \in Works /\ a.state = "IDLE" /\ a.peer = c.peer /\ a.msgs = <<>> /\ a.cmds = <<>>
    BY DEF Rests, Works, H!States
  <1> HIDE DEF a
  <1>3. /\ b \in Works /\ b.state = "IDLE" /\ b.peer = c.peer /\ b.msgs = <<>>
        /\ b.cmds = <<"RING:STOP">>
    <2>1. "RING:STOP" \in H!Commands /\ Append(<<>>, "RING:STOP") = <<"RING:STOP">>
      BY HookCommands
    <2>2. /\ b \in Works /\ b.state = a.state /\ b.peer = a.peer /\ b.msgs = a.msgs
          /\ b.cmds = Append(a.cmds, "RING:STOP")
      BY <1>2, <2>1, SentPico
    <2> HIDE DEF b
    <2> QED BY <1>2, <2>1, <2>2
  <1> HIDE DEF b
  <1>4. CASE c.state = "IDLE"
    BY <1>1, <1>4 DEF Rests, Serves, CallMoves, HeardBy
  <1>5. CASE c.state # "IDLE" /\ ~ Talks(c)
    BY <1>1, <1>3, <1>5 DEF Rests, Serves, CallMoves, BellMoves, HeardBy, Talks
  <1>6. CASE Talks(c)
    <2>1. r = H!HangupCall(b) BY <1>1, <1>6 DEF Talks
    <2>2. /\ r \in Works /\ r.state = "IDLE" /\ r.peer = 0
          /\ r.cmds = Append(b.cmds, "HOOK:FLASH:OFF")
          /\ \E m \in Letters : m.type = "hangup" /\ r.msgs = Append(b.msgs, m)
      BY <1>3, <2>1, HungUp
    <2>3. Append(<<"RING:STOP">>, "HOOK:FLASH:OFF") = <<"RING:STOP", "HOOK:FLASH:OFF">>
      <3>1. "RING:STOP" \in H!Commands /\ "HOOK:FLASH:OFF" \in H!Commands BY DEF H!Commands
      <3> DEFINE x == "RING:STOP"
                 y == "HOOK:FLASH:OFF"
      <3>2. x \in H!Commands /\ y \in H!Commands BY <3>1
      <3> HIDE DEF x, y
      <3>3. Append(<<x>>, y) = <<x, y>> BY <3>2, Pair
      <3> QED BY <3>3 DEF x, y
    <2>4. \E m \in Letters : m.type = "hangup" /\ r.msgs = <<m>> BY <1>3, <2>2, HookCommands
    <2>5. r.cmds = <<"RING:STOP", "HOOK:FLASH:OFF">> BY <1>3, <2>2, <2>3
    <2> QED BY <2>2, <2>4, <2>5 DEF Serves, CallMoves, BellMoves, HeardBy
  <1> QED BY <1>4, <1>5, <1>6

LEMMA KeyHandled ==
  ASSUME NEW c, Rests(c), NEW r, r = H!onKey(c) PROVE Keeps(c, r)
  <1>1. CASE c.state = "DIALTONE"
    <2>1. r = [c EXCEPT !.state = "DIALING"] BY <1>1 DEF H!onKey
    <2>2. "DIALING" \in H!States BY DEF H!States
    <2> QED BY <1>1, <2>1, <2>2, MovedKeeps DEF HeardBy, Talks
  <1>2. CASE c.state # "DIALTONE"
    <2>1. r = c BY <1>2 DEF H!onKey
    <2> QED BY <2>1, AlikeKeeps DEF Rests, Alike
  <1> QED BY <1>1, <1>2

LEMMA DialHandled ==
  ASSUME MaxIn \in Nat, NEW c, Rests(c), NEW refused \in BOOLEAN, NEW r, r = H!onDial(c, refused)
  PROVE  Keeps(c, r)
  <1>1. CASE c.state = "DIALING"
    <2> DEFINE n == c.attempt + 1
               a == [c EXCEPT !.state = "CALLING", !.attempt = n]
               t == [kind |-> "dial", call |-> H!OutCall(a.attempt)]
    <2>1. r = a \/ r = H!Spawn(a, "dial", H!OutCall(a.attempt)) BY <1>1 DEF H!onDial
    <2>2. /\ a \in Works /\ a.state = "CALLING" /\ a.peer = c.peer /\ a.cmds = <<>>
          /\ a.msgs = <<>>
      <3>1. n \in Nat /\ c \in Works BY DEF Rests, Works
      <3> HIDE DEF n
      <3> QED BY <3>1 DEF Rests, Works, H!States
    <2> HIDE DEF a
    <2>3. t \in Jobs /\ t.kind = "dial" /\ t.call = H!OutCall(a.attempt)
      BY <2>2 DEF Works, Jobs, H!OutCall
    <2> HIDE DEF t
    <2>4. r \in Works /\ Alike(a, r)
      <3>1. H!Spawn(a, t.kind, t.call) \in Works /\ Alike(a, H!Spawn(a, t.kind, t.call))
        BY <2>2, <2>3, Tasked
      <3> QED BY <2>1, <2>2, <2>3, <3>1 DEF Alike
    <2> QED BY <1>1, <2>2, <2>4 DEF Alike, Keeps, Serves, CallMoves, HeardBy, Talks
  <1>2. CASE c.state # "DIALING"
    <2>1. r = c BY <1>2 DEF H!onDial
    <2> QED BY <2>1, AlikeKeeps DEF Rests, Alike
  <1> QED BY <1>1, <1>2

LEMMA KeepsAlike ==
  ASSUME NEW c, NEW a, Alike(c, a), NEW r, Keeps(a, r) PROVE Keeps(c, r)
  BY DEF Alike, Keeps, Serves, CallMoves, HeardBy, Talks

LEMMA RingHandled ==
  ASSUME NEW c, Rests(c), NEW r, r = H!onSignalRing(c) PROVE Keeps(c, r)
  <1>1. CASE c.state = "IDLE"
    <2> DEFINE a == [c EXCEPT !.state = "RINGING"]
    <2>1. r = H!SendPico(a, "RING:START") BY <1>1 DEF H!onSignalRing
    <2>2. /\ a \in Works /\ a.state = "RINGING" /\ a.peer = c.peer /\ a.cmds = <<>>
          /\ a.msgs = <<>>
      BY DEF Rests, Works, H!States
    <2> HIDE DEF a
    <2>3. "RING:START" \in H!Commands /\ Append(<<>>, "RING:START") = <<"RING:START">>
      BY HookCommands
    <2>4. /\ r \in Works /\ r.state = a.state /\ r.peer = a.peer /\ r.msgs = a.msgs
          /\ r.cmds = Append(a.cmds, "RING:START")
      BY <2>1, <2>2, <2>3, SentPico
    <2>5. r.cmds = <<"RING:START">> BY <2>2, <2>3, <2>4
    <2> QED BY <1>1, <2>2, <2>4, <2>5
         DEF Rests, Keeps, Serves, CallMoves, BellMoves, HeardBy, Talks
  <1>2. CASE c.state # "IDLE"
    <2>1. r = c BY <1>2 DEF H!onSignalRing
    <2> QED BY <2>1, AlikeKeeps DEF Rests, Alike
  <1> QED BY <1>1, <1>2

LEMMA AnswerHandled ==
  ASSUME NEW c, Rests(c), NEW r, r = H!onSignalAnswer(c) PROVE Keeps(c, r)
  <1>1. CASE c.state = "CALLING"
    <2> DEFINE a == [c EXCEPT !.state = "CONNECTED"]
               b == H!SendPico(a, "HOOK:FLASH:ON")
    <2>1. r = H!SendPico(b, "CALL:CONNECTED") BY <1>1 DEF H!onSignalAnswer
    <2>2. "HOOK:FLASH:ON" \in H!Commands /\ "CALL:CONNECTED" \in H!Commands BY HookCommands
    <2>3. a \in Works /\ a.state = "CONNECTED" /\ a.peer = c.peer /\ a.msgs = <<>>
      BY DEF Rests, Works, H!States
    <2> HIDE DEF a
    <2>4. b \in Works /\ b.state = a.state /\ b.peer = a.peer /\ b.msgs = a.msgs
      BY <2>2, <2>3, SentPico
    <2> HIDE DEF b
    <2>5. r \in Works /\ r.state = b.state /\ r.peer = b.peer /\ r.msgs = b.msgs
      BY <2>1, <2>2, <2>4, SentPico
    <2> QED BY <1>1, <2>3, <2>4, <2>5 DEF Keeps, Serves, CallMoves, HeardBy, Talks
  <1>2. CASE c.state # "CALLING"
    <2>1. r = c BY <1>2 DEF H!onSignalAnswer
    <2> QED BY <2>1, AlikeKeeps DEF Rests, Alike
  <1> QED BY <1>1, <1>2

LEMMA HangupHandled ==
  ASSUME NEW c, Rests(c), NEW timeout \in BOOLEAN, NEW r, r = H!onSignalHangup(c, timeout)
  PROVE  Keeps(c, r)
  <1>1. CASE c.state = "RINGING"
    <2> DEFINE a == [c EXCEPT !.state = "IDLE"]
    <2>1. r = H!SendPico(a, "RING:STOP") BY <1>1 DEF H!onSignalHangup
    <2>2. /\ a \in Works /\ a.state = "IDLE" /\ a.peer = c.peer /\ a.cmds = <<>>
          /\ a.msgs = <<>>
      BY DEF Rests, Works, H!States
    <2> HIDE DEF a
    <2>3. "RING:STOP" \in H!Commands /\ Append(<<>>, "RING:STOP") = <<"RING:STOP">>
      BY HookCommands
    <2>4. /\ r \in Works /\ r.state = a.state /\ r.peer = a.peer /\ r.msgs = a.msgs
          /\ r.cmds = Append(a.cmds, "RING:STOP")
      BY <2>1, <2>2, <2>3, SentPico
    <2>5. r.cmds = <<"RING:STOP">> BY <2>2, <2>3, <2>4
    <2> QED BY <1>1, <2>2, <2>4, <2>5
         DEF Rests, Keeps, Serves, CallMoves, BellMoves, HeardBy, Talks
  <1>2. CASE c.state = "CONNECTED"
    <2> DEFINE a == [c EXCEPT !.state = IF timeout THEN "CALL_FAILED" ELSE "REMOTE_HANGUP"]
    <2>1. r = H!HangupCall(a) BY <1>2 DEF H!onSignalHangup
    <2>2. a \in Works /\ a.state \in {"CALL_FAILED", "REMOTE_HANGUP"} /\ a.msgs = <<>>
      BY DEF Rests, Works, H!States
    <2> HIDE DEF a
    <2>3. /\ r \in Works /\ r.state = a.state /\ r.peer = 0
          /\ \E m \in Letters : m.type = "hangup" /\ r.msgs = Append(a.msgs, m)
      BY <2>1, <2>2, HungUp
    <2>4. \E m \in Letters : m.type = "hangup" /\ r.msgs = <<m>>
      BY <2>2, <2>3, HookCommands
    <2> QED BY <1>2, <2>2, <2>3, <2>4 DEF Keeps, Serves, CallMoves, HeardBy
  <1>3. CASE c.state \notin {"RINGING", "CONNECTED"}
    <2>1. r = c BY <1>3 DEF H!onSignalHangup
    <2> QED BY <2>1, AlikeKeeps DEF Rests, Alike
  <1> QED BY <1>1, <1>2, <1>3

LEMMA SignalHandled ==
  ASSUME NEW c, Rests(c), NEW m \in Signals, NEW r, r = H!handleSignal(c, m)
  PROVE  Keeps(c, r)
  <1>0. m.call \in Nat /\ m.timeout \in BOOLEAN BY DEF Signals, Letters
  <1>1. CASE m.type = "ring"
    <2> DEFINE a == [c EXCEPT !.pendingCaller = m.call]
    <2>1. r = H!onSignalRing(a) BY <1>1 DEF H!handleSignal
    <2>2. a \in Works /\ Alike(c, a) BY <1>0 DEF Rests, Works, Alike
    <2> HIDE DEF a
    <2>3. Rests(a) BY <2>2, AlikeKeeps
    <2>4. Keeps(a, r) BY <2>1, <2>3, RingHandled
    <2> QED BY <2>2, <2>4, KeepsAlike
  <1>2. CASE m.type = "sdp"
    <2>1. r \in Works /\ Alike(c, r)
      BY <1>0, <1>2 DEF H!handleSignal, H!prepareAnswer, Rests, Works, Alike
    <2> QED BY <2>1, AlikeKeeps
  <1>3. CASE m.type = "answer"
    <2> DEFINE a == [c EXCEPT !.timer = IF c.peer # 0 THEN c.peer ELSE @]
    <2>1. r = H!onSignalAnswer(a) BY <1>3 DEF H!handleSignal
    <2>2. a \in Works /\ Alike(c, a) BY DEF Rests, Works, Alike
    <2> HIDE DEF a
    <2>3. Rests(a) BY <2>2, AlikeKeeps
    <2>4. Keeps(a, r) BY <2>1, <2>3, AnswerHandled
    <2> QED BY <2>2, <2>4, KeepsAlike
  <1>4. CASE m.type = "hangup"
    <2>1. r = H!onSignalHangup(c, m.timeout) BY <1>4 DEF H!handleSignal
    <2> QED BY <1>0, <2>1, HangupHandled
  <1>5. CASE m.type \in {"busy", "error"}
    <2>1. r = c BY <1>5 DEF H!handleSignal
    <2> QED BY <2>1, AlikeKeeps DEF Rests, Alike
  <1> QED BY <1>1, <1>2, <1>3, <1>4, <1>5 DEF Signals, Letters

-----------------------------------------------------------------------------
(* The daemon's steps.                                                     *)

\* With what a step of the daemon has sent.
Follows(s, c, r, t) ==
  /\ t \in Seq(Letters) /\ Len(s) <= Len(t)
  /\ \A i \in 1 .. Len(s) : t[i] = s[i]
  /\ \A i \in 0 .. Len(s) : Talks(c) \/ HangsUp(s, i) => Talks(r) \/ HangsUp(t, i)
  /\ \A i \in 1 .. Len(t) : i > Len(s) /\ t[i].type \in {"call", "answer"} =>
                              Talks(r) \/ HangsUp(t, i)

LEMMA CallsFollow ==
  ASSUME NEW s \in Seq(Letters), NEW c, NEW r, CallMoves(c, r), NEW t, t = s \o r.msgs
  PROVE  Follows(s, c, r, t)
  <1> DEFINE N == Len(s)
  <1>1. N \in Nat OBVIOUS
  <1>2. CASE r.msgs = <<>> /\ (Talks(c) => Talks(r))
    <2>1. t = s BY <1>2
    <2> QED BY <1>2, <2>1 DEF Follows
  <1>3. ASSUME NEW m \in Letters, r.msgs = <<m>>, m.type = "hangup" \/ Talks(r)
        PROVE  Follows(s, c, r, t)
    <2>1. t \in Seq(Letters) /\ Len(t) = N + 1 /\ t[N + 1] = m /\ \A i \in 1 .. N : t[i] = s[i]
      BY <1>3
    <2> HIDE DEF N
    <2>2. m.type = "hangup" => \A i \in 0 .. N : HangsUp(t, i)
      BY <1>1, <2>1 DEF HangsUp
    <2>3. ASSUME NEW i \in 1 .. Len(t), i > N PROVE t[i] = m
      <3>1. i = N + 1 BY <1>1, <2>1, <2>3
      <3> QED BY <2>1, <3>1
    <2> QED BY <1>1, <1>3, <2>1, <2>2, <2>3 DEF N, Follows
  <1>4. ASSUME NEW m \in Letters, NEW e \in Letters, r.msgs = <<m, e>>, e.type = "hangup"
        PROVE  Follows(s, c, r, t)
    <2>1. /\ t \in Seq(Letters) /\ Len(t) = N + 2 /\ t[N + 2] = e
          /\ \A i \in 1 .. N : t[i] = s[i]
      BY <1>4
    <2> HIDE DEF N
    <2>2. \A i \in 0 .. (N + 1) : HangsUp(t, i) BY <1>1, <1>4, <2>1 DEF HangsUp
    <2>3. ASSUME NEW i \in 1 .. Len(t), t[i].type \in {"call", "answer"}, i > N
          PROVE  HangsUp(t, i)
      <3>1. i # N + 2 BY <1>4, <2>1, <2>3
      <3>2. i \in 0 .. (N + 1) BY <1>1, <2>1, <3>1
      <3> QED BY <2>2, <3>2
    <2>4. \A i \in 0 .. N : HangsUp(t, i) BY <1>1, <2>2
    <2> QED BY <1>1, <2>1, <2>3, <2>4 DEF N, Follows
  <1> QED BY <1>2, <1>3, <1>4 DEF CallMoves

LEMMA DaemonServes ==
  ASSUME PhoneTypes, CallInv, NEW r, Serves(digitsd, r), H!Daemonic(r), UNCHANGED leg
  PROVE  /\ CallInv' /\ Rests(digitsd') /\ digitsd'.state = r.state
         /\ toServer' \in Seq(Letters) /\ toPico' \in Seq(H!Commands)
         /\ toPico' = toPico \o r.cmds
  <1>1. /\ digitsd' = [r EXCEPT !.cmds = <<>>, !.msgs = <<>>]
        /\ toPico' = toPico \o r.cmds /\ toServer' = toServer \o r.msgs
    BY DEF H!Daemonic
  <1>2. r \in Works /\ CallMoves(digitsd, r) BY DEF Serves
  <1>3. /\ digitsd' \in Works /\ digitsd'.state = r.state /\ digitsd'.peer = r.peer
        /\ digitsd'.cmds = <<>> /\ digitsd'.msgs = <<>>
    <2>1. <<>> \in Seq(H!Commands) /\ <<>> \in Seq(Letters) OBVIOUS
    <2> QED BY <1>1, <1>2, <2>1 DEF Works
  <1>4. Talks(digitsd') <=> Talks(r) BY <1>3 DEF Talks
  <1>5. Rests(digitsd') BY <1>2, <1>3, <1>4 DEF Rests, CallMoves
  <1>6. toPico' \in Seq(H!Commands)
    <2>1. toPico \in Seq(H!Commands) /\ r.cmds \in Seq(H!Commands)
      BY <1>2 DEF PhoneTypes, Works
    <2> QED BY <1>1, <2>1
  <1> DEFINE s == toServer
             t == toServer'
  <1>7. s \in Seq(Letters) BY DEF PhoneTypes
  <1>8. /\ t \in Seq(Letters) /\ Len(s) <= Len(t)
        /\ \A i \in 1 .. Len(s) : t[i] = s[i]
        /\ \A i \in 0 .. Len(s) : Talks(digitsd) \/ HangsUp(s, i) => Talks(r) \/ HangsUp(t, i)
        /\ \A i \in 1 .. Len(t) : i > Len(s) /\ t[i].type \in {"call", "answer"} =>
                                    Talks(r) \/ HangsUp(t, i)
    <2>1. t = s \o r.msgs BY <1>1
    <2> HIDE DEF s, t
    <2>2. Follows(s, digitsd, r, t) BY <1>2, <1>7, <2>1, CallsFollow
    <2> QED BY <2>2 DEF Follows
  <1>9. CallInv'
    <2>1. leg'.answered \/ leg'.call > MaxIn => Talks(r) \/ HangsUp(t, 0)
      <3>1. 0 \in 0 .. Len(s) BY <1>7
      <3> QED BY <1>8, <3>1 DEF CallInv
    <2>2. ASSUME NEW i \in 1 .. Len(t), t[i].type \in {"call", "answer"}
          PROVE  Talks(r) \/ HangsUp(t, i)
      <3>1. CASE i > Len(s) BY <1>8, <2>2, <3>1
      <3>2. CASE ~ (i > Len(s))
        <4>1. i \in 1 .. Len(s) /\ i \in 0 .. Len(s) BY <1>7, <1>8, <3>2
        <4>2. s[i].type \in {"call", "answer"} BY <1>8, <2>2, <4>1
        <4>3. Talks(digitsd) \/ HangsUp(s, i) BY <4>1, <4>2 DEF CallInv
        <4> QED BY <1>8, <4>1, <4>3
      <3> QED BY <3>1, <3>2
    <2>3. digitsd'.peer # 0 => Talks(digitsd') BY <1>5 DEF Rests
    <2> QED BY <1>4, <2>1, <2>2, <2>3 DEF CallInv, Talks, HangsUp
  <1> QED BY <1>1, <1>3, <1>5, <1>6, <1>8, <1>9

LEMMA DaemonRests == PhoneInv => Rests(digitsd)
  BY DEF PhoneInv, PhoneTypes, CallInv, Rests

(* A daemon to which nothing of the hook is under way knows of a cradled   *)
(* phone.                                                                  *)
LEMMA SettledKnows == ASSUME PhoneInv, Settled PROVE HeardBy(digitsd) = "on"
  <1>1. toPi \in Seq(H!Events) /\ Replay(toPi, HeardBy(digitsd), HookOf(pico)) /\ NoHook(toPi)
    BY DEF PhoneInv, PhoneTypes, HookInv, Settled
  <1>2. HeardBy(digitsd) = HookOf(pico)
    <2> DEFINE x == HeardBy(digitsd)
               y == HookOf(pico)
    <2> HIDE DEF x, y
    <2>1. Replay(toPi, x, y) BY <1>1 DEF x, y
    <2>2. x = y BY <1>1, <2>1, ReplayStill
    <2> QED BY <2>2 DEF x, y
  <1> QED BY <1>2 DEF HookOf, Settled

LEMMA DaemonKeeps ==
  ASSUME PhoneInv, NEW r, Keeps(digitsd, r), H!Daemonic(r),
         UNCHANGED <<pico, leg, hooks, ins>>, toPhone' \in Seq(Signals),
         \/ toPi' = toPi
         \/ toPi # <<>> /\ toPi' = Tail(toPi) /\ Head(toPi) \notin {"HOOK:OFF", "HOOK:ON"}
  PROVE  PhoneInv'
  <1>1. /\ CallInv' /\ Rests(digitsd') /\ digitsd'.state = r.state
        /\ toServer' \in Seq(Letters) /\ toPico' \in Seq(H!Commands)
        /\ toPico' = toPico \o r.cmds
    BY DaemonServes DEF PhoneInv, Keeps
  <1>2. toPi \in Seq(H!Events) /\ toPi' \in Seq(H!Events)
    <2>1. toPi \in Seq(H!Events) BY DEF PhoneInv, PhoneTypes
    <2>2. toPi # <<>> => Tail(toPi) \in Seq(H!Events) BY <2>1
    <2> QED BY <2>1, <2>2
  <1>3. PhoneTypes'
    BY <1>1, <1>2 DEF PhoneInv, PhoneTypes, Rests, AtRest
  <1>4. HeardBy(digitsd') = HeardBy(digitsd) BY <1>1 DEF Keeps, HeardBy
  <1>5. HookInv'
    <2>1. ASSUME ~ pico.lost PROVE Replay(toPi', HeardBy(digitsd'), HookOf(pico))
      <3> DEFINE x == HeardBy(digitsd)
                 y == HookOf(pico)
      <3>1. Replay(toPi, x, y) BY <2>1 DEF PhoneInv, HookInv
      <3>2. CASE toPi' = toPi BY <1>4, <3>1, <3>2
      <3>3. CASE toPi' # toPi
        <4> HIDE DEF x, y
        <4>1. toPi # <<>> /\ toPi' = Tail(toPi) /\ Head(toPi) \notin {"HOOK:OFF", "HOOK:ON"}
          BY <3>3
        <4>2. PICK z \in {"on", "off"} : Leads(x, Head(toPi), z) /\ Replay(Tail(toPi), z, y)
          BY <1>2, <3>1, <4>1, ReplayLess
        <4>3. z = x BY <4>1, <4>2 DEF Leads
        <4>4. Replay(toPi', x, y) BY <4>1, <4>2, <4>3
        <4> QED BY <1>4, <4>4 DEF x, y
      <3> QED BY <3>2, <3>3
    <2>2. HookOf(pico') = HookOf(pico) /\ (OffHook(pico') <=> OffHook(pico)) OBVIOUS
    <2> QED BY <2>1, <2>2 DEF PhoneInv, HookInv
  <1>6. ASSUME Settled' PROVE LastBell(toPico', pico'.state, digitsd'.state)
    <2>1. NoHook(toPi)
      <3>1. CASE toPi' = toPi BY <1>6, <3>1 DEF Settled, NoHook
      <3>2. CASE toPi' # toPi
        <4>1. toPi # <<>> /\ toPi' = Tail(toPi) /\ Head(toPi) \notin {"HOOK:OFF", "HOOK:ON"}
          BY <3>2
        <4>2. NoHook(Tail(toPi)) BY <1>6, <4>1 DEF Settled, NoHook
        <4>3. ASSUME NEW i \in 1 .. Len(toPi) PROVE toPi[i] \notin {"HOOK:OFF", "HOOK:ON"}
          <5>1. CASE i = 1 BY <1>2, <4>1, <5>1
          <5>2. CASE i # 1
            <6>1. i - 1 \in 1 .. Len(Tail(toPi)) /\ Tail(toPi)[i - 1] = toPi[i]
              BY <1>2, <4>1, <5>2
            <6> QED BY <4>2, <6>1 DEF NoHook
          <5> QED BY <5>1, <5>2
        <4> QED BY <4>3 DEF NoHook
      <3> QED BY <3>1, <3>2
    <2>2. Settled BY <1>6, <2>1 DEF Settled, OffHook
    <2>3. HeardBy(digitsd) = "on" BY <2>2, SettledKnows
    <2>4. LastBell(toPico, pico.state, digitsd.state) BY <2>2 DEF PhoneInv, BellInv
    <2>5. BellMoves(r) \/ (r.cmds = <<>> /\ r.state = digitsd.state) BY <2>3 DEF Keeps
    <2>6. toPico \in Seq(H!Commands) BY DEF PhoneInv, PhoneTypes
    <2>7. CASE r.cmds = <<>> /\ r.state = digitsd.state
      <3>1. toPico' = toPico BY <1>1, <2>6, <2>7
      <3> QED BY <1>1, <2>4, <2>7, <3>1
    <2>8. CASE BellMoves(r)
      <3> DEFINE a == pico.state
                 b == r.state
                 cmds == r.cmds
      <3>1. \/ cmds = <<"RING:START">> /\ b = "RINGING"
            \/ cmds \in {<<"RING:STOP">>, <<"RING:STOP", "HOOK:FLASH:OFF">>} /\ b # "RINGING"
        BY <2>8 DEF BellMoves
      <3> HIDE DEF a, b, cmds
      <3>2. LastBell(toPico \o cmds, a, b) BY <2>6, <3>1, BellMore
      <3> QED BY <1>1, <3>2 DEF a, b, cmds
    <2> QED BY <2>5, <2>7, <2>8
  <1> QED BY <1>1, <1>3, <1>5, <1>6 DEF PhoneInv, BellInv

(* An event of the hook is heard.                                          *)
LEMMA HookHeard ==
  ASSUME PhoneInv, NEW r, Serves(digitsd, r), H!Daemonic(r),
         UNCHANGED <<pico, leg, toPhone, hooks, ins>>, toPi # <<>>, toPi' = Tail(toPi),
         \/ Head(toPi) = "HOOK:OFF" /\ (HeardBy(digitsd) = "on" => HeardBy(r) = "off")
         \/ /\ Head(toPi) = "HOOK:ON"
            /\ HeardBy(digitsd) = "off" => HeardBy(r) = "on" /\ BellMoves(r)
  PROVE  PhoneInv'
  <1>1. /\ CallInv' /\ Rests(digitsd') /\ digitsd'.state = r.state
        /\ toServer' \in Seq(Letters) /\ toPico' \in Seq(H!Commands)
        /\ toPico' = toPico \o r.cmds
    BY DaemonServes DEF PhoneInv
  <1>2. toPi \in Seq(H!Events) BY DEF PhoneInv, PhoneTypes
  <1>3. PhoneTypes'
    <2>1. toPi' \in Seq(H!Events) BY <1>2
    <2> QED BY <1>1, <2>1 DEF PhoneInv, PhoneTypes, Rests, AtRest
  <1>4. HeardBy(digitsd') = HeardBy(r) BY <1>1 DEF HeardBy
  <1>5. ASSUME ~ pico.lost
        PROVE  /\ Replay(toPi', HeardBy(digitsd'), HookOf(pico))
               /\ HeardBy(r) = "off" \/ BellMoves(r)
    <2> DEFINE x == HeardBy(digitsd)
               y == HookOf(pico)
               w == HeardBy(r)
    <2>1. Replay(toPi, x, y) BY <1>5 DEF PhoneInv, HookInv
    <2>2. /\ Head(toPi) = "HOOK:OFF" => (x = "on" => w = "off")
          /\ Head(toPi) = "HOOK:ON" => (x = "off" => w = "on" /\ BellMoves(r))
          /\ Head(toPi) \in {"HOOK:OFF", "HOOK:ON"}
      OBVIOUS
    <2> HIDE DEF x, y, w
    <2>3. PICK z \in {"on", "off"} : Leads(x, Head(toPi), z) /\ Replay(Tail(toPi), z, y)
      BY <1>2, <2>1, ReplayLess
    <2>4. z = w /\ (w = "off" \/ BellMoves(r)) BY <2>2, <2>3 DEF Leads
    <2>5. Replay(toPi', w, y) BY <2>3, <2>4
    <2> QED BY <1>4, <2>4, <2>5 DEF w, y
  <1>6. HookInv' BY <1>5 DEF PhoneInv, HookInv, HookOf, OffHook
  <1>7. ASSUME Settled' PROVE LastBell(toPico', pico'.state, digitsd'.state)
    <2>1. BellMoves(r)
      <3>1. PhoneTypes' /\ HookInv' BY <1>3, <1>6
      <3>2. HeardBy(digitsd') = "on"
        <4> DEFINE x == HeardBy(digitsd')
                   y == HookOf(pico)
                   s == toPi'
        <4>1. s \in Seq(H!Events) /\ Replay(s, x, y) /\ NoHook(s)
          BY <1>3, <1>5, <1>7 DEF PhoneTypes, Settled
        <4>2. y = "on" BY <1>7 DEF HookOf, Settled, OffHook
        <4> HIDE DEF s, x, y
        <4>3. x = y BY <4>1, ReplayStill
        <4> QED BY <4>2, <4>3 DEF x
      <3>3. ~ pico.lost BY <1>7 DEF Settled
      <3> QED BY <1>4, <1>5, <3>2, <3>3
    <2> DEFINE a == pico.state
               b == r.state
               cmds == r.cmds
    <2>2. \/ cmds = <<"RING:START">> /\ b = "RINGING"
          \/ cmds \in {<<"RING:STOP">>, <<"RING:STOP", "HOOK:FLASH:OFF">>} /\ b # "RINGING"
      BY <2>1 DEF BellMoves
    <2>3. toPico \in Seq(H!Commands) BY DEF PhoneInv, PhoneTypes
    <2> HIDE DEF a, b, cmds
    <2>4. LastBell(toPico \o cmds, a, b) BY <2>2, <2>3, BellMore
    <2> QED BY <1>1, <2>4 DEF a, b, cmds
  <1> QED BY <1>1, <1>3, <1>6, <1>7 DEF PhoneInv, BellInv

LEMMA EventStep == ASSUME MaxIn \in Nat, PhoneInv, H!HandleEvent PROVE PhoneInv'
  <1>1. PICK how \in H!Answers, refused \in BOOLEAN :
          H!Daemonic(H!readLoop(digitsd, Head(toPi), how, refused))
    BY DEF H!HandleEvent
  <1> DEFINE ev == Head(toPi)
             r == H!readLoop(digitsd, ev, how, refused)
  <1>2. /\ toPi # <<>> /\ toPi' = Tail(toPi) /\ H!Daemonic(r)
        /\ UNCHANGED <<pico, leg, toPhone, hooks, ins>>
    BY <1>1 DEF H!HandleEvent
  <1>3. ev \in H!Events
    <2>1. toPi \in Seq(H!Events) BY DEF PhoneInv, PhoneTypes
    <2> QED BY <1>2, <2>1
  <1>4. Rests(digitsd) BY DaemonRests
  <1>5. toPhone' \in Seq(Signals) BY <1>2 DEF PhoneInv, PhoneTypes
  <1> DEFINE c == digitsd
  <1>6. CASE ev = "HOOK:OFF"
    <2>1. r = H!onHookOff(c, how)
      BY <1>6 DEF H!readLoop, H!isUnsolicitedEvent, H!handleEvent
    <2> HIDE DEF r
    <2>2. Serves(c, r) /\ (HeardBy(c) = "on" => HeardBy(r) = "off")
      BY <1>4, <2>1, OffHandled
    <2> QED BY <1>2, <1>6, <2>2, HookHeard
  <1>7. CASE ev = "HOOK:ON"
    <2>1. r = H!onHookOn(c)
      BY <1>7 DEF H!readLoop, H!isUnsolicitedEvent, H!handleEvent
    <2> HIDE DEF r
    <2>2. Serves(c, r) /\ (HeardBy(c) = "off" => HeardBy(r) = "on" /\ BellMoves(r))
      BY <1>4, <2>1, OnHandled
    <2> QED BY <1>2, <1>7, <2>2, HookHeard
  <1>8. CASE ev \notin {"HOOK:OFF", "HOOK:ON"}
    <2>1. \/ ev = "KEY" /\ r = H!onKey(c)
          \/ ev = "DIAL" /\ r = H!onDial(c, refused)
          \/ ev = "TIMEOUT:DIAL_TONE" /\ r = c
      BY <1>3, <1>8 DEF H!readLoop, H!isUnsolicitedEvent, H!handleEvent, H!Events
    <2> HIDE DEF r
    <2>2. r = c => Keeps(c, r) BY <1>4, AlikeKeeps DEF Rests, Alike
    <2>3. Keeps(c, r) BY <1>4, <2>1, <2>2, KeyHandled, DialHandled
    <2> QED BY <1>2, <1>5, <1>8, <2>3, DaemonKeeps
  <1> QED BY <1>6, <1>7, <1>8

LEMMA SignalStep == ASSUME PhoneInv, H!HandleSignal PROVE PhoneInv'
  <1> DEFINE m == Head(toPhone)
             r == H!handleSignal(digitsd, m)
  <1>1. /\ toPhone # <<>> /\ toPhone' = Tail(toPhone) /\ H!Daemonic(r)
        /\ UNCHANGED <<pico, toPi, leg, hooks, ins>>
    BY DEF H!HandleSignal
  <1>2. toPhone \in Seq(Signals) BY DEF PhoneInv, PhoneTypes
  <1>3. m \in Signals /\ toPhone' \in Seq(Signals) BY <1>1, <1>2
  <1> HIDE DEF m
  <1>4. Keeps(digitsd, r) BY <1>3, DaemonRests, SignalHandled
  <1> HIDE DEF r
  <1> QED BY <1>1, <1>3, <1>4, DaemonKeeps

LEMMA GoroutineStep == ASSUME MaxIn \in Nat, PhoneInv, H!Goroutines PROVE PhoneInv'
  <1> DEFINE c == digitsd
  <1>1. Rests(c) /\ c \in Works BY DaemonRests DEF Rests
  <1>2. UNCHANGED <<pico, toPi, leg, toPhone, hooks, ins>> BY DEF H!Goroutines
  <1>3. toPhone' \in Seq(Signals) BY <1>2 DEF PhoneInv, PhoneTypes
  <1>4. ASSUME NEW r, Keeps(c, r), H!Daemonic(r) PROVE PhoneInv'
    BY <1>2, <1>3, <1>4, DaemonKeeps
  <1>5. \A t \in c.tasks : t \in Jobs BY <1>1 DEF Works
  <1>6. ASSUME NEW t \in c.tasks PROVE H!Without(c, t) \in Works /\ Alike(c, H!Without(c, t))
    BY <1>1, <1>5, Tasked
  <1>7. ASSUME NEW t \in c.tasks, NEW outcome \in {"unreachable", "failed", "ok"},
               H!DialTask(t, outcome)
        PROVE  PhoneInv'
    <2> DEFINE w == H!Without(c, t)
               r == IF c.state = "CALLING" THEN H!InitiateCall(w, outcome) ELSE w
    <2>1. H!Daemonic(r) BY <1>7 DEF H!DialTask
    <2>2. w \in Works /\ Alike(c, w) BY <1>6
    <2> HIDE DEF w
    <2>3. Keeps(c, w) /\ Rests(w) BY <1>1, <2>2, AlikeKeeps
    <2>4. CASE c.state = "CALLING"
      <3>1. r = H!InitiateCall(w, outcome) BY <2>4
      <3>2. w.msgs = <<>> /\ w.cmds = <<>> BY <2>3 DEF Rests
      <3>3. /\ r \in Works /\ r.state = w.state /\ r.cmds = w.cmds
            /\ \/ r.msgs = <<>> /\ r.peer = w.peer
               \/ \E m \in Letters : m.type = "call" /\ r.msgs = <<m>>
               \/ \E m, e \in Letters : e.type = "hangup" /\ r.msgs = <<m, e>>
        BY <2>2, <3>1, <3>2, Initiated
      <3> HIDE DEF r
      <3>4. r.state = "CALLING" /\ r.cmds = <<>> /\ HeardBy(c) = "off"
        BY <2>2, <2>4, <3>2, <3>3 DEF Alike, HeardBy
      <3>5. CallMoves(c, r) BY <3>3, <3>4 DEF CallMoves, Talks
      <3>6. Keeps(c, r) BY <3>3, <3>4, <3>5 DEF Keeps, Serves, HeardBy
      <3> QED BY <1>4, <2>1, <3>6
    <2>5. CASE c.state # "CALLING"
      <3>1. r = w BY <2>5
      <3> QED BY <1>4, <2>1, <2>3, <3>1
    <2> QED BY <2>4, <2>5
  <1>8. ASSUME NEW t \in c.tasks, NEW connected \in BOOLEAN, H!DeadlineCheck(t, connected)
        PROVE  PhoneInv'
    <2> DEFINE w == H!Without(c, t)
               u == [kind |-> "overdue", call |-> t.call]
               s == H!Spawn(w, u.kind, u.call)
    <2>1. H!Daemonic(w) \/ H!Daemonic(s) BY <1>8 DEF H!DeadlineCheck
    <2>2. w \in Works /\ Alike(c, w) BY <1>6
    <2>3. u \in Jobs BY <1>5 DEF Jobs
    <2> HIDE DEF w, u
    <2>4. s \in Works /\ Alike(w, s) BY <2>2, <2>3, Tasked
    <2> HIDE DEF s
    <2>5. Alike(c, s) BY <2>2, <2>4 DEF Alike
    <2>6. Keeps(c, w) /\ Keeps(c, s) BY <1>1, <2>2, <2>4, <2>5, AlikeKeeps
    <2> QED BY <1>4, <2>1, <2>6
  <1>9. ASSUME NEW t \in c.tasks, H!DeadlineAct(t) PROVE PhoneInv'
    <2> DEFINE w == H!Without(c, t)
               timeout == TRUE
               r == H!onSignalHangup(w, timeout)
    <2>1. H!Daemonic(r) BY <1>9 DEF H!DeadlineAct
    <2>2. w \in Works /\ Alike(c, w) BY <1>6
    <2>3. timeout \in BOOLEAN OBVIOUS
    <2> HIDE DEF w, timeout
    <2>4. Rests(w) BY <1>1, <2>2, AlikeKeeps
    <2>5. Keeps(w, r) BY <2>3, <2>4, HangupHandled
    <2> HIDE DEF r
    <2>6. Keeps(c, r) BY <2>2, <2>5, KeepsAlike
    <2> QED BY <1>4, <2>1, <2>6
  <1>10. CASE H!ConnectTimerFires
    <2> DEFINE w == [c EXCEPT !.timer = 0]
               u == [kind |-> "deadline", call |-> c.timer]
               r == H!Spawn(w, u.kind, u.call)
    <2>1. H!Daemonic(r) BY <1>10 DEF H!ConnectTimerFires
    <2>2. w \in Works /\ Alike(c, w) BY <1>1 DEF Works, Alike
    <2>3. u \in Jobs BY <1>1 DEF Works, Jobs
    <2> HIDE DEF w, u
    <2>4. r \in Works /\ Alike(w, r) BY <2>2, <2>3, Tasked
    <2> HIDE DEF r
    <2>5. Alike(c, r) BY <2>2, <2>4 DEF Alike
    <2>6. Keeps(c, r) BY <1>1, <2>4, <2>5, AlikeKeeps
    <2> QED BY <1>4, <2>1, <2>6
  <1>11. CASE H!MediaConnects
    <2> DEFINE r == [c EXCEPT !.timer = 0]
    <2>1. H!Daemonic(r) BY <1>11 DEF H!MediaConnects
    <2>2. r \in Works /\ Alike(c, r) BY <1>1 DEF Works, Alike
    <2> HIDE DEF r
    <2>3. Keeps(c, r) BY <1>1, <2>2, AlikeKeeps
    <2> QED BY <1>4, <2>1, <2>3
  <1> QED BY <1>7, <1>8, <1>9, <1>10, <1>11 DEF H!Goroutines

-----------------------------------------------------------------------------
(* The firmware and the user.                                              *)

LEMMA PicoLoops ==
  ASSUME PhoneInv, NEW change \in {"lift", "cradle", "expire", "none"},
         NEW n \in 0 .. Len(toPico), H!LoopHook(change, n),
         UNCHANGED <<digitsd, leg, toPhone, toServer>>, hooks' \in Nat, ins' \in Nat
  PROVE  PhoneInv'
  <1>1. AtRest(pico) /\ toPico \in Seq(H!Commands) /\ toPi \in Seq(H!Events) /\ PhoneTypes
    BY DEF PhoneInv, PhoneTypes
  <1>2. /\ AtRest(pico')
        /\ ~ pico'.lost => ~ pico.lost
        /\ ~ OffHook(pico') => pico'.state \in {"IDLE", "RINGING"}
        /\ \E ev \in Seq(H!Events) :
             toPi' = toPi \o ev /\ (~ pico'.lost => Tells(pico, pico', ev))
        /\ ~ pico'.lost /\ ~ OffHook(pico) /\ ~ OffHook(pico') =>
             (pico'.state = "RINGING" <=>
                H!ProcessCommands(pico, SubSeq(toPico, 1, n)).state = "RINGING")
    BY <1>1, Iterated
  <1>3. PICK ev \in Seq(H!Events) :
          toPi' = toPi \o ev /\ (~ pico'.lost => Tells(pico, pico', ev))
    BY <1>2
  <1>4. toPico' = SubSeq(toPico, n + 1, Len(toPico)) BY DEF H!LoopHook
  <1>5. PhoneTypes'
    <2>1. toPi' \in Seq(H!Events) BY <1>1, <1>3
    <2>2. toPico' \in Seq(H!Commands) BY <1>1, <1>4
    <2> QED BY <1>1, <1>2, <2>1, <2>2 DEF PhoneTypes
  <1>6. ASSUME ~ pico'.lost PROVE Replay(toPi', HeardBy(digitsd'), HookOf(pico'))
    <2> DEFINE x == HeardBy(digitsd)
               y == HookOf(pico)
               z == HookOf(pico')
    <2>1. Replay(toPi, x, y) BY <1>2, <1>6 DEF PhoneInv, HookInv
    <2>2. Tells(pico, pico', ev) BY <1>3, <1>6
    <2>3. z \in {"on", "off"} BY DEF HookOf
    <2>4. CASE OffHook(pico) <=> OffHook(pico')
      <3>1. ev = <<>> /\ z = y BY <2>2, <2>4 DEF Tells, HookOf
      <3>2. toPi' = toPi BY <1>1, <1>3, <3>1
      <3> QED BY <2>1, <3>1, <3>2
    <2>5. CASE ~ (OffHook(pico) <=> OffHook(pico'))
      <3> DEFINE e == IF OffHook(pico') THEN "HOOK:OFF" ELSE "HOOK:ON"
      <3>1. ev = <<e>> /\ e \in H!Events /\ Leads(y, e, z)
        BY <2>2, <2>5 DEF Tells, HookOf, Leads, H!Events
      <3> HIDE DEF e, x, y, z
      <3>2. toPi' = Append(toPi, e) BY <1>1, <1>3, <3>1
      <3>3. Replay(Append(toPi, e), x, z) BY <1>1, <2>1, <2>3, <3>1, ReplayMore
      <3> QED BY <3>2, <3>3 DEF x, z
    <2> QED BY <2>4, <2>5
  <1>7. HookInv' BY <1>2, <1>6 DEF HookInv
  <1>8. ASSUME Settled' PROVE LastBell(toPico', pico'.state, digitsd'.state)
    <2>1. ~ pico'.lost /\ ~ OffHook(pico') /\ NoHook(toPi \o ev) /\ Tells(pico, pico', ev)
      BY <1>3, <1>8 DEF Settled, OffHook, NoHook
    <2>2. NoHook(toPi)
      <3>1. ASSUME NEW i \in 1 .. Len(toPi) PROVE toPi[i] \notin {"HOOK:OFF", "HOOK:ON"}
        <4>1. i \in 1 .. Len(toPi \o ev) /\ (toPi \o ev)[i] = toPi[i] BY <1>1
        <4> QED BY <2>1, <4>1 DEF NoHook
      <3> QED BY <3>1 DEF NoHook
    <2>3. OffHook(pico) <=> OffHook(pico')
      <3>1. SUFFICES ASSUME ~ (OffHook(pico) <=> OffHook(pico')) PROVE FALSE OBVIOUS
      <3>2. ev = <<"HOOK:ON">> BY <2>1, <3>1 DEF Tells
      <3>3. /\ Len(toPi) + 1 \in 1 .. Len(toPi \o ev)
            /\ (toPi \o ev)[Len(toPi) + 1] = "HOOK:ON"
        BY <1>1, <3>2
      <3> QED BY <2>1, <3>3 DEF NoHook
    <2>4. Settled BY <1>2, <2>1, <2>2, <2>3 DEF Settled
    <2> DEFINE q == pico'.state
               b == digitsd.state
    <2>5. pico \in Firmware /\ LastBell(toPico, pico.state, b)
      BY <1>1, <2>4 DEF AtRest, PhoneInv, BellInv
    <2>6. q = "RINGING" <=> H!ProcessCommands(pico, SubSeq(toPico, 1, n)).state = "RINGING"
      BY <1>2, <2>1, <2>3
    <2> HIDE DEF q, b
    <2>7. LastBell(SubSeq(toPico, n + 1, Len(toPico)), q, b)
      BY <1>1, <2>5, <2>6, BellServed
    <2> QED BY <1>4, <2>7 DEF q, b
  <1>9. CallInv' BY DEF PhoneInv, CallInv, Talks, HangsUp
  <1> QED BY <1>5, <1>7, <1>8, <1>9 DEF PhoneInv, BellInv

(* What is said of keys and time does not concern the hook.                *)
Chatter == {<<>>, <<"KEY">>, <<"KEY", "DIAL">>, <<"TIMEOUT:DIAL_TONE">>}

LEMMA ReplayChatter ==
  ASSUME NEW s \in Seq(H!Events), NEW x, NEW y \in {"on", "off"}, Replay(s, x, y),
         NEW ev \in Chatter
  PROVE  s \o ev \in Seq(H!Events) /\ Replay(s \o ev, x, y)
  <1>1. ASSUME NEW t \in Seq(H!Events), Replay(t, x, y),
               NEW e, e \in {"KEY", "DIAL", "TIMEOUT:DIAL_TONE"}
        PROVE  Append(t, e) \in Seq(H!Events) /\ Replay(Append(t, e), x, y)
    <2>1. e \in H!Events /\ Leads(y, e, y) BY <1>1 DEF H!Events, Leads
    <2> QED BY <1>1, <2>1, ReplayMore
  <1>2. CASE ev = <<>>
    <2>1. s \o ev = s BY <1>2
    <2> QED BY <2>1
  <1>3. CASE \E e \in {"KEY", "DIAL", "TIMEOUT:DIAL_TONE"} : ev = <<e>>
    <2>1. PICK e \in {"KEY", "DIAL", "TIMEOUT:DIAL_TONE"} : ev = <<e>> BY <1>3
    <2>2. s \o ev = Append(s, e) BY <2>1
    <2> QED BY <1>1, <2>2
  <1>4. CASE ev = <<"KEY", "DIAL">>
    <2> DEFINE key == "KEY"
               dial == "DIAL"
               t == Append(s, key)
               u == Append(t, dial)
               w == s \o ev
    <2>1. key \in H!Events /\ dial \in H!Events BY DEF H!Events
    <2>2. key \in {"KEY", "DIAL", "TIMEOUT:DIAL_TONE"} /\ dial \in {"KEY", "DIAL", "TIMEOUT:DIAL_TONE"}
      OBVIOUS
    <2>3. ev = <<key, dial>> /\ ev \in Seq(H!Events) /\ Len(ev) = 2 /\ ev[1] = key /\ ev[2] = dial
      BY <1>4, <2>1
    <2> HIDE DEF key, dial
    <2>4. t \in Seq(H!Events) /\ Replay(t, x, y) BY <1>1, <2>2
    <2>5. Len(t) = Len(s) + 1 /\ t[Len(s) + 1] = key /\ \A i \in 1 .. Len(s) : t[i] = s[i]
      BY <2>1
    <2> HIDE DEF t
    <2>6. u \in Seq(H!Events) /\ Replay(u, x, y) BY <1>1, <2>2, <2>4
    <2>7. w \in Seq(H!Events) /\ Len(w) = Len(s) + 2 BY <2>3
    <2>8. Len(u) = Len(w) BY <2>4, <2>5, <2>7
    <2>9. ASSUME NEW i \in 1 .. Len(u) PROVE u[i] = w[i]
      <3>1. CASE i \in 1 .. Len(s) BY <2>3, <2>4, <2>5, <3>1
      <3>2. CASE i = Len(s) + 1 BY <2>3, <2>4, <2>5, <3>2
      <3>3. CASE i = Len(s) + 2 BY <2>3, <2>4, <2>5, <3>3
      <3> QED BY <2>7, <2>8, <3>1, <3>2, <3>3
    <2> HIDE DEF u, w
    <2>10. u = w BY <2>6, <2>7, <2>8, <2>9, SeqEqual
    <2> QED BY <2>6, <2>10 DEF w
  <1> QED BY <1>2, <1>3, <1>4 DEF Chatter

LEMMA PicoChatters ==
  ASSUME PhoneInv, OffHook(pico), NEW p \in Firmware, p.event = "NONE", p.out \in Chatter,
         p.up = pico.up, p.window = pico.window, p.lost = pico.lost,
         H!Loop(p), UNCHANGED <<toPico, digitsd, leg, toPhone, toServer, hooks, ins>>
  PROVE  PhoneInv'
  <1>1. AtRest(pico) /\ toPi \in Seq(H!Events) BY DEF PhoneInv, PhoneTypes
  <1>2. AtRest(pico') /\ pico'.up = pico.up /\ pico'.window = pico.window /\ pico'.lost = pico.lost
    <2>1. pico' = [p EXCEPT !.out = <<>>] BY DEF H!Loop
    <2>2. <<>> \in Seq(H!Events) OBVIOUS
    <2> QED BY <1>1, <2>1, <2>2 DEF AtRest, Firmware
  <1>3. OffHook(pico') /\ HookOf(pico') = HookOf(pico) BY <1>2 DEF OffHook, HookOf
  <1>4. toPi' = toPi \o p.out /\ p.out \in Seq(H!Events) BY DEF H!Loop, Firmware
  <1>5. toPi' \in Seq(H!Events) BY <1>1, <1>4
  <1>6. PhoneTypes' BY <1>2, <1>5 DEF PhoneInv, PhoneTypes
  <1>7. ASSUME ~ pico'.lost PROVE Replay(toPi', HeardBy(digitsd'), HookOf(pico'))
    <2> DEFINE x == HeardBy(digitsd)
               y == HookOf(pico)
               ev == p.out
    <2>1. Replay(toPi, x, y) BY <1>2, <1>7 DEF PhoneInv, HookInv
    <2>2. y \in {"on", "off"} BY DEF HookOf
    <2> HIDE DEF x, y, ev
    <2>3. ev \in Chatter BY DEF ev
    <2>4. Replay(toPi \o ev, x, y) BY <1>1, <2>1, <2>2, <2>3, ReplayChatter
    <2> QED BY <1>3, <1>4, <2>4 DEF x, y, ev
  <1>8. HookInv' BY <1>3, <1>7 DEF HookInv
  <1>9. BellInv' BY <1>3 DEF BellInv, Settled
  <1>10. CallInv' BY DEF PhoneInv, CallInv, Talks, HangsUp
  <1> QED BY <1>6, <1>8, <1>9, <1>10 DEF PhoneInv

LEMMA KeyPressed ==
  ASSUME NEW p, AtRest(p), NEW q, q = H!process_key(p)
  PROVE  /\ q \in Firmware /\ q.event = "NONE" /\ q.out \in Chatter
         /\ q.up = p.up /\ q.window = p.window /\ q.lost = p.lost
  <1> DEFINE key == "KEY"
             dial == "DIAL"
             a == IF p.state = "DIAL_TONE" THEN H!set_state(p, "DIALING") ELSE p
             k == H!uart_proto_send(a, key)
             d == [k EXCEPT !.digits = IF @ < DigitsRequired THEN @ + 1 ELSE @]
             e == H!uart_proto_send(d, dial)
  <1>1. /\ a \in Firmware /\ a.event = "NONE" /\ a.out = <<>>
        /\ a.up = p.up /\ a.window = p.window /\ a.lost = p.lost
    BY DEF AtRest, Firmware, H!set_state, H!PicoStates
  <1>2. key \in H!Events /\ dial \in H!Events BY DEF H!Events
  <1>3. q \in {a, k, d, [e EXCEPT !.sent = TRUE]} BY DEF H!process_key
  <1> HIDE DEF a, key, dial
  <1>4. /\ k \in Firmware /\ k.event = "NONE" /\ k.out = <<key>>
        /\ k.up = p.up /\ k.window = p.window /\ k.lost = p.lost
    <2> DEFINE s == Append(a.out, key)
    <2>1. s = <<key>> BY <1>1
    <2>2. s \in Seq(H!Events) BY <1>1, <1>2
    <2>3. k = [a EXCEPT !.out = s] BY DEF H!uart_proto_send
    <2> HIDE DEF s
    <2> QED BY <1>1, <2>1, <2>2, <2>3 DEF Firmware
  <1> HIDE DEF k
  <1>5. /\ d \in Firmware /\ d.event = "NONE" /\ d.out = <<key>>
        /\ d.up = p.up /\ d.window = p.window /\ d.lost = p.lost
    <2> DEFINE m == IF k.digits < DigitsRequired THEN k.digits + 1 ELSE k.digits
    <2>1. m \in Nat BY <1>4 DEF Firmware
    <2>2. d = [k EXCEPT !.digits = m] OBVIOUS
    <2> HIDE DEF m
    <2> QED BY <1>4, <2>1, <2>2 DEF Firmware
  <1> HIDE DEF d
  <1>6. /\ e \in Firmware /\ e.event = "NONE" /\ e.out = <<key, dial>>
        /\ e.up = p.up /\ e.window = p.window /\ e.lost = p.lost
    <2> DEFINE s == Append(d.out, dial)
    <2>1. s = <<key, dial>>
      <3>1. Append(<<key>>, dial) = <<key, dial>> BY <1>2, Pair
      <3> QED BY <1>5, <3>1
    <2>2. s \in Seq(H!Events) BY <1>2, <1>5
    <2>3. e = [d EXCEPT !.out = s] BY DEF H!uart_proto_send
    <2> HIDE DEF s
    <2> QED BY <1>5, <2>1, <2>2, <2>3 DEF Firmware
  <1> HIDE DEF e
  <1> DEFINE f == [e EXCEPT !.sent = TRUE]
  <1>7. /\ f \in Firmware /\ f.event = "NONE" /\ f.out = <<key, dial>>
        /\ f.up = p.up /\ f.window = p.window /\ f.lost = p.lost
    BY <1>6 DEF Firmware
  <1>8. <<>> \in Chatter /\ <<key>> \in Chatter /\ <<key, dial>> \in Chatter
    BY DEF Chatter, key, dial
  <1> HIDE DEF f
  <1>9. q \in {a, k, d, f} BY <1>3 DEF f
  <1> QED BY <1>1, <1>4, <1>5, <1>7, <1>8, <1>9

LEMMA KeyStep == ASSUME PhoneInv, H!UserKeys PROVE PhoneInv'
  <1> DEFINE p == H!process_key(pico)
  <1>1. /\ pico.state \in {"DIAL_TONE", "DIALING", "CONNECTED"} /\ H!Loop(p)
        /\ UNCHANGED <<toPico, digitsd, leg, toPhone, toServer, hooks, ins>>
    BY DEF H!UserKeys, H!LoopKey, H!serverVars
  <1> HIDE DEF p
  <1>2. AtRest(pico) /\ OffHook(pico) BY <1>1 DEF PhoneInv, PhoneTypes, HookInv
  <1>3. /\ p \in Firmware /\ p.event = "NONE" /\ p.out \in Chatter
        /\ p.up = pico.up /\ p.window = pico.window /\ p.lost = pico.lost
    BY <1>2, KeyPressed DEF p
  <1> QED BY <1>1, <1>2, <1>3, PicoChatters

LEMMA TimeoutStep == ASSUME PhoneInv, H!PicoTimesOut PROVE PhoneInv'
  <1> DEFINE line == "TIMEOUT:DIAL_TONE"
             a == H!uart_proto_send(pico, line)
             p == H!set_state(a, "BUSY")
  <1>1. /\ pico.state \in {"DIAL_TONE", "DIALING"} /\ H!Loop(p)
        /\ UNCHANGED <<toPico, digitsd, leg, toPhone, toServer, hooks, ins>>
    BY DEF H!PicoTimesOut, H!LoopTimeout, H!serverVars
  <1>2. AtRest(pico) /\ OffHook(pico) BY <1>1 DEF PhoneInv, PhoneTypes, HookInv
  <1>3. line \in H!Events /\ <<line>> \in Chatter BY DEF H!Events, Chatter
  <1> HIDE DEF line
  <1>4. /\ a \in Firmware /\ a.event = "NONE" /\ a.out = <<line>>
        /\ a.up = pico.up /\ a.window = pico.window /\ a.lost = pico.lost
    <2> DEFINE s == Append(pico.out, line)
    <2>1. s = <<line>> BY <1>2 DEF AtRest
    <2>2. s \in Seq(H!Events) BY <1>3, <2>1
    <2>3. a = [pico EXCEPT !.out = s] BY DEF H!uart_proto_send
    <2> HIDE DEF s
    <2> QED BY <1>2, <2>1, <2>2, <2>3 DEF AtRest, Firmware
  <1> HIDE DEF a
  <1>5. /\ p \in Firmware /\ p.event = "NONE" /\ p.out \in Chatter
        /\ p.up = pico.up /\ p.window = pico.window /\ p.lost = pico.lost
    BY <1>3, <1>4 DEF H!set_state, Firmware, H!PicoStates
  <1> HIDE DEF p
  <1> QED BY <1>1, <1>2, <1>5, PicoChatters

-----------------------------------------------------------------------------
(* The server and the other party.                                         *)

LEMMA LineMoves ==
  ASSUME PhoneInv, leg' \in [call : Nat, offered : BOOLEAN, answered : BOOLEAN],
         leg'.answered \/ leg'.call > MaxIn => leg.answered \/ leg.call > MaxIn,
         NEW m \in Signals, toPhone' = Append(toPhone, m), ins' \in Nat,
         UNCHANGED <<pico, toPico, toPi, digitsd, toServer, hooks>>
  PROVE  PhoneInv'
  <1>1. PhoneTypes'
    <2>1. toPhone' \in Seq(Signals) BY DEF PhoneInv, PhoneTypes
    <2> QED BY <2>1 DEF PhoneInv, PhoneTypes, AtRest
  <1>2. HookInv' BY DEF PhoneInv, HookInv, HookOf, HeardBy, OffHook
  <1>3. BellInv' BY DEF PhoneInv, BellInv, Settled, OffHook
  <1>4. CallInv' BY DEF PhoneInv, CallInv, Talks, HangsUp
  <1> QED BY <1>1, <1>2, <1>3, <1>4 DEF PhoneInv

LEMMA LineStep ==
  ASSUME MaxIn \in Nat, PhoneInv,
         \/ H!CallComes \/ H!OfferComes \/ H!CalleeAnswers
         \/ \E timeout \in BOOLEAN : H!OtherHangsUp(timeout)
  PROVE  PhoneInv'
  <1>1. leg \in [call : Nat, offered : BOOLEAN, answered : BOOLEAN] /\ ins \in Nat
    BY DEF PhoneInv, PhoneTypes
  <1>2. ASSUME NEW type \in {"ring", "sdp", "answer", "hangup"}, NEW call \in Nat
        PROVE  H!Msg(type, call) \in Signals
    BY DEF H!Msg, Signals, Letters
  <1>3. CASE H!CallComes
    <2> DEFINE type == "ring"
               m == H!Msg(type, ins + 1)
    <2>1. type \in {"ring", "sdp", "answer", "hangup"} OBVIOUS
    <2>2. /\ leg' = [H!NoLeg EXCEPT !.call = ins + 1] /\ toPhone' = Append(toPhone, m)
          /\ ins < MaxIn /\ ins' = ins + 1
          /\ UNCHANGED <<pico, toPico, toPi, digitsd, toServer, hooks>>
      BY <1>3 DEF H!CallComes, H!Tell, H!picoVars
    <2> HIDE DEF type
    <2>3. m \in Signals BY <1>1, <1>2, <2>1
    <2>4. /\ leg' \in [call : Nat, offered : BOOLEAN, answered : BOOLEAN]
          /\ ~ leg'.answered /\ ~ (leg'.call > MaxIn) /\ ins' \in Nat
      <3>1. ins + 1 \in Nat /\ ~ (ins + 1 > MaxIn) BY <1>1, <2>2
      <3> DEFINE n == ins + 1
      <3>2. leg' = [H!NoLeg EXCEPT !.call = n] /\ ins' = n BY <2>2
      <3> HIDE DEF n
      <3>3. n \in Nat /\ ~ (n > MaxIn) BY <3>1 DEF n
      <3>4. /\ leg' \in [call : Nat, offered : BOOLEAN, answered : BOOLEAN]
            /\ leg'.answered = FALSE /\ leg'.call = n
        BY <3>2, <3>3 DEF H!NoLeg
      <3> QED BY <3>2, <3>3, <3>4
    <2> HIDE DEF m
    <2> QED BY <2>2, <2>3, <2>4, LineMoves
  <1>4. CASE H!OfferComes
    <2> DEFINE type == "sdp"
               m == H!Msg(type, leg.call)
    <2>1. type \in {"ring", "sdp", "answer", "hangup"} OBVIOUS
    <2>2. /\ leg' = [leg EXCEPT !.offered = TRUE] /\ toPhone' = Append(toPhone, m)
          /\ UNCHANGED <<pico, toPico, toPi, digitsd, toServer, hooks, ins>>
      BY <1>4 DEF H!OfferComes, H!Tell, H!picoVars
    <2> HIDE DEF type
    <2>3. m \in Signals BY <1>1, <1>2, <2>1
    <2>4. /\ leg' \in [call : Nat, offered : BOOLEAN, answered : BOOLEAN]
          /\ leg'.answered = leg.answered /\ leg'.call = leg.call /\ ins' \in Nat
      BY <1>1, <2>2
    <2> HIDE DEF m
    <2> QED BY <2>2, <2>3, <2>4, LineMoves
  <1>5. CASE H!CalleeAnswers
    <2> DEFINE type == "answer"
               m == H!Msg(type, leg.call)
    <2>1. type \in {"ring", "sdp", "answer", "hangup"} OBVIOUS
    <2>2. /\ leg' = [leg EXCEPT !.answered = TRUE] /\ toPhone' = Append(toPhone, m)
          /\ leg.call \notin (1 .. MaxIn) \cup {0}
          /\ UNCHANGED <<pico, toPico, toPi, digitsd, toServer, hooks, ins>>
      BY <1>5 DEF H!CalleeAnswers, H!Tell, H!picoVars, H!InCalls
    <2> HIDE DEF type
    <2>3. m \in Signals BY <1>1, <1>2, <2>1
    <2>4. /\ leg' \in [call : Nat, offered : BOOLEAN, answered : BOOLEAN]
          /\ leg.call > MaxIn /\ ins' \in Nat
      <3>1. leg' \in [call : Nat, offered : BOOLEAN, answered : BOOLEAN] BY <1>1, <2>2
      <3>2. leg.call \in Nat /\ leg.call \notin 1 .. MaxIn /\ leg.call # 0 BY <1>1, <2>2
      <3>3. leg.call > MaxIn BY <3>2
      <3> QED BY <1>1, <2>2, <3>1, <3>3
    <2> HIDE DEF m
    <2> QED BY <2>2, <2>3, <2>4, LineMoves
  <1>6. ASSUME NEW timeout \in BOOLEAN, H!OtherHangsUp(timeout) PROVE PhoneInv'
    <2> DEFINE type == "hangup"
               a == H!Msg(type, leg.call)
               m == [a EXCEPT !.timeout = timeout]
    <2>1. type \in {"ring", "sdp", "answer", "hangup"} OBVIOUS
    <2>2. /\ leg' = H!NoLeg /\ toPhone' = Append(toPhone, m)
          /\ UNCHANGED <<pico, toPico, toPi, digitsd, toServer, hooks, ins>>
      BY <1>6 DEF H!OtherHangsUp, H!Tell, H!picoVars
    <2> HIDE DEF type
    <2>3. a \in Signals BY <1>1, <1>2, <2>1
    <2> HIDE DEF a
    <2>4. m \in Signals BY <2>3 DEF Signals, Letters
    <2>5. /\ leg' \in [call : Nat, offered : BOOLEAN, answered : BOOLEAN]
          /\ ~ leg'.answered /\ ~ (leg'.call > MaxIn) /\ ins' \in Nat
      BY <1>1, <2>2 DEF H!NoLeg
    <2> HIDE DEF m
    <2> QED BY <2>2, <2>4, <2>5, LineMoves
  <1> QED BY <1>3, <1>4, <1>5, <1>6

LEMMA ServerStep == ASSUME MaxIn \in Nat, PhoneInv, H!ServerHandles PROVE PhoneInv'
  <1> DEFINE m == Head(toServer)
             t == Tail(toServer)
             Talking == Talks(digitsd)
  <1>1. /\ toServer \in Seq(Letters) /\ toPhone \in Seq(Signals)
        /\ leg \in [call : Nat, offered : BOOLEAN, answered : BOOLEAN]
    BY DEF PhoneInv, PhoneTypes
  <1>2. /\ toServer # <<>> /\ toServer' = t
        /\ UNCHANGED <<pico, toPico, toPi, digitsd, hooks, ins>>
        /\ \/ /\ m.type = "hangup" /\ leg' = H!NoLeg
              /\ UNCHANGED toPhone
           \/ /\ m.type = "answer" /\ UNCHANGED toPhone
              /\ leg' = IF leg.call = m.call THEN [leg EXCEPT !.answered = TRUE] ELSE leg
           \/ /\ m.type = "call" /\ UNCHANGED toPhone
              /\ leg' = [H!NoLeg EXCEPT !.call = m.call, !.offered = TRUE]
           \/ /\ UNCHANGED leg /\ m.type = "call"
              /\ \E type \in {"busy", "error"} : toPhone' = Append(toPhone, H!Msg(type, m.call))
    BY DEF H!ServerHandles, H!Tell, H!picoVars
  <1>3. /\ Len(toServer) \in Nat \ {0} /\ m = toServer[1] /\ m \in Letters
        /\ t \in Seq(Letters) /\ Len(t) = Len(toServer) - 1
        /\ \A i \in 1 .. Len(t) : t[i] = toServer[i + 1]
    BY <1>1, <1>2
  <1> HIDE DEF m, t
  <1>4. toPhone' \in Seq(Signals)
    <2>1. ASSUME NEW type \in {"busy", "error"} PROVE H!Msg(type, m.call) \in Signals
      BY <1>3 DEF H!Msg, Signals, Letters
    <2>2. CASE UNCHANGED toPhone BY <1>1, <2>2
    <2>3. CASE \E type \in {"busy", "error"} : toPhone' = Append(toPhone, H!Msg(type, m.call))
      <3>1. PICK type \in {"busy", "error"} : toPhone' = Append(toPhone, H!Msg(type, m.call))
        BY <2>3
      <3> DEFINE e == H!Msg(type, m.call)
      <3>2. e \in Signals BY <2>1
      <3> HIDE DEF e
      <3> QED BY <1>1, <3>1, <3>2 DEF e
    <2> QED BY <1>2, <2>2, <2>3
  <1>5. leg' \in [call : Nat, offered : BOOLEAN, answered : BOOLEAN]
    <2> DEFINE Legs == [call : Nat, offered : BOOLEAN, answered : BOOLEAN]
               placed == [H!NoLeg EXCEPT !.call = m.call, !.offered = TRUE]
               picked == [leg EXCEPT !.answered = TRUE]
    <2>1. m.call \in Nat BY <1>3 DEF Letters
    <2>2. H!NoLeg \in Legs BY DEF H!NoLeg
    <2>3. placed \in Legs BY <2>1, <2>2 DEF H!NoLeg
    <2>4. picked \in Legs BY <1>1
    <2>5. leg \in Legs BY <1>1
    <2>6. leg' \in {H!NoLeg, placed, picked, leg} BY <1>2
    <2> HIDE DEF Legs, placed, picked
    <2>7. leg' \in Legs BY <2>2, <2>3, <2>4, <2>5, <2>6
    <2> QED BY <2>7 DEF Legs
  <1>6. PhoneTypes'
    BY <1>2, <1>3, <1>4, <1>5 DEF PhoneInv, PhoneTypes, AtRest
  <1>7. HookInv' BY <1>2 DEF PhoneInv, HookInv, HookOf, HeardBy, OffHook
  <1>8. BellInv' BY <1>2 DEF PhoneInv, BellInv, Settled, OffHook
  <1>9. CallInv'
    <2>1. ASSUME NEW i \in 1 .. Len(toServer), HangsUp(toServer, i) PROVE HangsUp(t, i - 1)
      <3>1. PICK j \in 1 .. Len(toServer) : i < j /\ toServer[j].type = "hangup"
        BY <2>1 DEF HangsUp
      <3>2. j - 1 \in 1 .. Len(t) /\ i - 1 < j - 1 /\ (j - 1) + 1 = j BY <1>3, <3>1
      <3>3. t[j - 1].type = "hangup" BY <1>3, <3>1, <3>2
      <3> QED BY <3>2, <3>3 DEF HangsUp
    <2>2. 1 \in 1 .. Len(toServer) /\ 1 - 1 = 0 BY <1>3
    <2>3. m.type \in {"call", "answer"} => Talking \/ HangsUp(t, 0)
      <3>1. m.type \in {"call", "answer"} => Talking \/ HangsUp(toServer, 1)
        BY <1>3, <2>2 DEF PhoneInv, CallInv
      <3>2. HangsUp(toServer, 1) => HangsUp(t, 1 - 1) BY <2>1, <2>2
      <3> QED BY <2>2, <3>1, <3>2
    <2>4. m.type # "hangup" /\ (leg.answered \/ leg.call > MaxIn) => Talking \/ HangsUp(t, 0)
      <3>1. ASSUME m.type # "hangup", HangsUp(toServer, 0) PROVE HangsUp(t, 0)
        <4>1. PICK j \in 1 .. Len(toServer) : 0 < j /\ toServer[j].type = "hangup"
          BY <3>1 DEF HangsUp
        <4>2. j # 1 BY <1>3, <3>1, <4>1
        <4>3. j - 1 \in 1 .. Len(t) /\ 0 < j - 1 /\ (j - 1) + 1 = j BY <1>3, <4>1, <4>2
        <4>4. t[j - 1].type = "hangup" BY <1>3, <4>1, <4>3
        <4> QED BY <4>3, <4>4 DEF HangsUp
      <3> QED BY <3>1 DEF PhoneInv, CallInv
    <2>5. leg'.answered \/ leg'.call > MaxIn => Talking \/ HangsUp(t, 0)
      <3>1. CASE m.type = "hangup"
        <4>1. leg' = H!NoLeg BY <1>2, <3>1
        <4>2. ~ leg'.answered /\ leg'.call = 0 BY <4>1 DEF H!NoLeg
        <4>3. ~ (leg'.call > MaxIn) BY <4>2
        <4> QED BY <4>2, <4>3
      <3>2. CASE m.type \in {"call", "answer"} BY <2>3, <3>2
      <3> QED BY <1>2, <3>1, <3>2
    <2>6. ASSUME NEW i \in 1 .. Len(t), t[i].type \in {"call", "answer"}
          PROVE  Talking \/ HangsUp(t, i)
      <3>1. i + 1 \in 1 .. Len(toServer) /\ (i + 1) - 1 = i BY <1>3
      <3>2. toServer[i + 1].type \in {"call", "answer"} BY <1>3, <2>6
      <3>3. Talking \/ HangsUp(toServer, i + 1) BY <3>1, <3>2 DEF PhoneInv, CallInv
      <3>4. HangsUp(toServer, i + 1) => HangsUp(t, (i + 1) - 1) BY <2>1, <3>1
      <3> QED BY <3>1, <3>3, <3>4
    <2>7. Talking <=> Talks(digitsd') BY <1>2 DEF Talks
    <2>8. digitsd'.peer # 0 => Talking BY <1>2 DEF PhoneInv, CallInv
    <2> HIDE DEF Talking
    <2> QED BY <1>2, <2>5, <2>6, <2>7, <2>8 DEF CallInv, HangsUp, Talks
  <1> QED BY <1>6, <1>7, <1>8, <1>9 DEF PhoneInv

-----------------------------------------------------------------------------
(* The invariant holds at the start and through every step.                *)

LEMMA HandsetStart == ASSUME H!Init PROVE PhoneInv
  <1>1. /\ pico = [state |-> "IDLE", digits |-> 0, sent |-> FALSE, up |-> FALSE,
                   window |-> FALSE, flash |-> FALSE, event |-> "NONE", lost |-> FALSE,
                   out |-> <<>>]
        /\ digitsd = [state |-> "IDLE", pendingCaller |-> 0, pendingOffer |-> 0, preAnswer |-> 0,
                      peer |-> 0, timer |-> 0, attempt |-> 0, tasks |-> {}, cmds |-> <<>>,
                      msgs |-> <<>>]
        /\ leg = [call |-> 0, offered |-> FALSE, answered |-> FALSE]
        /\ toPico = <<>> /\ toPi = <<>> /\ toPhone = <<>> /\ toServer = <<>>
        /\ hooks = 0 /\ ins = 0
    BY DEF H!Init, H!PicoInit, H!NoLeg
  <1>2. <<>> \in Seq(H!Events) /\ <<>> \in Seq(H!Commands) /\ <<>> \in Seq(Letters)
        /\ <<>> \in Seq(Signals)
    OBVIOUS
  <1>3. AtRest(pico) BY <1>1, <1>2 DEF AtRest, Firmware, H!PicoStates, H!HookEvents
  <1>4. digitsd \in Works /\ digitsd.cmds = <<>> /\ digitsd.msgs = <<>>
    BY <1>1, <1>2 DEF Works, H!States
  <1>5. leg \in [call : Nat, offered : BOOLEAN, answered : BOOLEAN] BY <1>1
  <1>6. PhoneTypes BY <1>1, <1>2, <1>3, <1>4, <1>5 DEF PhoneTypes
  <1>7. HeardBy(digitsd) = "on" /\ HookOf(pico) = "on" BY <1>1 DEF HeardBy, HookOf, OffHook
  <1>8. Replay(<<>>, "on", "on")
    <2> DEFINE h == [i \in 0 .. 0 |-> "on"]
    <2>1. h \in [0 .. Len(<<>>) -> {"on", "off"}] /\ h[0] = "on" /\ h[Len(<<>>)] = "on" OBVIOUS
    <2>2. 1 .. Len(<<>>) = {} OBVIOUS
    <2> HIDE DEF h
    <2> QED BY <2>1, <2>2 DEF Replay
  <1>9. HookInv BY <1>1, <1>7, <1>8 DEF HookInv
  <1>10. BellInv
    <2>1. LastBell(<<>>, "IDLE", "IDLE") BY DEF LastBell
    <2>2. pico.state = "IDLE" /\ digitsd.state = "IDLE" /\ toPico = <<>> BY <1>1
    <2> QED BY <2>1, <2>2 DEF BellInv
  <1>11. CallInv
    <2>1. digitsd.peer = 0 /\ ~ leg.answered /\ leg.call = 0 /\ 1 .. Len(toServer) = {}
      BY <1>1
    <2>2. ~ (leg.call > MaxIn) BY <2>1, HandsetAssumption
    <2> QED BY <2>1, <2>2 DEF CallInv
  <1> QED BY <1>6, <1>9, <1>10, <1>11 DEF PhoneInv

LEMMA HandsetInductive == PhoneInv /\ [H!Next]_(H!vars) => PhoneInv'
  <1> SUFFICES ASSUME PhoneInv, [H!Next]_(H!vars) PROVE PhoneInv'
    OBVIOUS
  <1>1. MaxIn \in Nat BY HandsetAssumption
  <1>2. hooks \in Nat /\ hooks + 1 \in Nat /\ ins \in Nat BY DEF PhoneInv, PhoneTypes
  <1>3. CASE UNCHANGED H!vars
    <2>1. UNCHANGED <<pico, toPico, toPi, digitsd, leg, toPhone, toServer, hooks, ins>>
      BY <1>3 DEF H!vars, H!picoVars, H!serverVars
    <2> QED BY <2>1 DEF PhoneInv, PhoneTypes, AtRest, HookInv, HookOf, HeardBy, OffHook,
                        BellInv, Settled, CallInv, Talks, HangsUp
  <1>4. ASSUME NEW change \in {"lift", "cradle"}, NEW n \in 0 .. Len(toPico),
               H!UserMoves(change, n)
        PROVE  PhoneInv'
    <2>1. /\ change \in {"lift", "cradle", "expire", "none"} /\ H!LoopHook(change, n)
          /\ UNCHANGED <<digitsd, leg, toPhone, toServer>> /\ hooks' \in Nat /\ ins' \in Nat
      BY <1>2, <1>4 DEF H!UserMoves, H!serverVars
    <2> QED BY <2>1, PicoLoops
  <1>5. ASSUME NEW change \in {"none", "expire"}, NEW n \in 0 .. Len(toPico),
               H!PicoRuns(change, n)
        PROVE  PhoneInv'
    <2>1. /\ change \in {"lift", "cradle", "expire", "none"} /\ H!LoopHook(change, n)
          /\ UNCHANGED <<digitsd, leg, toPhone, toServer>> /\ hooks' \in Nat /\ ins' \in Nat
      BY <1>2, <1>5 DEF H!PicoRuns, H!serverVars
    <2> QED BY <2>1, PicoLoops
  <1>6. CASE H!Environment BY <1>1, <1>4, <1>6, KeyStep, LineStep DEF H!Environment
  <1>7. CASE H!PicoStep BY <1>5, <1>7, TimeoutStep DEF H!PicoStep
  <1>8. CASE H!DaemonStep BY <1>1, <1>8, EventStep, SignalStep DEF H!DaemonStep
  <1>9. CASE H!Goroutines BY <1>1, <1>9, GoroutineStep
  <1>10. CASE H!ServerHandles BY <1>1, <1>10, ServerStep
  <1> QED BY <1>3, <1>6, <1>7, <1>8, <1>9, <1>10 DEF H!Next

\* What the invariant says once the wires are quiet.
LEMMA QuietWires ==
  ASSUME PhoneInv, ~ pico.lost, toPi = <<>>
  PROVE  /\ HeardBy(digitsd) = HookOf(pico)
         /\ toPico = <<>> /\ ~ OffHook(pico) => digitsd.state = pico.state
  <1>1. HeardBy(digitsd) = HookOf(pico)
    <2> DEFINE x == HeardBy(digitsd)
               y == HookOf(pico)
    <2>1. toPi \in Seq(H!Events) /\ Replay(toPi, x, y) /\ NoHook(toPi)
      BY DEF PhoneInv, PhoneTypes, HookInv, NoHook
    <2> HIDE DEF x, y
    <2>2. x = y BY <2>1, ReplayStill
    <2> QED BY <2>2 DEF x, y
  <1>2. ASSUME toPico = <<>>, ~ OffHook(pico) PROVE digitsd.state = pico.state
    <2>1. LastBell(toPico, pico.state, digitsd.state)
      BY <1>2 DEF PhoneInv, BellInv, Settled, NoHook
    <2>2. pico.state = "RINGING" <=> digitsd.state = "RINGING" BY <1>2, <2>1 DEF LastBell
    <2>3. pico.state \in {"IDLE", "RINGING"} BY <1>2 DEF PhoneInv, HookInv
    <2>4. digitsd.state \in {"IDLE", "RINGING"} BY <1>1, <1>2 DEF HeardBy, HookOf
    <2> QED BY <2>2, <2>3, <2>4
  <1> QED BY <1>1, <1>2

(* Once the UART is quiet the controller and the firmware agree on a       *)
(* cradled phone, idle or ringing, and the controller has given a lifted   *)
(* one a dial tone, a call or a treatment: the firmware reports every      *)
(* change of the hook, the one a closed flash window held back included    *)
(* (hook.c, phone_fsm.c), and the controller acts on each report           *)
(* (controller.go, onHookOff, onHookOn).                                   *)
THEOREM HandsetIsFollowed == H!Init /\ [][H!Next]_(H!vars) => []ControllerFollowsHook
  <1>1. H!Init => PhoneInv BY HandsetStart
  <1>2. PhoneInv => ControllerFollowsHook
    <2> SUFFICES ASSUME PhoneInv PROVE H!ControllerFollowsHook BY DEF ControllerFollowsHook
    <2>1. H!CradledPhoneIsIdle
      <3> SUFFICES ASSUME toPi = <<>>, toPico = <<>>, ~ OffHook(pico), ~ pico.lost
                   PROVE  digitsd.state \in {"IDLE", "RINGING"} /\ digitsd.state = pico.state
        BY DEF H!CradledPhoneIsIdle, H!WiresQuiet, H!Cradled, OffHook
      <3>1. digitsd.state = pico.state BY QuietWires
      <3>2. pico.state \in {"IDLE", "RINGING"} BY DEF PhoneInv, HookInv
      <3> QED BY <3>1, <3>2
    <2>2. H!LiftedPhoneIsServed
      <3> SUFFICES ASSUME toPi = <<>>, pico.up, ~ pico.lost
                   PROVE  digitsd.state \notin {"IDLE", "RINGING"}
        BY DEF H!LiftedPhoneIsServed, H!WiresQuiet
      <3>1. HeardBy(digitsd) = HookOf(pico) BY QuietWires
      <3> QED BY <3>1 DEF HeardBy, HookOf, OffHook
    <2> QED BY <2>1, <2>2 DEF H!ControllerFollowsHook
  <1> QED BY <1>1, <1>2, HandsetInductive, PTL

(* When everything under way has arrived, a cradled phone holds no peer    *)
(* and its line no answered call: a call the dial delay places, one that   *)
(* is answered and one that a deadline fails are each followed by the      *)
(* hangup of whoever leaves it (controller.go, initiateCallAfterDelay;      *)
(* webrtc.go, HangupCall, connectDeadline).                                *)
THEOREM CradledPhoneIsAlone == H!Init /\ [][H!Next]_(H!vars) => []NobodyOnACradledPhone
  <1>1. H!Init => PhoneInv BY HandsetStart
  <1>2. PhoneInv => NobodyOnACradledPhone
    <2> SUFFICES ASSUME PhoneInv, toPi = <<>>, toServer = <<>>, ~ OffHook(pico), ~ pico.lost
                 PROVE  digitsd.peer = 0 /\ ~ leg.answered
      BY DEF NobodyOnACradledPhone, H!NobodyOnACradledPhone, H!WiresQuiet, H!NetQuiet, H!Cradled,
             OffHook
    <2>1. HeardBy(digitsd) = HookOf(pico) BY QuietWires
    <2>2. ~ Talks(digitsd) BY <2>1 DEF HeardBy, HookOf, Talks
    <2>3. ~ HangsUp(toServer, 0) BY DEF HangsUp
    <2> QED BY <2>2, <2>3 DEF PhoneInv, CallInv
  <1> QED BY <1>1, <1>2, HandsetInductive, PTL
=============================================================================
