-------------------------- MODULE VoicemailProofs --------------------------
(***************************************************************************)
(* Proofs about the answering machine: its state is well typed, a recorder *)
(* belongs to the call in progress and is never replaced unfinished, the   *)
(* store implements the mailbox, and the count of unheard messages that    *)
(* the server shows is the last one or on its way.                         *)
(*                                                                         *)
(* Handlers are operators from daemon state to daemon state, so the lemmas *)
(* say of each what it does to the part of the state the mailbox depends   *)
(* on: the two files of every message, the recorder, the recordings begun. *)
(***************************************************************************)
EXTENDS Voicemail, FiniteSetTheorems, TLAPS

(* The recording under way is the last one begun.  A frames file has the   *)
(* number of an earlier one, and what is not recorded yet is not heard.    *)
DiskOK(k, rec, begun) ==
  /\ rec \in {0, begun}
  /\ k.frames \subseteq {id \in Ids : id <= begun /\ id # rec}
  /\ \A id \in Ids : id = rec \/ id > begun => k.meta[id] # "heard"

(* A session plays a message and not the recording under way.              *)
StoreOK(c) ==
  /\ DiskOK(c.disk, c.rec, c.begun)
  /\ c.sess.id <= c.begun /\ (c.sess.id # 0 => c.sess.id # c.rec)

(* A recorder needs a peer, and a call that has its peer no longer has its *)
(* offer.                                                                  *)
CallOK(c) ==
  /\ c.rec # 0 => c.peer # 0
  /\ c.peer # 0 => c.offer = 0
  /\ c.frames < MaxFrames

Inv(c) == c \in Daemon /\ StoreOK(c) /\ CallOK(c)

IInv == TypeOK /\ Inv(d)

Outcomes == {"ok", "lost", "bare", "kept"}

(* What the mailbox depends on is as it was.                               *)
Same(c, e) ==
  /\ e.disk.frames = c.disk.frames /\ e.disk.meta = c.disk.meta
  /\ e.rec = c.rec /\ e.begun = c.begun

(* ... and so are the session and the call.                                *)
Idle(c, e) ==
  /\ e \in Daemon
  /\ Same(c, e)
  /\ e.peer = c.peer /\ e.offer = c.offer /\ e.frames = c.frames

(* The mailbox of a disk, a recorder and the recordings begun.             *)
BoxOf(k, rec, begun) ==
  [id \in Ids |-> CASE id \in k.frames /\ Heard(k, id)   -> "heard"
                    [] id \in k.frames /\ ~ Heard(k, id) -> "unheard"
                    [] id \notin k.frames /\ (id = rec \/ id > begun) -> "none"
                    [] id \notin k.frames /\ ~ (id = rec \/ id > begun) -> "gone"]

Box(c) == BoxOf(c.disk, c.rec, c.begun)

(* A step of the mailbox, or none.                                         *)
KeptIn(a) == {id \in Ids : a[id] \in {"unheard", "heard"}}

Stores(a, b, id, Gone) ==
  /\ a[id] = "none"
  /\ Gone \subseteq KeptIn(a)
  /\ \A old \in Gone, young \in KeptIn(a) \ Gone : old < young
  /\ Gone # {} => Cardinality(KeptIn(a) \ Gone) < MaxMessages
  /\ b = [m \in Ids |-> CASE m = id -> "unheard" [] m \in Gone -> "gone" [] OTHER -> a[m]]

BoxStep(a, b) ==
  \/ b = a
  \/ \E id \in Ids :
       \/ a[id] = "none" /\ b = [a EXCEPT ![id] = "gone"]
       \/ a[id] = "unheard" /\ b = [a EXCEPT ![id] = "heard"]
       \/ id \in KeptIn(a) /\ b = [a EXCEPT ![id] = "gone"]
       \/ \E Gone \in SUBSET Ids : Stores(a, b, id, Gone)

-----------------------------------------------------------------------------
(* Steps that leave the store alone.                                       *)

LEMMA SameBox ==
  ASSUME NEW c, NEW e, Same(c, e)
  PROVE  Box(e) = Box(c)
  BY DEF Same, Box, BoxOf, Heard

LEMMA IdleKeeps ==
  ASSUME NEW c, NEW e, Inv(c), Idle(c, e), e.sess = c.sess \/ e.sess = NoSession
  PROVE  Inv(e)
  <1>1. StoreOK(e) BY DEF Idle, Inv, StoreOK, DiskOK, Same, NoSession, Daemon
  <1>2. CallOK(e) BY DEF Idle, Inv, CallOK, Same
  <1> QED BY <1>1, <1>2 DEF Idle, Inv

LEMMA Zero == 0 \in Callers
  BY VoicemailAssumption DEF Callers

LEMMA SpawnIdle ==
  ASSUME NEW c \in Daemon, NEW k, Task(k, 0) \in Tasks
  PROVE  Idle(c, Spawn(c, k)) /\ Spawn(c, k).sess = c.sess
  BY DEF Idle, Same, Spawn, Daemon

LEMMA WithoutIdle ==
  ASSUME NEW c \in Daemon, NEW t
  PROVE  Idle(c, Without(c, t)) /\ Without(c, t).sess = c.sess
  BY DEF Idle, Same, Without, Daemon

LEMMA BumpIdle ==
  ASSUME NEW c \in Daemon
  PROVE  Idle(c, Bump(c)) /\ Bump(c).sess = c.sess
  <1> DEFINE T == {IF t.k \in {"answer", "revert"} THEN Task(t.k, 0) ELSE t :
                     t \in {u \in c.tasks : u.k # "watch"}}
  <1>1. T \in SUBSET Tasks
    <2>1. c.tasks \in SUBSET Tasks BY DEF Daemon
    <2>2. ASSUME NEW t \in Tasks, t.k \in {"answer", "revert"} PROVE Task(t.k, 0) \in Tasks
      BY <2>2, Zero DEF Tasks, Task
    <2> QED BY <2>1, <2>2
  <1>2. Bump(c) = [c EXCEPT !.tasks = T] BY DEF Bump
  <1> HIDE DEF T
  <1> QED BY <1>1, <1>2 DEF Idle, Same, Daemon

LEMMA RetireIdle ==
  ASSUME NEW c \in Daemon
  PROVE  Idle(c, Retire(c)) /\ Retire(c).sess = c.sess /\ Retire(c).queue = c.queue
  <1> DEFINE T == {IF t.k = "loop" THEN Task("oldloop", 0) ELSE t : t \in c.tasks}
  <1>1. T \in SUBSET Tasks
    <2>1. c.tasks \in SUBSET Tasks BY DEF Daemon
    <2>2. Task("oldloop", 0) \in Tasks BY Zero DEF Tasks, Task
    <2> QED BY <2>1, <2>2
  <1>2. Retire(c) = [c EXCEPT !.tasks = T] BY DEF Retire
  <1> HIDE DEF T
  <1> QED BY <1>1, <1>2 DEF Idle, Same, Daemon

LEMMA IdleTwice ==
  ASSUME NEW c, NEW e, NEW f, Idle(c, e), Idle(e, f)
  PROVE  Idle(c, f)
  BY DEF Idle, Same

(* A field of its own.                                                     *)
LEMMA FieldIdle ==
  ASSUME NEW c \in Daemon
  PROVE  /\ \A st \in States : Idle(c, [c EXCEPT !.st = st]) /\ [c EXCEPT !.st = st].sess = c.sess
         /\ \A b \in BOOLEAN : /\ Idle(c, [c EXCEPT !.mixer = b]) /\ [c EXCEPT !.mixer = b].sess = c.sess
                               /\ Idle(c, [c EXCEPT !.sent = b]) /\ [c EXCEPT !.sent = b].sess = c.sess
         /\ \A q \in SUBSET Ids : Idle(c, [c EXCEPT !.queue = q]) /\ [c EXCEPT !.queue = q].sess = c.sess
  BY DEF Idle, Same, Daemon

LEMMA ResetIdle ==
  ASSUME NEW c \in Daemon
  PROVE  /\ Idle(c, Reset(c)) /\ Reset(c).sess = c.sess
         /\ Idle(c, ResetToDialtone(c)) /\ ResetToDialtone(c).sess = c.sess
  <1>1. "IDLE" \in States /\ "DIALTONE" \in States BY DEF States
  <1>2. Idle(c, [c EXCEPT !.st = "IDLE"]) /\ [c EXCEPT !.st = "IDLE"].sess = c.sess
    BY <1>1, FieldIdle
  <1>3. Idle([c EXCEPT !.st = "IDLE"], Reset(c)) /\ Reset(c).sess = [c EXCEPT !.st = "IDLE"].sess
    BY <1>2, BumpIdle DEF Reset, Idle
  <1>4. Idle(c, Reset(c)) BY <1>2, <1>3, IdleTwice
  <1> QED BY <1>1, <1>2, <1>3, <1>4, FieldIdle DEF ResetToDialtone

-----------------------------------------------------------------------------
(* Playback: sessions come and go.                                         *)

Session == [id : 0 .. MaxRecordings, saved : BOOLEAN, on : BOOLEAN]

LEMMA SessionField ==
  ASSUME NEW c \in Daemon, NEW n \in Session
  PROVE  /\ Idle(c, [c EXCEPT !.sess = n])
         /\ [c EXCEPT !.sess = n].sess = n /\ [c EXCEPT !.sess = n].queue = c.queue
  BY DEF Idle, Same, Daemon, Session

LEMMA TornDown ==
  ASSUME NEW c \in Daemon
  PROVE  /\ Idle(c, teardownPlayback(c)) /\ teardownPlayback(c).sess = NoSession
         /\ teardownPlayback(c).queue = c.queue
  <1>1. Idle(c, Retire(c)) /\ Retire(c).queue = c.queue BY RetireIdle
  <1>2. Retire(c) \in Daemon BY <1>1 DEF Idle
  <1>3. NoSession \in Session
    <2>1. 0 \in 0 .. MaxRecordings BY VoicemailAssumption, StoreAssumption
    <2> QED BY <2>1 DEF NoSession, Session
  <1>4. Idle(Retire(c), teardownPlayback(c)) /\ teardownPlayback(c).sess = NoSession
        /\ teardownPlayback(c).queue = Retire(c).queue
    BY <1>2, <1>3, SessionField DEF teardownPlayback
  <1> QED BY <1>1, <1>4, IdleTwice

(* A session plays a message of the disk.                                  *)
LEMMA SessionOpens ==
  ASSUME NEW c, Inv(c), NEW id \in c.disk.frames, NEW saved \in BOOLEAN
  PROVE  Inv(newPlaybackSession(c, id, saved)) /\ Same(c, newPlaybackSession(c, id, saved))
  <1> DEFINE n == [id |-> id, saved |-> saved, on |-> FALSE]
             b == [Retire(c) EXCEPT !.sess = n]
  <1>1. c \in Daemon /\ id \in Ids /\ id <= c.begun /\ id # c.rec BY DEF Inv, StoreOK, DiskOK
  <1>2. Idle(c, Retire(c)) /\ Retire(c) \in Daemon BY <1>1, RetireIdle DEF Idle
  <1>3. n \in Session /\ n.id = id BY <1>1 DEF Ids, Session
  <1>4. Idle(Retire(c), b) /\ b.sess = n
    <2> HIDE DEF n
    <2> QED BY <1>2, <1>3, SessionField
  <1>5. newPlaybackSession(c, id, saved) = Spawn(b, "loop") BY DEF newPlaybackSession
  <1>6. Task("loop", 0) \in Tasks BY Zero DEF Tasks, Task
  <1> HIDE DEF n, b
  <1>7. Idle(b, Spawn(b, "loop")) /\ Spawn(b, "loop").sess = b.sess BY <1>4, <1>6, SpawnIdle DEF Idle
  <1>8. Idle(c, Spawn(b, "loop")) BY <1>2, <1>4, <1>7, IdleTwice
  <1>9. StoreOK(Spawn(b, "loop")) BY <1>1, <1>3, <1>4, <1>7, <1>8 DEF Inv, StoreOK, DiskOK, Idle, Same
  <1>10. CallOK(Spawn(b, "loop")) BY <1>8 DEF Inv, CallOK, Idle, Same
  <1> QED BY <1>5, <1>8, <1>9, <1>10 DEF Inv, Idle

(* The least number of a set is one of its own.                            *)
LEMMA MinExists ==
  ASSUME NEW S \in SUBSET Nat, S # {}
  PROVE  Min(S) \in S /\ \A y \in S : Min(S) <= y
  <1>1. IsWellFoundedOn(OpToRel(<, Nat), Nat) BY NatLessThanWellFounded
  <1>2. PICK x \in S : \A y \in S : ~ (<<y, x>> \in OpToRel(<, Nat)) BY <1>1, WFMin
  <1>3. ASSUME NEW y \in S PROVE x <= y
    <2>1. x \in Nat /\ y \in Nat OBVIOUS
    <2>2. ~ (y < x)
      <3>1. SUFFICES ASSUME y < x PROVE FALSE OBVIOUS
      <3>2. <<y, x>> \in OpToRel(<, Nat)
        <4>1. <<y, x>> \in Nat \X Nat /\ <<y, x>>[1] = y /\ <<y, x>>[2] = x BY <2>1
        <4> QED BY <3>1, <4>1 DEF OpToRel
      <3> QED BY <1>2, <3>2
    <2> QED BY <2>1, <2>2
  <1> QED BY <1>3 DEF Min

LEMMA UnheardOpens ==
  ASSUME NEW c, Inv(c), NEW after
  PROVE  Inv(openNextUnheard(c, after)) /\ Same(c, openNextUnheard(c, after))
  <1> DEFINE S == {id \in Unheard(c.disk) : id > after}
  <1>1. S \subseteq c.disk.frames /\ S \subseteq Nat BY DEF Inv, StoreOK, DiskOK, Unheard, Ids
  <1>2. CASE S = {} BY <1>2 DEF openNextUnheard, Same
  <1>3. CASE S # {}
    <2>1. Min(S) \in c.disk.frames BY <1>1, <1>3, MinExists
    <2>2. openNextUnheard(c, after) = newPlaybackSession(c, Min(S), FALSE)
      BY <1>3 DEF openNextUnheard
    <2> QED BY <2>1, <2>2, SessionOpens
  <1> QED BY <1>2, <1>3

LEMMA SavedOpens ==
  ASSUME NEW c, Inv(c)
  PROVE  Inv(openNextSaved(c)) /\ Same(c, openNextSaved(c))
  <1> DEFINE kept == c.queue \cap c.disk.frames
             rest == kept \ {Min(kept)}
             b    == [c EXCEPT !.queue = rest]
  <1>1. c \in Daemon /\ kept \subseteq Nat /\ kept \subseteq c.disk.frames
        /\ kept \in SUBSET Ids /\ rest \in SUBSET Ids
    BY DEF Inv, StoreOK, DiskOK, Ids
  <1> HIDE DEF rest
  <1>2. Idle(c, b) /\ b.sess = c.sess /\ Idle(c, [c EXCEPT !.queue = {}])
        /\ [c EXCEPT !.queue = {}].sess = c.sess
    BY <1>1, FieldIdle
  <1>3. CASE kept = {}
    <2>1. openNextSaved(c) = [c EXCEPT !.queue = {}] BY <1>3 DEF openNextSaved
    <2> QED BY <1>2, <2>1, IdleKeeps DEF Idle
  <1>4. CASE kept # {}
    <2>1. Min(kept) \in c.disk.frames BY <1>1, <1>4, MinExists
    <2>2. openNextSaved(c) = newPlaybackSession(b, Min(kept), TRUE)
      BY <1>4 DEF openNextSaved, rest
    <2> HIDE DEF kept, b
    <2>3. Inv(b) /\ Same(c, b) BY <1>2, IdleKeeps DEF Idle
    <2>4. Min(kept) \in b.disk.frames BY <2>1, <2>3 DEF Same
    <2>5. Inv(openNextSaved(c)) /\ Same(b, openNextSaved(c)) BY <2>2, <2>3, <2>4, SessionOpens
    <2> QED BY <2>3, <2>5 DEF Same
  <1> QED BY <1>3, <1>4

-----------------------------------------------------------------------------
(* The disk: what becomes of the messages.                                 *)

(* The e oldest of a set: what stays is younger, and all but e of the set. *)
LEMMA Oldest ==
  ASSUME NEW F \in SUBSET Ids, NEW e \in Nat
  PROVE  LET G == {id \in F : Cardinality({j \in F : j < id}) < e}
         IN  /\ \A old \in G, young \in F \ G : old < young
             /\ e <= Cardinality(F) => Cardinality(F \ G) <= Cardinality(F) - e
  <1> DEFINE Older(id) == {j \in F : j < id}
             G == {id \in F : Cardinality(Older(id)) < e}
  <1>1. IsFiniteSet(F) /\ F \subseteq Nat
    <2>1. IsFiniteSet(Ids) BY StoreAssumption, FS_Interval DEF Ids
    <2>2. F \in SUBSET Ids OBVIOUS
    <2>3. IsFiniteSet(F) BY <2>1, <2>2, FS_Subset
    <2> QED BY <2>2, <2>3 DEF Ids
  <1>2. ASSUME NEW id \in F PROVE IsFiniteSet(Older(id)) /\ Cardinality(Older(id)) \in Nat
    <2>1. Older(id) \in SUBSET F OBVIOUS
    <2>2. IsFiniteSet(Older(id)) BY <1>1, <2>1, FS_Subset
    <2> QED BY <2>2, FS_CardinalityType
  <1>3. ASSUME NEW a \in F, NEW b \in F, a <= b
        PROVE  Cardinality(Older(a)) <= Cardinality(Older(b))
    <2>1. Older(a) \in SUBSET Older(b)
      <3>1. \A j \in F : j < a => j < b BY <1>1, <1>3
      <3> QED BY <3>1
    <2>2. IsFiniteSet(Older(b)) BY <1>2
    <2> QED BY <2>1, <2>2, FS_Subset
  <1>4. ASSUME NEW old \in G, NEW young \in F \ G PROVE old < young
    <2>1. Cardinality(Older(old)) < e /\ ~ (Cardinality(Older(young)) < e) OBVIOUS
    <2>2. Cardinality(Older(old)) \in Nat /\ Cardinality(Older(young)) \in Nat BY <1>2
    <2>3. young <= old => Cardinality(Older(young)) <= Cardinality(Older(old)) BY <1>3
    <2> QED BY <1>1, <2>1, <2>2, <2>3
  <1>5. ASSUME e <= Cardinality(F) PROVE Cardinality(F \ G) <= Cardinality(F) - e
    <2>1. IsFiniteSet(G) /\ IsFiniteSet(F \ G) /\ Cardinality(G) \in Nat /\ Cardinality(F) \in Nat
          /\ Cardinality(F \ G) \in Nat
      <3>1. G \in SUBSET F /\ F \ G \in SUBSET F OBVIOUS
      <3>2. IsFiniteSet(G) /\ IsFiniteSet(F \ G) BY <1>1, <3>1, FS_Subset
      <3> QED BY <1>1, <3>2, FS_CardinalityType
    <2>2. Cardinality(F \ G) = Cardinality(F) - Cardinality(G)
      <3>1. F \cap G = G BY DEF G
      <3> HIDE DEF G
      <3>2. Cardinality(F \ G) = Cardinality(F) - Cardinality(F \cap G) BY <1>1, FS_Difference
      <3> QED BY <3>1, <3>2
    <2>3. CASE F \ G = {}
      <3>1. Cardinality(F \ G) = 0 BY <2>3, FS_EmptySet
      <3> QED BY <1>5, <2>1, <3>1
    <2>4. CASE F \ G # {}
      <3>1. PICK x \in F \ G : \A y \in F \ G : x <= y
        <4>1. F \ G \in SUBSET Nat BY <1>1
        <4> HIDE DEF G
        <4> QED BY <2>4, <4>1, MinExists
      <3>2. Older(x) = G
        <4>1. ASSUME NEW j \in Older(x) PROVE j \in G
          <5>1. j \in F /\ j < x /\ j \in Nat /\ x \in Nat BY <1>1
          <5>2. ~ (x <= j) BY <5>1
          <5> HIDE DEF G
          <5> QED BY <3>1, <5>1, <5>2
        <4>2. G \subseteq Older(x) BY <1>4, <3>1
        <4> QED BY <4>1, <4>2
      <3>3. ~ (Cardinality(G) < e) BY <3>1, <3>2
      <3> QED BY <2>1, <2>2, <3>3
    <2> QED BY <2>3, <2>4
  <1> QED BY <1>4, <1>5

LEMMA MarkedBox ==
  ASSUME NEW k \in Disk, NEW rec, NEW begun \in 0 .. MaxRecordings, DiskOK(k, rec, begun),
         NEW id \in Ids, id <= begun, id # rec
  PROVE  /\ MarkHeard(k, id) \in Disk /\ DiskOK(MarkHeard(k, id), rec, begun)
         /\ BoxStep(BoxOf(k, rec, begun), BoxOf(MarkHeard(k, id), rec, begun))
  <1> DEFINE m == MarkHeard(k, id)
             a == BoxOf(k, rec, begun)
             b == BoxOf(m, rec, begun)
  <1>1. m \in Disk /\ m.frames = k.frames /\ m.meta = [k.meta EXCEPT ![id] = "heard"]
    BY DEF MarkHeard, Disk
  <1>2. m.meta[id] = "heard" /\ \A j \in Ids : j # id => m.meta[j] = k.meta[j]
    BY <1>1 DEF Disk
  <1> HIDE DEF m
  <1>3. DiskOK(m, rec, begun)
    <2>1. ~ (id > begun) BY DEF Ids
    <2> QED BY <1>1, <1>2, <2>1 DEF DiskOK
  <1>4. \A j \in Ids : j # id => b[j] = a[j] BY <1>1, <1>2 DEF BoxOf, Heard
  <1>5. CASE id \in k.frames /\ ~ Heard(k, id)
    <2>1. a[id] = "unheard" /\ b[id] = "heard" BY <1>1, <1>2, <1>5 DEF BoxOf, Heard
    <2>2. b = [a EXCEPT ![id] = "heard"] BY <1>4, <2>1 DEF BoxOf
    <2> QED BY <1>1, <1>3, <2>1, <2>2 DEF BoxStep, m
  <1>6. CASE ~ (id \in k.frames /\ ~ Heard(k, id))
    <2>1. b[id] = a[id] BY <1>1, <1>2, <1>6 DEF BoxOf, Heard
    <2>2. b = a BY <1>4, <2>1 DEF BoxOf
    <2> QED BY <1>1, <1>3, <2>2 DEF BoxStep, m
  <1> QED BY <1>5, <1>6

LEMMA Removed ==
  ASSUME NEW k \in Disk, NEW S
  PROVE  /\ removeMessageLocked(k, S) \in Disk
         /\ removeMessageLocked(k, S).frames = k.frames \ S
         /\ \A id \in Ids : removeMessageLocked(k, S).meta[id] = IF id \in S THEN "none" ELSE k.meta[id]
  <1> DEFINE meta == [id \in Ids |-> IF id \in S THEN "none" ELSE k.meta[id]]
  <1>1. meta \in [Ids -> {"none", "unheard", "heard"}] BY DEF Disk
  <1>2. removeMessageLocked(k, S) = [k EXCEPT !.frames = k.frames \ S, !.meta = meta]
    BY DEF removeMessageLocked, Disk
  <1>3. \A id \in Ids : meta[id] = IF id \in S THEN "none" ELSE k.meta[id] OBVIOUS
  <1> HIDE DEF meta
  <1> QED BY ZenonT(60), <1>1, <1>2, <1>3 DEF Disk

LEMMA DeletedBox ==
  ASSUME NEW k \in Disk, NEW rec, NEW begun \in 0 .. MaxRecordings, DiskOK(k, rec, begun),
         NEW id \in Ids, id <= begun, id # rec
  PROVE  LET m == removeMessageLocked(k, {id})
         IN  /\ m \in Disk /\ DiskOK(m, rec, begun)
             /\ BoxStep(BoxOf(k, rec, begun), BoxOf(m, rec, begun))
  <1> DEFINE m == removeMessageLocked(k, {id})
             a == BoxOf(k, rec, begun)
             b == BoxOf(m, rec, begun)
  <1>1. m \in Disk /\ m.frames = k.frames \ {id}
        /\ \A j \in Ids : m.meta[j] = IF j \in {id} THEN "none" ELSE k.meta[j]
    BY Removed
  <1> HIDE DEF m
  <1>2. DiskOK(m, rec, begun) BY <1>1 DEF DiskOK
  <1>3. \A j \in Ids : j # id => b[j] = a[j] BY <1>1 DEF BoxOf, Heard
  <1>4. ~ (id > begun) BY DEF Ids
  <1>5. b[id] = "gone" BY <1>1, <1>4 DEF BoxOf
  <1>6. b = [a EXCEPT ![id] = "gone"] BY <1>3, <1>5 DEF BoxOf
  <1>7. CASE id \in k.frames
    <2>1. id \in KeptIn(a) BY <1>7 DEF BoxOf, KeptIn
    <2> QED BY <1>1, <1>2, <1>6, <2>1 DEF BoxStep, m
  <1>8. CASE id \notin k.frames
    <2>1. a[id] = "gone" BY <1>4, <1>8 DEF BoxOf
    <2>2. b = a BY <1>3, <1>5, <2>1 DEF BoxOf
    <2> QED BY <1>1, <1>2, <2>2 DEF BoxStep, m
  <1> QED BY <1>7, <1>8

(* A finished recording: k has the frames file under its name, or not.     *)
LEMMA StoredBox ==
  ASSUME NEW k \in Disk, NEW rec \in Ids, DiskOK(k, rec, rec),
         NEW m \in Disk, NEW Gone \in SUBSET k.frames,
         m.frames = (k.frames \cup {rec}) \ Gone, m.meta[rec] # "heard",
         \A id \in Ids \ Gone : id # rec => m.meta[id] = k.meta[id],
         \A old \in Gone, young \in k.frames \ Gone : old < young,
         Gone # {} => Cardinality(k.frames \ Gone) < MaxMessages
  PROVE  DiskOK(m, 0, rec) /\ BoxStep(BoxOf(k, rec, rec), BoxOf(m, 0, rec))
  <1> DEFINE a == BoxOf(k, rec, rec)
             b == BoxOf(m, 0, rec)
  <1>1. rec \notin k.frames /\ Gone \subseteq Ids /\ rec \notin Gone
        /\ \A id \in k.frames : id \in Ids /\ id <= rec /\ id # rec
    BY DEF DiskOK
  <1>2. \A id \in Ids : ~ (id = 0) /\ rec <= rec /\ ~ (rec > rec) BY DEF Ids
  <1>3. DiskOK(m, 0, rec)
    <2>1. \A id \in Gone : ~ (id > rec) BY <1>1 DEF Ids
    <2> QED BY <1>1, <1>2, <2>1 DEF DiskOK
  <1>4. a[rec] = "none" /\ b[rec] = "unheard" BY <1>1 DEF BoxOf, Heard
  <1>5. \A id \in Gone : b[id] = "gone" BY <1>1, <1>2 DEF BoxOf, Ids
  <1>6. \A id \in Ids \ Gone : id # rec => b[id] = a[id] BY <1>2 DEF BoxOf, Heard
  <1>7. KeptIn(a) = k.frames BY <1>1 DEF KeptIn, BoxOf
  <1>8. b = [id \in Ids |-> CASE id = rec -> "unheard" [] id \in Gone -> "gone" [] OTHER -> a[id]]
    <2> DEFINE f == [id \in Ids |-> CASE id = rec -> "unheard" [] id \in Gone -> "gone" [] OTHER -> a[id]]
    <2>1. ASSUME NEW id \in Ids PROVE b[id] = f[id] BY <1>1, <1>4, <1>5, <1>6
    <2> QED BY <2>1 DEF BoxOf
  <1>9. Stores(a, b, rec, Gone) BY <1>4, <1>7, <1>8 DEF Stores
  <1> QED BY <1>1, <1>3, <1>9 DEF BoxStep

(* ... and nothing is evicted.                                             *)
LEMMA StoredWhole ==
  ASSUME NEW k \in Disk, NEW rec \in Ids, DiskOK(k, rec, rec),
         NEW m \in Disk, m.frames = k.frames \cup {rec}, m.meta[rec] # "heard",
         \A id \in Ids : id # rec => m.meta[id] = k.meta[id]
  PROVE  DiskOK(m, 0, rec) /\ BoxStep(BoxOf(k, rec, rec), BoxOf(m, 0, rec))
  <1> DEFINE none == {}
  <1>1. none \in SUBSET k.frames /\ m.frames = (k.frames \cup {rec}) \ none
        /\ (\A id \in Ids \ none : id # rec => m.meta[id] = k.meta[id])
        /\ (\A old \in none, young \in k.frames \ none : old < young)
        /\ (none # {} => Cardinality(k.frames \ none) < MaxMessages)
    OBVIOUS
  <1> HIDE DEF none
  <1> QED BY <1>1, StoredBox

(* The oldest go, and never the message that was just stored.              *)
LEMMA Evicted ==
  ASSUME NEW k \in Disk, NEW rec \in Ids, DiskOK(k, rec, rec),
         NEW r \in Disk, r.frames = k.frames \cup {rec}, r.meta[rec] = "unheard",
         \A id \in Ids : id # rec => r.meta[id] = k.meta[id]
  PROVE  LET m == evictLocked(r)
         IN  m \in Disk /\ DiskOK(m, 0, rec) /\ BoxStep(BoxOf(k, rec, rec), BoxOf(m, 0, rec))
  <1>1. rec \notin k.frames /\ \A id \in k.frames : id \in Ids /\ id < rec BY DEF DiskOK, Ids
  <1>2. CASE MaxMessages = 0
    <2>1. evictLocked(r) = r BY <1>2 DEF evictLocked
    <2>2. r.meta[rec] # "heard" OBVIOUS
    <2> QED BY <2>1, <2>2, StoredWhole
  <1>3. CASE MaxMessages # 0
    <2> DEFINE F == r.frames
               e == Cardinality(F) - MaxMessages
               G == {id \in F : Cardinality({j \in F : j < id}) < e}
               m == removeMessageLocked(r, G)
    <2>1. evictLocked(r) = m BY <1>3 DEF evictLocked
    <2>2. F \in SUBSET Ids /\ IsFiniteSet(F) /\ Cardinality(F) \in Nat
      <3>1. F \in SUBSET Ids /\ IsFiniteSet(Ids) BY <1>1, StoreAssumption, FS_Interval DEF Ids
      <3> QED BY <3>1, FS_Subset, FS_CardinalityType
    <2>3. rec \notin G
      <3>1. {j \in F : j < rec} = F \ {rec} BY <1>1 DEF Ids
      <3>2. Cardinality(F \ {rec}) = Cardinality(F) - 1
        <4>1. rec \in F OBVIOUS
        <4> QED BY <2>2, <4>1, FS_RemoveElement
      <3>3. Cardinality({j \in F : j < rec}) = Cardinality(F) - 1 BY <3>1, <3>2
      <3>4. e <= Cardinality(F) - 1 /\ e \in Int BY <1>3, <2>2, StoreAssumption
      <3> HIDE DEF e
      <3>5. ~ (Cardinality({j \in F : j < rec}) < e) BY <2>2, <3>3, <3>4
      <3> QED BY <3>5
    <2>4. G \subseteq k.frames BY <2>3
    <2>5. /\ \A old \in G, young \in k.frames \ G : old < young
          /\ G # {} => Cardinality(k.frames \ G) < MaxMessages
      <3>1. CASE e \in Nat
        <4>1. \A old \in G, young \in F \ G : old < young BY <2>2, <3>1, Oldest
        <4>2. Cardinality(F \ G) <= MaxMessages
          <5>1. e <= Cardinality(F) BY <2>2, StoreAssumption
          <5>2. Cardinality(F \ G) <= Cardinality(F) - e BY <2>2, <3>1, <5>1, Oldest
          <5> QED BY <2>2, <5>2, StoreAssumption
        <4>3. k.frames \ G = (F \ G) \ {rec} /\ rec \in F \ G BY <1>1, <2>3
        <4>4. IsFiniteSet(F \ G) /\ Cardinality(F \ G) \in Nat
          <5>1. F \ G \in SUBSET F OBVIOUS
          <5> QED BY <2>2, <5>1, FS_Subset, FS_CardinalityType
        <4> HIDE DEF G
        <4>5. Cardinality(k.frames \ G) = Cardinality(F \ G) - 1
          <5>1. Cardinality((F \ G) \ {rec}) = Cardinality(F \ G) - 1 BY <4>3, <4>4, FS_RemoveElement
          <5> QED BY <4>3, <5>1
        <4> QED BY <4>1, <4>2, <4>4, <4>5, StoreAssumption
      <3>2. CASE e \notin Nat
        <4>1. e < 0 BY <2>2, <3>2, StoreAssumption
        <4>2. G = {}
          <5>1. ASSUME NEW id \in F PROVE Cardinality({j \in F : j < id}) \in Nat
            <6>1. {j \in F : j < id} \in SUBSET F OBVIOUS
            <6> QED BY <2>2, <6>1, FS_Subset, FS_CardinalityType
          <5> QED BY <2>2, <4>1, <5>1, StoreAssumption
        <4> QED BY <4>2
      <3> QED BY <3>1, <3>2
    <2> HIDE DEF G, e
    <2>6. G \in SUBSET Ids BY <2>4, <1>1
    <2>7. m \in Disk /\ m.frames = F \ G
          /\ \A id \in Ids : m.meta[id] = IF id \in G THEN "none" ELSE r.meta[id]
      BY <2>6, Removed
    <2> HIDE DEF m
    <2>8. m.frames = (k.frames \cup {rec}) \ G /\ m.meta[rec] # "heard"
          /\ \A id \in Ids \ G : id # rec => m.meta[id] = k.meta[id]
      BY <2>3, <2>7
    <2>9. DiskOK(m, 0, rec) /\ BoxStep(BoxOf(k, rec, rec), BoxOf(m, 0, rec))
      <3>1. G \in SUBSET k.frames BY <2>4
      <3> QED BY <2>5, <2>7, <2>8, <3>1, StoredBox
    <2> QED BY <2>1, <2>7, <2>9
  <1> QED BY <1>2, <1>3

LEMMA Finalized ==
  ASSUME NEW k \in Disk, NEW rec \in Ids, DiskOK(k, rec, rec),
         NEW frames \in Nat, NEW o \in Outcomes
  PROVE  LET m == Finalize(k, rec, frames, o)
         IN  m \in Disk /\ DiskOK(m, 0, rec) /\ BoxStep(BoxOf(k, rec, rec), BoxOf(m, 0, rec))
  <1> DEFINE r == [k EXCEPT !.frames = k.frames \cup {rec}]
             u == [r EXCEPT !.meta[rec] = "unheard"]
             m == Finalize(k, rec, frames, o)
  <1>1. rec \notin k.frames /\ \A id \in Ids : ~ (id = 0) BY DEF DiskOK, Ids
  <1>2. r \in Disk /\ r.frames = k.frames \cup {rec} /\ r.meta = k.meta BY DEF Disk
  <1>3. u \in Disk /\ u.frames = k.frames \cup {rec} /\ u.meta = [k.meta EXCEPT ![rec] = "unheard"]
    <2> HIDE DEF r
    <2> QED BY <1>2 DEF Disk
  <1>4. u.meta[rec] = "unheard" /\ \A id \in Ids : id # rec => u.meta[id] = k.meta[id]
    BY <1>3 DEF Disk
  <1>5. CASE frames = 0 \/ o = "lost"
    <2> DEFINE a == BoxOf(k, rec, rec)
               b == BoxOf(k, 0, rec)
    <2>1. m = k BY <1>5 DEF Finalize
    <2>2. DiskOK(k, 0, rec) BY <1>1 DEF DiskOK
    <2>3. ~ (rec > rec) BY DEF Ids
    <2>4. a[rec] = "none" /\ b[rec] = "gone" BY <1>1, <2>3 DEF BoxOf
    <2>5. \A id \in Ids : id # rec => b[id] = a[id] BY <1>1 DEF BoxOf
    <2>6. b = [a EXCEPT ![rec] = "gone"] BY <2>4, <2>5 DEF BoxOf
    <2> QED BY <2>1, <2>2, <2>4, <2>6 DEF BoxStep
  <1>6. CASE frames # 0 /\ o = "bare"
    <2>1. m = r BY <1>6 DEF Finalize
    <2>2. r.meta[rec] # "heard" BY <1>2 DEF DiskOK
    <2> QED BY <1>2, <2>1, <2>2, StoredWhole
  <1>7. CASE frames # 0 /\ o = "kept"
    <2>1. m = u BY <1>7 DEF Finalize
    <2> HIDE DEF u
    <2>2. u.meta[rec] # "heard" BY <1>4
    <2> QED BY <1>3, <1>4, <2>1, <2>2, StoredWhole
  <1>8. CASE frames # 0 /\ o = "ok"
    <2>1. m = evictLocked(u) BY <1>8 DEF Finalize
    <2> HIDE DEF u
    <2> QED BY <1>3, <1>4, <2>1, Evicted
  <1> QED BY <1>5, <1>6, <1>7, <1>8 DEF Outcomes

-----------------------------------------------------------------------------
(* Handlers: one that leaves the mailbox alone, and one that makes a step  *)
(* of it.                                                                  *)

Keeps(c, e) == Inv(e) /\ Same(c, e)

Moves(c, e) == Inv(e) /\ BoxStep(Box(c), Box(e))

LEMMA Composed ==
  ASSUME NEW c, NEW e, NEW f
  PROVE  /\ Keeps(c, e) => Moves(c, e)
         /\ Keeps(c, e) /\ Keeps(e, f) => Keeps(c, f)
         /\ Keeps(c, e) /\ Moves(e, f) => Moves(c, f)
         /\ Moves(c, e) /\ Keeps(e, f) => Moves(c, f)
  <1>1. Same(c, e) => Box(e) = Box(c) BY SameBox
  <1>2. Same(e, f) => Box(f) = Box(e) BY SameBox
  <1>3. Same(c, e) /\ Same(e, f) => Same(c, f) BY DEF Same
  <1> QED BY <1>1, <1>2, <1>3 DEF Keeps, Moves, BoxStep

LEMMA IdleIsKept ==
  ASSUME NEW c, NEW e, Inv(c), Idle(c, e), e.sess = c.sess \/ e.sess = NoSession
  PROVE  Keeps(c, e)
  BY IdleKeeps DEF Keeps, Idle

LEMMA SpawnKeeps ==
  ASSUME NEW c, Inv(c), NEW k, Task(k, 0) \in Tasks
  PROVE  Keeps(c, Spawn(c, k)) /\ Spawn(c, k).rec = c.rec /\ Spawn(c, k).peer = c.peer
         /\ Spawn(c, k).sess = c.sess /\ Spawn(c, k).frames = c.frames
  <1>1. c \in Daemon BY DEF Inv
  <1>2. Idle(c, Spawn(c, k)) /\ Spawn(c, k).sess = c.sess BY <1>1, SpawnIdle
  <1> QED BY <1>2, IdleIsKept DEF Idle, Same

LEMMA WithoutKeeps ==
  ASSUME NEW c, Inv(c), NEW t
  PROVE  Keeps(c, Without(c, t))
  <1>1. c \in Daemon BY DEF Inv
  <1>2. Idle(c, Without(c, t)) /\ Without(c, t).sess = c.sess BY <1>1, WithoutIdle
  <1> QED BY <1>2, IdleIsKept

LEMMA FieldKeeps ==
  ASSUME NEW c, Inv(c)
  PROVE  /\ \A st \in States : Keeps(c, [c EXCEPT !.st = st])
         /\ \A b \in BOOLEAN : Keeps(c, [c EXCEPT !.mixer = b]) /\ Keeps(c, [c EXCEPT !.sent = b])
         /\ \A q \in SUBSET Ids : Keeps(c, [c EXCEPT !.queue = q])
  <1>1. c \in Daemon BY DEF Inv
  <1>2. ASSUME NEW st \in States PROVE Keeps(c, [c EXCEPT !.st = st])
    <2>1. Idle(c, [c EXCEPT !.st = st]) /\ [c EXCEPT !.st = st].sess = c.sess BY <1>1, FieldIdle
    <2> QED BY <2>1, IdleIsKept
  <1>3. ASSUME NEW b \in BOOLEAN PROVE Keeps(c, [c EXCEPT !.mixer = b]) /\ Keeps(c, [c EXCEPT !.sent = b])
    <2>1. /\ Idle(c, [c EXCEPT !.mixer = b]) /\ [c EXCEPT !.mixer = b].sess = c.sess
          /\ Idle(c, [c EXCEPT !.sent = b]) /\ [c EXCEPT !.sent = b].sess = c.sess
      BY <1>1, FieldIdle
    <2> QED BY <2>1, IdleIsKept
  <1>4. ASSUME NEW q \in SUBSET Ids PROVE Keeps(c, [c EXCEPT !.queue = q])
    <2>1. Idle(c, [c EXCEPT !.queue = q]) /\ [c EXCEPT !.queue = q].sess = c.sess BY <1>1, FieldIdle
    <2> QED BY <2>1, IdleIsKept
  <1> QED BY <1>2, <1>3, <1>4

LEMMA ResetKeeps ==
  ASSUME NEW c, Inv(c)
  PROVE  Keeps(c, Reset(c)) /\ Keeps(c, ResetToDialtone(c)) /\ Keeps(c, Bump(c))
  <1>1. c \in Daemon BY DEF Inv
  <1>2. /\ Idle(c, Reset(c)) /\ Reset(c).sess = c.sess
        /\ Idle(c, ResetToDialtone(c)) /\ ResetToDialtone(c).sess = c.sess
        /\ Idle(c, Bump(c)) /\ Bump(c).sess = c.sess
    BY <1>1, ResetIdle, BumpIdle
  <1> QED BY <1>2, IdleIsKept

LEMMA TeardownKeeps ==
  ASSUME NEW c, Inv(c)
  PROVE  Keeps(c, teardownPlayback(c)) /\ teardownPlayback(c).sess = NoSession
  <1>1. c \in Daemon BY DEF Inv
  <1>2. Idle(c, teardownPlayback(c)) /\ teardownPlayback(c).sess = NoSession BY <1>1, TornDown
  <1> QED BY <1>2, IdleIsKept

-----------------------------------------------------------------------------
(* The recorder and the call.                                              *)

LEMMA RecorderFinished ==
  ASSUME NEW c \in Daemon, StoreOK(c), c.peer # 0 => c.offer = 0, NEW o \in Outcomes
  PROVE  LET e == finalizeRecorder(c, o)
         IN  Moves(c, e) /\ e.rec = 0 /\ e.frames = 0 /\ e.peer = c.peer
  <1> DEFINE k == IF c.rec = 0 THEN c.disk ELSE Finalize(c.disk, c.rec, c.frames, o)
             e == [c EXCEPT !.disk = k, !.rec = 0, !.frames = 0]
  <1>1. c \in Daemon /\ c.disk \in Disk /\ c.frames \in Nat /\ DiskOK(c.disk, c.rec, c.begun)
        /\ c.rec \in 0 .. MaxRecordings /\ c.begun \in 0 .. MaxRecordings
    BY DEF StoreOK, Daemon
  <1>2. k \in Disk /\ DiskOK(k, 0, c.begun) /\ BoxStep(Box(c), BoxOf(k, 0, c.begun))
    <2>1. CASE c.rec = 0 BY <1>1, <2>1 DEF Box, BoxStep
    <2>2. CASE c.rec # 0
      <3>1. c.rec = c.begun /\ c.rec \in Ids BY <1>1, <2>2 DEF DiskOK, Ids
      <3>2. k = Finalize(c.disk, c.rec, c.frames, o) BY <2>2
      <3> HIDE DEF k
      <3> QED BY <1>1, <3>1, <3>2, Finalized DEF Box
    <2> QED BY <2>1, <2>2
  <1>3. finalizeRecorder(c, o) = e BY DEF finalizeRecorder
  <1> HIDE DEF k
  <1>4. 0 \in 0 .. MaxRecordings /\ 0 \in 0 .. MaxFrames /\ 0 < MaxFrames
    BY StoreAssumption, VoicemailAssumption
  <1>5. e \in Daemon /\ e.disk = k /\ e.rec = 0 /\ e.frames = 0 /\ e.begun = c.begun
        /\ e.peer = c.peer /\ e.offer = c.offer /\ e.sess = c.sess
    BY <1>1, <1>2, <1>4 DEF Daemon
  <1> HIDE DEF e
  <1>6. StoreOK(e) BY <1>2, <1>5 DEF StoreOK
  <1>7. CallOK(e) BY <1>4, <1>5 DEF CallOK
  <1> QED BY <1>2, <1>3, <1>5, <1>6, <1>7 DEF Moves, Inv, Box

LEMMA PublishedMoves ==
  ASSUME NEW c, Inv(c), NEW o \in Outcomes
  PROVE  LET e == finalizeAndPublish(c, o)
         IN  Moves(c, e) /\ e.rec = 0 /\ e.peer = c.peer
  <1> DEFINE f == finalizeRecorder(c, o)
  <1>1. Moves(c, f) /\ Inv(f) /\ f.rec = 0 /\ f.peer = c.peer
    BY RecorderFinished DEF Moves, Inv, CallOK
  <1>2. Task("publish", 0) \in Tasks BY Zero DEF Tasks, Task
  <1>3. finalizeAndPublish(c, o) \in {f, Spawn(f, "publish")} BY DEF finalizeAndPublish
  <1> HIDE DEF f
  <1>4. Keeps(f, Spawn(f, "publish")) /\ Spawn(f, "publish").rec = f.rec /\ Spawn(f, "publish").peer = f.peer
    BY <1>1, <1>2, SpawnKeeps
  <1> QED BY <1>1, <1>3, <1>4, Composed

LEMMA GreetingKeeps ==
  ASSUME NEW c, Inv(c), NEW o
  PROVE  LET e == finalizeGreeting(c, o)
         IN  Keeps(c, e) /\ e.rec = c.rec /\ e.peer = c.peer
  <1> DEFINE g == c.disk.greeting \/ (c.grec > 0 /\ o # "lost")
             k == [c.disk EXCEPT !.greeting = g]
             e == [c EXCEPT !.disk = k, !.grec = -1]
  <1>1. c \in Daemon /\ c.disk \in Disk BY DEF Inv, Daemon
  <1>2. g \in BOOLEAN BY <1>1 DEF Disk
  <1>3. finalizeGreeting(c, o) = e
    <2>1. "disk" \in DOMAIN c /\ "greeting" \in DOMAIN c.disk BY <1>1 DEF Daemon, Disk
    <2> HIDE DEF g
    <2>2. [c EXCEPT !.disk.greeting = g, !.grec = -1] = e BY <2>1
    <2> QED BY <2>2 DEF finalizeGreeting, g
  <1> HIDE DEF g
  <1>4. k \in Disk /\ k.frames = c.disk.frames /\ k.meta = c.disk.meta BY <1>1, <1>2 DEF Disk
  <1> HIDE DEF k
  <1>5. Idle(c, e) /\ e.sess = c.sess
    <2> DEFINE n == -1
    <2>1. n \in -1 .. 1 BY DEF n
    <2>2. e = [c EXCEPT !.disk = k, !.grec = n] BY DEF n
    <2> HIDE DEF n, e
    <2>3. e \in Daemon BY <1>1, <1>4, <2>1, <2>2 DEF Daemon
    <2>4. e.disk = k /\ e.rec = c.rec /\ e.begun = c.begun /\ e.peer = c.peer /\ e.offer = c.offer
          /\ e.frames = c.frames /\ e.sess = c.sess
      BY <1>1, <2>2 DEF Daemon
    <2> QED BY <1>4, <2>3, <2>4 DEF Idle, Same
  <1> HIDE DEF e
  <1> QED BY <1>3, <1>5, IdleIsKept DEF Idle, Same

LEMMA HangupMoves ==
  ASSUME NEW c, Inv(c), NEW o \in Outcomes
  PROVE  LET e == HangupCall(c, o)
         IN  Moves(c, e) /\ e.rec = 0 /\ e.peer = 0
  <1> DEFINE f == finalizeAndPublish(c, o)
             g == finalizeGreeting(f, o)
             e == HangupCall(c, o)
  <1>1. Moves(c, f) /\ Inv(f) /\ f.rec = 0 BY PublishedMoves DEF Moves
  <1>2. Keeps(f, g) /\ g.rec = 0 /\ Inv(g)
    <2> HIDE DEF f
    <2> QED BY <1>1, GreetingKeeps DEF Keeps
  <1>3. e = [g EXCEPT !.offer = 0, !.peer = 0, !.chan = FALSE, !.bridged = FALSE, !.muted = FALSE,
                      !.sent = TRUE]
    BY DEF HangupCall
  <1> HIDE DEF f, g, e
  <1>4. g \in Daemon BY <1>2 DEF Inv
  <1>5. e \in Daemon /\ Same(g, e) /\ e.peer = 0 /\ e.frames = g.frames /\ e.sess = g.sess
    BY <1>3, <1>4, Zero DEF Daemon, Same
  <1>6. Keeps(g, e) BY <1>2, <1>5 DEF Keeps, Inv, StoreOK, DiskOK, CallOK, Same
  <1> QED BY <1>1, <1>2, <1>5, <1>6, Composed DEF Same, e

LEMMA PickupMoves ==
  ASSUME NEW c, Inv(c), NEW o \in Outcomes
  PROVE  Moves(c, VoicemailPickup(c, o))
  <1> DEFINE f == finalizeAndPublish(c, o)
             e == [f EXCEPT !.chan = FALSE, !.bridged = TRUE, !.muted = FALSE]
  <1>1. Moves(c, f) /\ Inv(f) BY PublishedMoves DEF Moves
  <1>2. VoicemailPickup(c, o) \in {f, e} BY DEF VoicemailPickup
  <1> HIDE DEF f
  <1>3. f \in Daemon BY <1>1 DEF Inv
  <1>4. Idle(f, e) /\ e.sess = f.sess BY <1>3 DEF Idle, Same, Daemon
  <1> HIDE DEF e
  <1>5. Keeps(f, e) BY <1>1, <1>4, IdleIsKept
  <1> QED BY <1>1, <1>2, <1>5, Composed

LEMMA AnswerKeeps ==
  ASSUME NEW c, Inv(c)
  PROVE  Keeps(c, AnswerCall(c))
  <1> DEFINE e == [c EXCEPT !.peer = c.offer, !.offer = 0, !.bridged = TRUE]
  <1>1. c \in Daemon BY DEF Inv
  <1>2. CASE c.offer = 0 BY <1>2 DEF AnswerCall, Keeps, Same
  <1>3. CASE c.offer # 0
    <2>1. AnswerCall(c) = e BY <1>3 DEF AnswerCall
    <2>2. e \in Daemon /\ Same(c, e) /\ e.peer = c.offer /\ e.offer = 0 /\ e.frames = c.frames
          /\ e.sess = c.sess
      BY <1>1, Zero DEF Daemon, Same
    <2> HIDE DEF e
    <2> QED BY <1>3, <2>1, <2>2 DEF Keeps, Inv, StoreOK, DiskOK, CallOK, Same
  <1> QED BY <1>2, <1>3

-----------------------------------------------------------------------------
(* Playback.                                                               *)

LEMMA AdvanceKeeps ==
  ASSUME NEW c, Inv(c), NEW wasSaved \in BOOLEAN
  PROVE  Keeps(c, Advance(c, wasSaved))
  <1> DEFINE m == [c EXCEPT !.mixer = FALSE]
  <1>1. Advance(c, wasSaved) \in {c, Spawn(c, "saved"), Spawn(m, "exit")} BY DEF Advance
  <1>2. Task("saved", 0) \in Tasks /\ Task("exit", 0) \in Tasks BY Zero DEF Tasks, Task
  <1>3. Keeps(c, c) BY DEF Keeps, Same
  <1>4. Keeps(c, Spawn(c, "saved")) BY <1>2, SpawnKeeps
  <1>5. Keeps(c, m) /\ Inv(m) BY FieldKeeps DEF Keeps
  <1> HIDE DEF m
  <1>6. Keeps(m, Spawn(m, "exit")) BY <1>2, <1>5, SpawnKeeps
  <1> QED BY <1>1, <1>3, <1>4, <1>5, <1>6, Composed

LEMMA ExitKeeps ==
  ASSUME NEW c, Inv(c)
  PROVE  Keeps(c, VoicemailExitPlayback(c))
  <1> DEFINE f == teardownPlayback(c)
             e == [f EXCEPT !.mixer = FALSE, !.queue = {}]
  <1>1. Keeps(c, f) /\ Inv(f) BY TeardownKeeps DEF Keeps
  <1>2. VoicemailExitPlayback(c) = e BY DEF VoicemailExitPlayback
  <1> HIDE DEF f
  <1>3. f \in Daemon BY <1>1 DEF Inv
  <1>4. Idle(f, e) /\ e.sess = f.sess BY <1>3 DEF Idle, Same, Daemon
  <1> HIDE DEF e
  <1>5. Keeps(f, e) BY <1>1, <1>4, IdleIsKept
  <1> QED BY <1>1, <1>2, <1>5, Composed

LEMMA EnterKeeps ==
  ASSUME NEW c, Inv(c), NEW listed \in BOOLEAN
  PROVE  Keeps(c, VoicemailEnterPlayback(c, listed))
  <1> DEFINE heard   == c.disk.frames \ Unheard(c.disk)
             entered == [c EXCEPT !.mixer = TRUE, !.queue = heard]
             empty   == [c EXCEPT !.mixer = FALSE, !.queue = {}]
  <1>1. c \in Daemon /\ heard \in SUBSET Ids BY DEF Inv, StoreOK, DiskOK
  <1>2. VoicemailEnterPlayback(c, listed) \in
          {Spawn(c, "exit"), Spawn(empty, "exit"), openNextUnheard(entered, 0), Advance(entered, FALSE)}
    BY DEF VoicemailEnterPlayback
  <1> HIDE DEF heard
  <1>3. Idle(c, entered) /\ entered.sess = c.sess /\ Idle(c, empty) /\ empty.sess = c.sess
    BY <1>1 DEF Idle, Same, Daemon
  <1> HIDE DEF entered, empty
  <1>4. Keeps(c, entered) /\ Inv(entered) /\ Keeps(c, empty) /\ Inv(empty)
    BY <1>3, IdleIsKept DEF Keeps
  <1>5. Task("exit", 0) \in Tasks BY Zero DEF Tasks, Task
  <1>6. Keeps(c, Spawn(c, "exit")) /\ Keeps(empty, Spawn(empty, "exit")) BY <1>4, <1>5, SpawnKeeps
  <1>7. Keeps(entered, openNextUnheard(entered, 0)) BY <1>4, UnheardOpens DEF Keeps
  <1>8. Keeps(entered, Advance(entered, FALSE)) BY <1>4, AdvanceKeeps
  <1> QED BY <1>2, <1>4, <1>6, <1>7, <1>8, Composed

(* A session's message is marked or deleted; a session may be of none.     *)
LEMMA MessageMoves ==
  ASSUME NEW c, Inv(c), NEW id \in 0 .. MaxRecordings, id <= c.begun, id # 0 => id # c.rec,
         NEW k \in {MarkHeard(c.disk, id), removeMessageLocked(c.disk, {id})}
  PROVE  Moves(c, [c EXCEPT !.disk = k]) /\ [c EXCEPT !.disk = k].sess = c.sess
  <1> DEFINE e == [c EXCEPT !.disk = k]
  <1>1. c \in Daemon /\ c.disk \in Disk /\ DiskOK(c.disk, c.rec, c.begun)
        /\ c.begun \in 0 .. MaxRecordings
    BY DEF Inv, StoreOK, Daemon
  <1>2. k \in Disk /\ DiskOK(k, c.rec, c.begun) /\ BoxStep(Box(c), BoxOf(k, c.rec, c.begun))
    <2>1. CASE id \in Ids
      <3>1. id # c.rec BY <2>1 DEF Ids
      <3> QED BY <1>1, <2>1, <3>1, MarkedBox, DeletedBox DEF Box
    <2>2. CASE id \notin Ids
      <3>1. CASE k = MarkHeard(c.disk, id)
        <4>1. [c.disk.meta EXCEPT ![id] = "heard"] = c.disk.meta BY <1>1, <2>2 DEF Disk
        <4>2. k \in Disk /\ k.frames = c.disk.frames /\ k.meta = c.disk.meta
          BY <1>1, <3>1, <4>1 DEF MarkHeard, Disk
        <4> QED BY <1>1, <4>2 DEF DiskOK, BoxStep, Box, BoxOf, Heard
      <3>2. CASE k = removeMessageLocked(c.disk, {id})
        <4>1. k \in Disk /\ k.frames = c.disk.frames \ {id}
              /\ \A j \in Ids : k.meta[j] = IF j \in {id} THEN "none" ELSE c.disk.meta[j]
          BY <1>1, <3>2, Removed
        <4>2. k.frames = c.disk.frames /\ \A j \in Ids : k.meta[j] = c.disk.meta[j]
          BY <1>1, <2>2, <4>1 DEF DiskOK
        <4> QED BY <1>1, <4>1, <4>2 DEF DiskOK, BoxStep, Box, BoxOf, Heard
      <3> QED BY <3>1, <3>2
    <2> QED BY <2>1, <2>2
  <1>3. e \in Daemon /\ e.disk = k /\ e.rec = c.rec /\ e.begun = c.begun /\ e.sess = c.sess
        /\ e.peer = c.peer /\ e.offer = c.offer /\ e.frames = c.frames
    BY <1>1, <1>2 DEF Daemon
  <1> HIDE DEF e
  <1>4. Inv(e) BY <1>2, <1>3 DEF Inv, StoreOK, CallOK
  <1> QED BY <1>2, <1>3, <1>4 DEF Moves, Box, e

LEMMA OpenedMoves ==
  ASSUME NEW c, Inv(c), NEW e, Moves(c, e), NEW after, NEW saved \in BOOLEAN
  PROVE  /\ Moves(c, Advance(openNextSaved(e), saved))
         /\ Moves(c, Advance(openNextUnheard(e, after), saved))
  <1> DEFINE s == openNextSaved(e)
             u == openNextUnheard(e, after)
  <1>1. Inv(e) BY DEF Moves
  <1>2. Keeps(e, s) /\ Inv(s) BY <1>1, SavedOpens DEF Keeps
  <1>3. Keeps(e, u) /\ Inv(u) BY <1>1, UnheardOpens DEF Keeps
  <1> HIDE DEF s, u
  <1>4. Keeps(s, Advance(s, saved)) /\ Keeps(u, Advance(u, saved)) BY <1>2, <1>3, AdvanceKeeps
  <1>5. Keeps(e, Advance(s, saved)) /\ Keeps(e, Advance(u, saved)) BY <1>2, <1>3, <1>4, Composed
  <1> QED BY <1>5, Composed DEF s, u

(* The message of a session that is torn down is deleted or marked, and    *)
(* that is published.                                                      *)
LEMMA SessionMoves ==
  ASSUME NEW c, Inv(c)
  PROVE  LET t == teardownPlayback(c)
         IN  /\ Moves(c, Spawn([t EXCEPT !.disk = removeMessageLocked(@, {c.sess.id})], "publish"))
             /\ Moves(c, Spawn([t EXCEPT !.disk = MarkHeard(@, c.sess.id)], "publish"))
  <1> DEFINE t == teardownPlayback(c)
             x == [t EXCEPT !.disk = removeMessageLocked(t.disk, {c.sess.id})]
             m == [t EXCEPT !.disk = MarkHeard(t.disk, c.sess.id)]
  <1>1. Keeps(c, t) /\ Inv(t) BY TeardownKeeps DEF Keeps
  <1>2. c.sess.id \in 0 .. MaxRecordings /\ c.sess.id <= t.begun
        /\ (c.sess.id # 0 => c.sess.id # t.rec) /\ t \in Daemon
    BY <1>1 DEF Inv, Daemon, StoreOK, Keeps, Same
  <1> HIDE DEF t
  <1>3. Moves(t, x) /\ Moves(t, m) BY <1>1, <1>2, MessageMoves
  <1>4. [t EXCEPT !.disk = removeMessageLocked(@, {c.sess.id})] = x
        /\ [t EXCEPT !.disk = MarkHeard(@, c.sess.id)] = m
    BY <1>2 DEF Daemon
  <1> HIDE DEF x, m
  <1>5. Moves(c, x) /\ Moves(c, m) BY <1>1, <1>3, Composed
  <1>6. Task("publish", 0) \in Tasks BY Zero DEF Tasks, Task
  <1>7. Keeps(x, Spawn(x, "publish")) /\ Keeps(m, Spawn(m, "publish"))
    BY <1>5, <1>6, SpawnKeeps DEF Moves
  <1> QED BY <1>4, <1>5, <1>7, Composed DEF t

LEMMA KeyMoves ==
  ASSUME NEW c, Inv(c), NEW digit \in {"7", "9", "#", "*"}
  PROVE  Moves(c, VoicemailKey(c, digit))
  <1> DEFINE id    == c.sess.id
             saved == c.sess.saved
             torn  == teardownPlayback(c)
             gone  == Spawn([torn EXCEPT !.disk = removeMessageLocked(@, {id})], "publish")
             heard == Spawn([torn EXCEPT !.disk = MarkHeard(@, id)], "publish")
             after == IF digit = "#" THEN id ELSE 0
  <1>1. Keeps(c, torn) /\ Inv(torn) /\ Moves(c, torn) BY TeardownKeeps, Composed DEF Keeps
  <1>2. saved \in BOOLEAN /\ c \in Daemon BY DEF Inv, Daemon
  <1>3. Moves(c, gone) /\ Moves(c, heard) BY SessionMoves
  <1>4. Keeps(c, c) /\ Moves(c, c) BY Composed DEF Keeps, Same
  <1>5. CASE c.sess = NoSession BY <1>4, <1>5 DEF VoicemailKey
  <1>6. CASE c.sess # NoSession /\ digit = "*" /\ id \in c.disk.frames
    <2>1. VoicemailKey(c, digit) = newPlaybackSession(torn, id, saved) BY <1>6 DEF VoicemailKey
    <2>2. id \in torn.disk.frames BY <1>1, <1>6 DEF Keeps, Same
    <2> HIDE DEF torn
    <2>3. Keeps(torn, newPlaybackSession(torn, id, saved)) BY <1>1, <1>2, <2>2, SessionOpens DEF Keeps
    <2> QED BY <1>1, <2>1, <2>3, Composed
  <1>7. CASE c.sess # NoSession /\ digit = "*" /\ id \notin c.disk.frames
    <2> DEFINE m == [torn EXCEPT !.mixer = FALSE]
    <2>1. VoicemailKey(c, digit) = Spawn(m, "exit") BY <1>7 DEF VoicemailKey
    <2>2. Task("exit", 0) \in Tasks BY Zero DEF Tasks, Task
    <2> HIDE DEF torn
    <2>3. Keeps(torn, m) /\ Inv(m) BY <1>1, FieldKeeps DEF Keeps
    <2> HIDE DEF m
    <2>4. Keeps(m, Spawn(m, "exit")) BY <2>2, <2>3, SpawnKeeps
    <2> QED BY <1>1, <2>1, <2>3, <2>4, Composed
  <1>8. CASE c.sess # NoSession /\ digit # "*"
    <2> DEFINE changed == CASE digit = "7" -> gone
                            [] digit = "9" /\ ~ saved -> heard
                            [] digit \in {"#", "*"} \/ (digit = "9" /\ saved) -> torn
    <2>1. VoicemailKey(c, digit) =
            Advance(CASE saved -> openNextSaved(changed) [] ~ saved -> openNextUnheard(changed, after), saved)
      BY <1>8 DEF VoicemailKey
    <2>2. changed \in {gone, heard, torn} BY <1>2
    <2> HIDE DEF gone, heard, torn
    <2>3. Moves(c, changed) BY <1>1, <1>3, <2>2
    <2> HIDE DEF changed, after
    <2>4. /\ Moves(c, Advance(openNextSaved(changed), saved))
          /\ Moves(c, Advance(openNextUnheard(changed, after), saved))
      BY <1>2, <2>3, OpenedMoves
    <2> QED BY <1>2, <2>1, <2>4
  <1> QED BY <1>5, <1>6, <1>7, <1>8

LEMMA EndMoves ==
  ASSUME NEW c, Inv(c)
  PROVE  Moves(c, voicemailAdvanceFromEOF(c))
  <1> DEFINE torn == teardownPlayback(c)
             mark == Spawn([torn EXCEPT !.disk = MarkHeard(@, c.sess.id)], "publish")
  <1>1. Moves(c, torn) BY TeardownKeeps, Composed
  <1>2. Moves(c, mark) BY SessionMoves
  <1>3. voicemailAdvanceFromEOF(c) \in
          {Advance(openNextSaved(torn), TRUE), Advance(openNextUnheard(mark, 0), FALSE)}
    BY DEF voicemailAdvanceFromEOF
  <1> HIDE DEF torn, mark
  <1>4. Moves(c, Advance(openNextSaved(torn), TRUE)) /\ Moves(c, Advance(openNextUnheard(mark, 0), FALSE))
    BY <1>1, <1>2, OpenedMoves
  <1> QED BY <1>3, <1>4

LEMMA LoopKeeps ==
  ASSUME NEW c, Inv(c), NEW current \in BOOLEAN
  PROVE  Keeps(c, voicemailPlaybackLoop(c, current))
  <1> DEFINE torn == teardownPlayback(c)
             n == [c.sess EXCEPT !.on = TRUE]
             e == [c EXCEPT !.sess = n]
  <1>1. Keeps(c, torn) /\ Inv(torn) /\ Keeps(c, c) BY TeardownKeeps DEF Keeps, Same
  <1>2. c \in Daemon BY DEF Inv
  <1>3. voicemailPlaybackLoop(c, current) \in {Spawn(torn, "exit"), Spawn(c, "exit"), e, c}
    BY <1>2 DEF voicemailPlaybackLoop, Daemon
  <1>4. n \in Session /\ n.id = c.sess.id BY <1>2 DEF Daemon, Session
  <1> HIDE DEF torn, n
  <1>5. Idle(c, e) /\ e.sess = n BY <1>2, <1>4, SessionField
  <1> HIDE DEF e
  <1>6. Keeps(c, e) BY <1>4, <1>5 DEF Keeps, Idle, Inv, StoreOK, DiskOK, CallOK, Same
  <1>7. Task("exit", 0) \in Tasks BY Zero DEF Tasks, Task
  <1>8. Keeps(torn, Spawn(torn, "exit")) /\ Keeps(c, Spawn(c, "exit")) BY <1>1, <1>7, SpawnKeeps
  <1> QED BY <1>1, <1>3, <1>6, <1>8, Composed

LEMMA SavedPhaseMoves ==
  ASSUME NEW c, Inv(c)
  PROVE  Moves(c, transitionToSavedPhase(c))
  <1>1. Moves(c, c) BY Composed DEF Keeps, Same
  <1> QED BY <1>1, OpenedMoves DEF transitionToSavedPhase

-----------------------------------------------------------------------------
(* The controller's handlers.                                              *)

LEMMA AbortMoves ==
  ASSUME NEW c, Inv(c), NEW o \in Outcomes, NEW st \in States
  PROVE  Moves(c, HangupCall([c EXCEPT !.st = st], o))
  <1> DEFINE r == [c EXCEPT !.st = st]
  <1>1. Keeps(c, r) /\ Inv(r) BY FieldKeeps DEF Keeps
  <1> HIDE DEF r
  <1>2. Moves(r, HangupCall(r, o)) BY <1>1, HangupMoves
  <1> QED BY <1>1, <1>2, Composed DEF r

LEMMA HookOffMoves ==
  ASSUME NEW c, Inv(c), NEW o \in Outcomes
  PROVE  Moves(c, onHookOff(c, o))
  <1> DEFINE tone == [c EXCEPT !.st = "DIALTONE"]
             conn == [c EXCEPT !.st = "CONNECTED"]
             bump == Bump(conn)
  <1>1. "DIALTONE" \in States /\ "CONNECTED" \in States BY DEF States
  <1>2. Keeps(c, tone) /\ Keeps(c, conn) /\ Inv(conn) /\ Keeps(c, c)
    BY <1>1, FieldKeeps DEF Keeps, Same
  <1>3. onHookOff(c, o) \in {tone, AnswerCall(bump), VoicemailPickup(conn, o), c}
    BY DEF onHookOff
  <1> HIDE DEF tone, conn
  <1>4. Keeps(conn, bump) /\ Inv(bump) BY <1>2, ResetKeeps DEF Keeps
  <1>5. Moves(conn, VoicemailPickup(conn, o)) BY <1>2, PickupMoves
  <1> HIDE DEF bump
  <1>6. Keeps(bump, AnswerCall(bump)) BY <1>4, AnswerKeeps
  <1> QED BY <1>2, <1>3, <1>4, <1>5, <1>6, Composed

LEMMA HookOnMoves ==
  ASSUME NEW c, Inv(c), NEW o \in Outcomes
  PROVE  Moves(c, onHookOn(c, o))
  <1> DEFINE r == [c EXCEPT !.st = "IDLE"]
  <1>1. "IDLE" \in States BY DEF States
  <1>2. Keeps(c, r) /\ Inv(r) BY <1>1, FieldKeeps DEF Keeps
  <1>3. onHookOn(c, o) \in {HangupCall(r, o), VoicemailExitPlayback(r), r}
    <2>1. c.st \in States BY DEF Inv, Daemon
    <2> QED BY <2>1 DEF onHookOn, States
  <1>4. Moves(c, HangupCall(r, o)) BY <1>1, AbortMoves
  <1> HIDE DEF r
  <1>5. Keeps(r, VoicemailExitPlayback(r)) BY <1>2, ExitKeeps
  <1> QED BY <1>2, <1>3, <1>4, <1>5, Composed

LEMMA SignalHangupMoves ==
  ASSUME NEW c, Inv(c), NEW o \in Outcomes
  PROVE  Moves(c, onSignalHangup(c, o))
  <1> DEFINE r == [c EXCEPT !.st = "IDLE"]
             h == [c EXCEPT !.st = "REMOTE_HANGUP"]
  <1>1. "IDLE" \in States /\ "REMOTE_HANGUP" \in States BY DEF States
  <1>2. Keeps(c, r) /\ Inv(r) /\ Keeps(c, c) BY <1>1, FieldKeeps DEF Keeps, Same
  <1>3. onSignalHangup(c, o) \in {Bump(r), HangupCall(r, o), HangupCall(h, o), c}
    BY DEF onSignalHangup, abortVoicemailLocked
  <1>4. Moves(c, HangupCall(r, o)) /\ Moves(c, HangupCall(h, o)) BY <1>1, AbortMoves
  <1> HIDE DEF r, h
  <1>5. Keeps(r, Bump(r)) BY <1>2, ResetKeeps
  <1> QED BY <1>2, <1>3, <1>4, <1>5, Composed

With(c, t) == [c EXCEPT !.tasks = @ \cup {t}]

LEMMA TaskKeeps ==
  ASSUME NEW c, Inv(c), NEW t \in Tasks
  PROVE  Keeps(c, With(c, t))
  <1>1. c \in Daemon BY DEF Inv
  <1>2. Idle(c, With(c, t)) /\ With(c, t).sess = c.sess BY <1>1 DEF Idle, Same, Daemon, With
  <1> QED BY <1>2, IdleIsKept

LEMMA RingKeeps ==
  ASSUME NEW c, Inv(c), NEW call \in Callers
  PROVE  Keeps(c, onSignalRing(c, call))
  <1> DEFINE r == [c EXCEPT !.st = "RINGING"]
             b == Bump(r)
             t == Task("watch", call)
  <1>1. "RINGING" \in States /\ t \in Tasks BY DEF States, Tasks, Task
  <1>2. Keeps(c, r) /\ Inv(r) /\ Keeps(c, c) BY <1>1, FieldKeeps DEF Keeps, Same
  <1>3. onSignalRing(c, call) \in {c, With(b, t)} BY DEF onSignalRing, With
  <1> HIDE DEF r, t
  <1>4. Keeps(r, b) /\ Inv(b) BY <1>2, ResetKeeps DEF Keeps
  <1> HIDE DEF b
  <1>5. Keeps(b, With(b, t)) BY <1>1, <1>4, TaskKeeps
  <1> QED BY <1>2, <1>3, <1>4, <1>5, Composed

Keys == {"7", "9", "#", "*"}

LEMMA KeyKeeps ==
  ASSUME NEW c, Inv(c), NEW key, NEW listed \in BOOLEAN,
         c.st \in {"DIALTONE", "DIALING", "VM_PLAYBACK", "VM_RECORD_GREETING"},
         c.st = "DIALING" => key \in {"*96", "*97", "*98", "*99"},
         c.st = "VM_PLAYBACK" => key \in Keys
  PROVE  Keeps(c, onKey(c, key, listed))
  <1> DEFINE dl == [c EXCEPT !.st = "DIALING"]
             pb == [c EXCEPT !.st = "VM_PLAYBACK"]
             rg == [c EXCEPT !.st = "VM_RECORD_GREETING"]
             pg == [c EXCEPT !.st = "VM_PLAY_GREETING"]
             dt == [c EXCEPT !.st = "DIALTONE"]
  <1>1. {"DIALING", "VM_PLAYBACK", "VM_RECORD_GREETING", "VM_PLAY_GREETING", "DIALTONE"} \subseteq States
    BY DEF States
  <1>2. /\ Keeps(c, dl) /\ Keeps(c, pb) /\ Keeps(c, rg) /\ Keeps(c, pg) /\ Keeps(c, dt) /\ Keeps(c, c)
        /\ Inv(pb) /\ Inv(rg) /\ Inv(pg) /\ Inv(dt)
    BY <1>1, FieldKeeps DEF Keeps, Same
  <1>3. \/ onKey(c, key, listed) \in
             {dl, VoicemailEnterPlayback(pb, listed), Spawn(rg, "record"), Spawn(pg, "audition"),
              Spawn(dt, "erase"), Spawn(c, "finish"), c}
        \/ key \in Keys /\ onKey(c, key, listed) = Spawn(c, key)
    BY DEF onKey
  <1> HIDE DEF dl, pb, rg, pg, dt
  <1>4. Keeps(pb, VoicemailEnterPlayback(pb, listed)) BY <1>2, EnterKeeps
  <1>5. \A k \in {"record", "audition", "erase", "finish"} \cup Keys : Task(k, 0) \in Tasks
    BY Zero DEF Tasks, Task, Keys
  <1>6. /\ Keeps(rg, Spawn(rg, "record")) /\ Keeps(pg, Spawn(pg, "audition"))
        /\ Keeps(dt, Spawn(dt, "erase")) /\ Keeps(c, Spawn(c, "finish"))
        /\ key \in Keys => Keeps(c, Spawn(c, key))
    <2>1. Keeps(rg, Spawn(rg, "record")) BY <1>2, <1>5, SpawnKeeps
    <2>2. Keeps(pg, Spawn(pg, "audition")) BY <1>2, <1>5, SpawnKeeps
    <2>3. Keeps(dt, Spawn(dt, "erase")) BY <1>2, <1>5, SpawnKeeps
    <2>4. Keeps(c, Spawn(c, "finish")) BY <1>5, SpawnKeeps
    <2>5. key \in Keys => Keeps(c, Spawn(c, key)) BY <1>5, SpawnKeeps
    <2> QED BY <2>1, <2>2, <2>3, <2>4, <2>5
  <1> QED BY <1>2, <1>3, <1>4, <1>6, Composed

-----------------------------------------------------------------------------
(* The actions: each makes a step of the mailbox, or none.                 *)

LEMMA CountedOnDisk ==
  ASSUME NEW k \in Disk
  PROVE  Cardinality(Unheard(k)) \in 0 .. MaxRecordings
  <1>1. Unheard(k) \in SUBSET Ids BY DEF Unheard, Disk
  <1>2. IsFiniteSet(Ids) /\ Cardinality(Ids) = MaxRecordings
    BY StoreAssumption, VoicemailAssumption, FS_Interval DEF Ids
  <1>3. IsFiniteSet(Unheard(k)) /\ Cardinality(Unheard(k)) <= MaxRecordings
    BY <1>1, <1>2, FS_Subset
  <1>4. Cardinality(Unheard(k)) \in Nat BY <1>3, FS_CardinalityType
  <1> QED BY <1>3, <1>4, StoreAssumption

LEMMA Counted ==
  ASSUME NEW c \in Daemon
  PROVE  UnheardCount(c) \in 0 .. MaxRecordings
  BY CountedOnDisk DEF UnheardCount, Daemon

LEMMA DoMoves ==
  ASSUME NEW c, Moves(d, c), Do(c)
  PROVE  Moves(d, d')
  <1>1. d' = [c EXCEPT !.sent = FALSE] BY DEF Do
  <1>2. Keeps(c, [c EXCEPT !.sent = FALSE]) BY FieldKeeps DEF Moves
  <1> QED BY <1>1, <1>2, Composed

LEMMA StaysMoves ==
  ASSUME Inv(d)
  PROVE  Keeps(d, d) /\ Moves(d, d)
  BY Composed DEF Keeps, Same

(* The handset and the keys.                                               *)
LEMMA HookMoves ==
  ASSUME Inv(d), NEW o, HookOff(o) \/ HookOn(o)
  PROVE  Moves(d, d')
  <1>1. o \in Outcomes BY DEF HookOff, HookOn, Outcome, Outcomes
  <1>2. CASE HookOff(o)
    <2>1. Moves(d, onHookOff(d, o)) BY <1>1, HookOffMoves
    <2>2. Do(onHookOff(d, o)) BY <1>2 DEF HookOff
    <2> QED BY <2>1, <2>2, DoMoves
  <1>3. CASE HookOn(o)
    <2>1. Moves(d, onHookOn(d, o)) BY <1>1, HookOnMoves
    <2>2. Do(onHookOn(d, o)) BY <1>3 DEF HookOn
    <2> QED BY <2>1, <2>2, DoMoves
  <1> QED BY <1>2, <1>3

LEMMA KeyStepMoves ==
  ASSUME Inv(d), NEW key, NEW o, Key(key, o)
  PROVE  Moves(d, d')
  <1> DEFINE listed == o = "ok"
  <1>1. listed \in BOOLEAN OBVIOUS
  <1>2. /\ d.st \in {"DIALTONE", "DIALING", "VM_PLAYBACK", "VM_RECORD_GREETING"}
        /\ d.st = "DIALING" => key \in {"*96", "*97", "*98", "*99"}
        /\ d.st = "VM_PLAYBACK" => key \in Keys
    BY DEF Key, Keys
  <1>3. Do(onKey(d, key, listed)) BY DEF Key
  <1> HIDE DEF listed
  <1>4. Keeps(d, onKey(d, key, listed)) BY <1>1, <1>2, KeyKeeps
  <1>5. Moves(d, onKey(d, key, listed)) BY <1>4, Composed
  <1> QED BY <1>3, <1>5, DoMoves

(* Calls and the connection.                                               *)
LEMMA CallMoves ==
  ASSUME Inv(d), far \in Callers, used.calls \in 0 .. MaxCalls,
         Ring \/ Offer \/ \E o \in Outcomes : CallerHangsUp(o)
  PROVE  Moves(d, d')
  <1>1. CASE Ring
    <2>1. used.calls + 1 \in Callers BY <1>1, VoicemailAssumption DEF Ring, Callers
    <2>2. Keeps(d, onSignalRing(d, used.calls + 1)) BY <2>1, RingKeeps
    <2> QED BY <1>1, <2>2, Composed DEF Ring
  <1>2. CASE Offer
    <2>1. d' = [d EXCEPT !.offer = far] /\ d.peer = 0 /\ d \in Daemon BY <1>2 DEF Offer, Inv
    <2>2. d' \in Daemon /\ Same(d, d') /\ d'.peer = 0 /\ d'.frames = d.frames /\ d'.sess = d.sess
      BY <2>1 DEF Daemon, Same
    <2>3. Keeps(d, d') BY <2>1, <2>2 DEF Keeps, Inv, StoreOK, DiskOK, CallOK, Same
    <2> QED BY <2>3, Composed
  <1>3. ASSUME NEW o \in Outcomes, CallerHangsUp(o) PROVE Moves(d, d')
    <2> DEFINE h == onSignalHangup(d, o)
    <2>1. d' = IF ws THEN [h EXCEPT !.sent = FALSE] ELSE d BY <1>3 DEF CallerHangsUp
    <2>2. Moves(d, h) /\ Inv(h) BY SignalHangupMoves DEF Moves
    <2> HIDE DEF h
    <2>3. Keeps(h, [h EXCEPT !.sent = FALSE]) BY <2>2, FieldKeeps
    <2> QED BY <2>1, <2>2, <2>3, Composed, StaysMoves
  <1> QED BY <1>1, <1>2, <1>3

LEMMA ReconnectMoves ==
  ASSUME Inv(d), NEW o, Reconnect(o)
  PROVE  Moves(d, d')
  <1> DEFINE h == HangupCall(d, o)
             r == Spawn(h, "reset")
  <1>1. o \in Outcomes BY DEF Reconnect, Outcome, Outcomes
  <1>2. d' \in {[r EXCEPT !.sent = FALSE], Spawn(d, "publish")} BY DEF Reconnect
  <1>3. Task("reset", 0) \in Tasks /\ Task("publish", 0) \in Tasks BY Zero DEF Tasks, Task
  <1>4. Moves(d, h) /\ Inv(h) BY <1>1, HangupMoves DEF Moves
  <1> HIDE DEF h
  <1>5. Keeps(h, r) /\ Inv(r) BY <1>3, <1>4, SpawnKeeps DEF Keeps
  <1>6. Keeps(d, Spawn(d, "publish")) BY <1>3, SpawnKeeps
  <1> HIDE DEF r
  <1>7. Keeps(r, [r EXCEPT !.sent = FALSE]) BY <1>5, FieldKeeps
  <1> QED BY <1>2, <1>4, <1>5, <1>6, <1>7, Composed

LEMMA CrashMoves ==
  ASSUME Inv(d), NEW o, Crash(o)
  PROVE  Moves(d, d') /\ UnheardCount(finalizeGreeting(finalizeRecorder(d, o), o)) \in 0 .. MaxRecordings
  <1> DEFINE f == finalizeRecorder(d, o)
             c == finalizeGreeting(f, o)
             n == UnheardCount(c)
  <1>1. o \in Outcomes BY DEF Crash, Outcomes
  <1>2. Moves(d, f) /\ Inv(f) /\ f.rec = 0 BY <1>1, RecorderFinished DEF Moves, Inv, CallOK
  <1> HIDE DEF f
  <1>3. Keeps(f, c) /\ Inv(c) /\ c.rec = 0 BY <1>2, GreetingKeeps DEF Keeps
  <1>4. d' = [c EXCEPT !.st = "IDLE", !.offer = 0, !.peer = 0, !.armed = FALSE, !.muted = FALSE,
                       !.chan = FALSE, !.bridged = FALSE, !.sess = NoSession, !.queue = {},
                       !.mixer = FALSE, !.tasks = {}, !.last = n]
    BY DEF Crash, f
  <1> HIDE DEF c
  <1>5. c \in Daemon BY <1>3 DEF Inv
  <1>6. n \in 0 .. MaxRecordings BY <1>5, Counted
  <1> HIDE DEF n
  <1>7. "IDLE" \in States /\ n \in -1 .. MaxRecordings /\ NoSession \in Session /\ NoSession.id = 0
    <2>1. 0 \in 0 .. MaxRecordings BY VoicemailAssumption, StoreAssumption
    <2> QED BY <1>6, <2>1 DEF States, NoSession, Session
  <1> DEFINE z == NoSession
  <1>8. z \in Session /\ z.id = 0 BY <1>7
  <1> HIDE DEF z
  <1>9. d' \in Daemon
    <2>1. d' = [c EXCEPT !.st = "IDLE", !.offer = 0, !.peer = 0, !.armed = FALSE, !.muted = FALSE,
                         !.chan = FALSE, !.bridged = FALSE, !.sess = z, !.queue = {},
                         !.mixer = FALSE, !.tasks = {}, !.last = n]
      BY <1>4 DEF z
    <2> QED BY ZenonT(60), <1>5, <1>7, <1>8, <2>1, Zero DEF Daemon, Session
  <1>10. d'.sess = NoSession /\ d'.peer = 0 /\ d'.frames = c.frames /\ Same(c, d')
    BY <1>4, <1>5 DEF Daemon, Same
  <1>11. StoreOK(d')
    <2>1. d'.begun \in Nat BY <1>9 DEF Daemon
    <2> QED BY <1>3, <1>7, <1>10, <2>1 DEF Inv, StoreOK, DiskOK, Same
  <1>12. CallOK(d') BY <1>3, <1>10 DEF Inv, CallOK, Same
  <1>13. Keeps(c, d') BY <1>9, <1>10, <1>11, <1>12 DEF Keeps, Inv
  <1>14. UnheardCount(finalizeGreeting(finalizeRecorder(d, o), o)) = n BY DEF n, c, f
  <1> QED BY <1>2, <1>3, <1>6, <1>13, <1>14, Composed

(* A frame of the caller's: the last one the recording may have finishes   *)
(* it.                                                                     *)
LEMMA AppendMoves ==
  ASSUME Inv(d), NEW o, AppendFrame(o)
  PROVE  Moves(d, d')
  <1> DEFINE more == [d EXCEPT !.frames = @ + 1]
             f == finalizeRecorder(more, o)
  <1>1. o \in Outcomes /\ d \in Daemon /\ d.frames < MaxFrames BY DEF AppendFrame, Outcomes, Inv, CallOK
  <1>2. d' = IF more.frames < MaxFrames THEN more ELSE Spawn(f, "ended") BY DEF AppendFrame
  <1>3. /\ more \in Daemon /\ Same(d, more) /\ more.peer = d.peer /\ more.offer = d.offer
        /\ more.sess = d.sess
    <2>1. d.frames + 1 \in 0 .. MaxFrames BY <1>1, VoicemailAssumption DEF Daemon
    <2> QED BY <1>1, <2>1 DEF Daemon, Same
  <1> HIDE DEF more
  <1>4. StoreOK(more) /\ (more.peer # 0 => more.offer = 0)
    BY <1>3 DEF Inv, StoreOK, DiskOK, CallOK, Same
  <1>5. CASE more.frames < MaxFrames
    <2>1. Keeps(d, more) BY <1>3, <1>4, <1>5 DEF Keeps, Inv, CallOK, Same
    <2> QED BY <1>2, <1>5, <2>1, Composed
  <1>6. CASE ~ (more.frames < MaxFrames)
    <2>1. Moves(more, f) /\ Inv(f) BY <1>1, <1>3, <1>4, RecorderFinished DEF Moves
    <2>2. Task("ended", 0) \in Tasks BY Zero DEF Tasks, Task
    <2>3. d' = Spawn(f, "ended") BY <1>2, <1>6
    <2> HIDE DEF f
    <2>4. Keeps(f, d') BY <2>1, <2>2, <2>3, SpawnKeeps
    <2>5. Box(more) = Box(d) BY <1>3, SameBox
    <2>6. Moves(d, f) BY <2>1, <2>5 DEF Moves
    <2> QED BY <2>4, <2>6, Composed
  <1> QED BY <1>5, <1>6

(* ... and a frame of the greeting's.                                      *)
LEMMA GreetingFrameMoves ==
  ASSUME Inv(d), NEW atCap, GreetingFrame(atCap)
  PROVE  Moves(d, d')
  <1> DEFINE e == [d EXCEPT !.grec = 1]
  <1>1. d' \in {e, Spawn(e, "finish")} BY DEF GreetingFrame
  <1>2. d \in Daemon /\ 1 \in -1 .. 1 BY DEF Inv
  <1>3. Idle(d, e) /\ e.sess = d.sess BY <1>2 DEF Idle, Same, Daemon
  <1> HIDE DEF e
  <1>4. Keeps(d, e) /\ Inv(e) BY <1>3, IdleIsKept DEF Keeps
  <1>5. Task("finish", 0) \in Tasks BY Zero DEF Tasks, Task
  <1>6. Keeps(e, Spawn(e, "finish")) BY <1>4, <1>5, SpawnKeeps
  <1> QED BY <1>1, <1>4, <1>6, Composed

(* Goroutines that change neither the call nor the disk.                   *)
LEMMA TaskIsKnown ==
  ASSUME Inv(d), NEW t \in d.tasks
  PROVE  t \in Tasks /\ t.a \in Callers /\ Keeps(d, Without(d, t)) /\ Inv(Without(d, t))
  <1>1. t \in Tasks BY DEF Inv, Daemon
  <1> QED BY <1>1, WithoutKeeps DEF Tasks, Keeps

LEMMA WatcherMoves ==
  ASSUME Inv(d), NEW t \in d.tasks, ringTimeoutWatcher(t)
  PROVE  Moves(d, d')
  <1> DEFINE c == Without(d, t)
             g == [c EXCEPT !.st = "VM_GREETING"]
             u == Task("answer", 1)
  <1>0. u \in Tasks BY VoicemailAssumption DEF Tasks, Task, Callers
  <1>1. d' \in {c, With(g, u)}
    <2>1. [c EXCEPT !.st = "VM_GREETING", !.tasks = @ \cup {u}] = With(g, u) BY DEF With
    <2> HIDE DEF c, u
    <2> QED BY <2>1 DEF ringTimeoutWatcher, c, u
  <1>2. Keeps(d, c) /\ Inv(c) BY TaskIsKnown
  <1> HIDE DEF c
  <1>3. Keeps(c, g) /\ Inv(g)
    <2>1. "VM_GREETING" \in States BY DEF States
    <2> QED BY <1>2, <2>1, FieldKeeps DEF Keeps
  <1> HIDE DEF g, u
  <1>4. Keeps(g, With(g, u)) BY <1>0, <1>3, TaskKeeps
  <1> QED BY <1>1, <1>2, <1>3, <1>4, Composed

(* The call is answered: a recording has the next number, which was        *)
(* nobody's, and replaces none, as a phone with an offer has no peer.      *)
LEMMA RecordingBegins ==
  ASSUME NEW c, Inv(c), c.rec = 0, c.peer # 0, c.begun < MaxRecordings,
         NEW e, e = [c EXCEPT !.rec = c.begun + 1, !.begun = c.begun + 1, !.frames = 0]
  PROVE  Moves(c, e)
  <1>1. c \in Daemon /\ c.begun \in Nat BY DEF Inv, Daemon
  <1>2. /\ e \in Daemon /\ e.disk = c.disk /\ e.rec = c.begun + 1 /\ e.begun = c.begun + 1
        /\ e.frames = 0 /\ e.peer = c.peer /\ e.offer = c.offer /\ e.sess = c.sess
    <2>1. c.begun + 1 \in 0 .. MaxRecordings /\ 0 \in 0 .. MaxFrames
      BY <1>1, StoreAssumption, VoicemailAssumption
    <2> QED BY ZenonT(60), <1>1, <2>1 DEF Daemon
  <1>3. DiskOK(e.disk, e.rec, e.begun)
    BY <1>1, <1>2 DEF Inv, StoreOK, DiskOK, Ids
  <1>4. c.sess.id \in Nat BY <1>1 DEF Daemon
  <1>5. StoreOK(e) BY <1>1, <1>2, <1>3, <1>4 DEF Inv, StoreOK
  <1>6. CallOK(e) BY <1>2, VoicemailAssumption DEF Inv, CallOK
  <1>7. Box(e) = Box(c)
    <2>1. ASSUME NEW id \in Ids
          PROVE  (id = e.rec \/ id > e.begun) <=> (id = c.rec \/ id > c.begun)
      BY <1>1, <1>2 DEF Ids
    <2> QED BY <1>2, <2>1 DEF Box, BoxOf
  <1> QED BY <1>2, <1>5, <1>6, <1>7 DEF Moves, Inv, BoxStep

LEMMA AutoAnswerMoves ==
  ASSUME Inv(d), NEW t \in d.tasks, NEW o, VoicemailAutoAnswer(t, o)
  PROVE  Moves(d, d')
  <1> DEFINE c    == Without(d, t)
             live == [c EXCEPT !.peer = d.offer, !.offer = 0, !.chan = TRUE, !.armed = FALSE]
             rec  == [live EXCEPT !.rec = live.begun + 1, !.begun = live.begun + 1, !.frames = 0]
             u    == Task("revert", t.a)
             w    == Task("wait", d.offer)
  <1>1. Keeps(d, c) /\ Inv(c) /\ c.offer = d.offer /\ c.begun = d.begun /\ t.a \in Callers
    BY TaskIsKnown DEF Without, Inv, Daemon
  <1>2. u \in Tasks /\ w \in Tasks BY <1>1 DEF Tasks, Task, Inv, Daemon
  <1> DEFINE next == IF o = "ok" THEN w ELSE u
  <1>3. \/ d' = With(c, u)
        \/ d.offer # 0 /\ d' = With(live, u)
        \/ d.offer # 0 /\ d.begun < MaxRecordings /\ (d' = With(rec, w) \/ d' = With(rec, u))
    <2>1. ASSUME NEW x
          PROVE  [live EXCEPT !.rec = d.begun + 1, !.begun = @ + 1, !.frames = 0,
                              !.tasks = @ \cup {x}] = With(rec, x)
      <3>1. live.begun = d.begun /\ live \in [DOMAIN live -> {live[y] : y \in DOMAIN live}]
        BY <1>1 DEF Inv, Daemon
      <3> HIDE DEF live
      <3> QED BY <3>1 DEF With
    <2>2. [c EXCEPT !.tasks = @ \cup {u}] = With(c, u) /\ [live EXCEPT !.tasks = @ \cup {u}] = With(live, u)
      BY DEF With
    <2>3. d' = CASE d.offer = 0 \/ o = "noPeer" -> [c EXCEPT !.tasks = @ \cup {u}]
                 [] d.offer # 0 /\ o = "noRecorder" -> [live EXCEPT !.tasks = @ \cup {next}]
                 [] d.offer # 0 /\ o \in {"ok", "noPipeline"} ->
                      [live EXCEPT !.rec = d.begun + 1, !.begun = @ + 1, !.frames = 0,
                                   !.tasks = @ \cup {next}]
      BY DEF VoicemailAutoAnswer
    <2>4. /\ o \in {"ok", "noPeer", "noRecorder", "noPipeline"}
          /\ o # "ok" => d.offer # 0
          /\ o \in {"ok", "noPipeline"} => d.offer = 0 \/ d.begun < MaxRecordings
      BY DEF VoicemailAutoAnswer
    <2>5. CASE o = "noRecorder"
      <3>1. next = u BY <2>5
      <3> HIDE DEF c, live, rec, u, w, next
      <3> QED BY <2>2, <2>3, <2>4, <2>5, <3>1
    <2>6. CASE o \in {"ok", "noPipeline"}
      <3>1. next \in {u, w} OBVIOUS
      <3>2. [live EXCEPT !.rec = d.begun + 1, !.begun = @ + 1, !.frames = 0,
                         !.tasks = @ \cup {next}] = With(rec, next)
        BY <2>1
      <3> HIDE DEF c, live, rec, u, w, next
      <3> QED BY <2>2, <2>3, <2>4, <2>6, <3>1, <3>2
    <2>7. CASE o = "noPeer"
      <3> HIDE DEF c, live, rec, u, w, next
      <3> QED BY <2>2, <2>3, <2>4, <2>7
    <2> QED BY <2>4, <2>5, <2>6, <2>7
  <1>4. CASE d' = With(c, u)
    <2> HIDE DEF c, u
    <2> QED BY <1>1, <1>2, <1>4, TaskKeeps, Composed
  <1>5. ASSUME d.offer # 0
        PROVE  Keeps(c, live) /\ Inv(live) /\ live.rec = 0 /\ live.peer # 0
    <2>1. c \in Daemon /\ d.offer \in Callers BY <1>1 DEF Inv, Daemon
    <2>2. c.rec = 0 BY <1>1, <1>5 DEF Inv, CallOK
    <2> HIDE DEF c
    <2>3. /\ live \in Daemon /\ Same(c, live) /\ live.peer = d.offer /\ live.offer = 0
          /\ live.frames = c.frames /\ live.sess = c.sess
      BY <2>1, Zero DEF Daemon, Same
    <2> HIDE DEF live
    <2> QED BY <1>1, <1>5, <2>2, <2>3 DEF Keeps, Inv, StoreOK, DiskOK, CallOK, Same
  <1>6. CASE d.offer # 0 /\ d' = With(live, u)
    <2> HIDE DEF c, live, u
    <2> QED BY <1>1, <1>2, <1>5, <1>6, TaskKeeps, Composed
  <1>7. CASE d.offer # 0 /\ d.begun < MaxRecordings /\ (d' = With(rec, w) \/ d' = With(rec, u))
    <2>1. live.begun = d.begun BY <1>1 DEF Inv, Daemon
    <2> HIDE DEF c, live, w, u
    <2>2. Moves(live, rec) /\ Inv(rec) BY <1>5, <1>7, <2>1, RecordingBegins DEF Moves
    <2> HIDE DEF rec
    <2>3. Keeps(rec, With(rec, w)) /\ Keeps(rec, With(rec, u)) BY <1>2, <2>2, TaskKeeps
    <2> QED BY <1>1, <1>5, <1>7, <2>2, <2>3, Composed
  <1> HIDE DEF c, live, rec, u, w
  <1> QED BY <1>3, <1>4, <1>6, <1>7

(* The greeting, and the recorder armed.                                   *)
LEMMA GreetingMoves ==
  ASSUME Inv(d), NEW t \in d.tasks, playVoicemailGreeting(t) \/ SetVoicemailRecording(t)
  PROVE  Moves(d, d')
  <1> DEFINE c == Without(d, t)
             u == Task("mute", t.a)
  <1>1. Keeps(d, c) /\ Inv(c) /\ u \in Tasks BY TaskIsKnown DEF Tasks, Task
  <1>2. CASE playVoicemailGreeting(t)
    <2>1. d' \in {With(c, u), c} BY <1>2 DEF playVoicemailGreeting, With
    <2> HIDE DEF c, u
    <2>2. Keeps(c, With(c, u)) BY <1>1, TaskKeeps
    <2> QED BY <1>1, <2>1, <2>2, Composed
  <1>3. CASE SetVoicemailRecording(t)
    <2> DEFINE m  == c.muted \/ d.peer = t.a
               st == IF c.st = "VM_GREETING" THEN "VM_RECORDING" ELSE c.st
    <2>1. d' = [c EXCEPT !.muted = m, !.armed = TRUE, !.st = st]
      BY <1>3 DEF SetVoicemailRecording
    <2> HIDE DEF c
    <2>2. c \in Daemon /\ m \in BOOLEAN /\ st \in States BY <1>1 DEF Inv, Daemon, States
    <2> HIDE DEF m, st
    <2>3. Idle(c, d') /\ d'.sess = c.sess BY <2>1, <2>2 DEF Idle, Same, Daemon
    <2>4. Keeps(c, d') BY <1>1, <2>3, IdleIsKept
    <2> QED BY <1>1, <2>4, Composed
  <1> QED BY <1>2, <1>3

(* The call did not go live.                                               *)
LEMMA AbandonMoves ==
  ASSUME Inv(d), NEW t \in d.tasks, NEW o,
         revert(t, o) \/ \E connected \in BOOLEAN : waitForPeerConnected(t, connected, o)
  PROVE  Moves(d, d')
  <1> DEFINE c == Without(d, t)
             u == Task("greet", t.a)
             h == abortVoicemailLocked(c, o)
  <1>1. Keeps(d, c) /\ Inv(c) /\ u \in Tasks BY TaskIsKnown DEF Tasks, Task
  <1>2. o \in Outcomes BY DEF revert, waitForPeerConnected, Outcome, Outcomes
  <1>3. Do(c) \/ Do(h) \/ Do(With(c, u))
    <2>1. CASE revert(t, o) BY <2>1 DEF revert
    <2>2. ASSUME NEW connected \in BOOLEAN, waitForPeerConnected(t, connected, o)
          PROVE  Do(c) \/ Do(h) \/ Do(With(c, u))
      <3>1. Do(CASE connected -> With(c, u)
                 [] ~ connected /\ d.st = "VM_GREETING" -> h
                 [] ~ connected /\ d.st # "VM_GREETING" -> c)
        BY <2>2 DEF waitForPeerConnected, With
      <3> HIDE DEF c, h, u
      <3>2. CASE connected BY <3>1, <3>2
      <3>3. CASE ~ connected /\ d.st = "VM_GREETING" BY <3>1, <3>3
      <3>4. CASE ~ connected /\ d.st # "VM_GREETING" BY <3>1, <3>4
      <3> QED BY <3>2, <3>3, <3>4
    <2> QED BY <2>1, <2>2
  <1> HIDE DEF c, u
  <1>4. "IDLE" \in States BY DEF States
  <1>5. Moves(c, h) BY <1>1, <1>2, <1>4, AbortMoves DEF abortVoicemailLocked
  <1> HIDE DEF h
  <1>6. Moves(d, c) /\ Moves(d, h) /\ Moves(d, With(c, u)) BY <1>1, <1>5, TaskKeeps, Composed
  <1> QED BY <1>3, <1>6, DoMoves

(* The recording ended by itself: a reset, and then the hangup.            *)
LEMMA EndedMoves ==
  ASSUME Inv(d), NEW t \in d.tasks,
         VoicemailRecordEnded(t) \/ reconnectReset(t) \/ \E o \in Outcomes : recordEndedHangup(t, o)
  PROVE  Moves(d, d')
  <1> DEFINE c == Without(d, t)
             r == Reset(c)
  <1>1. Keeps(d, c) /\ Inv(c) BY TaskIsKnown
  <1>2. Task("hangup", 0) \in Tasks /\ Task("publish", 0) \in Tasks BY Zero DEF Tasks, Task
  <1>3. CASE VoicemailRecordEnded(t) \/ reconnectReset(t)
    <2>1. d' \in {Spawn(r, "hangup"), Spawn(r, "publish")}
      BY <1>3 DEF VoicemailRecordEnded, reconnectReset
    <2> HIDE DEF c
    <2>2. Keeps(c, r) /\ Inv(r) BY <1>1, ResetKeeps DEF Keeps
    <2> HIDE DEF r
    <2>3. Keeps(r, Spawn(r, "hangup")) BY <1>2, <2>2, SpawnKeeps
    <2>4. Keeps(r, Spawn(r, "publish")) BY <1>2, <2>2, SpawnKeeps
    <2> QED BY <1>1, <2>1, <2>2, <2>3, <2>4, Composed
  <1>4. ASSUME NEW o \in Outcomes, recordEndedHangup(t, o) PROVE Moves(d, d')
    <2> DEFINE h == HangupCall(c, o)
    <2>1. Do(Spawn(h, "publish")) BY <1>4 DEF recordEndedHangup
    <2> HIDE DEF c
    <2>2. Moves(c, h) /\ Inv(h) BY <1>1, HangupMoves DEF Moves
    <2> HIDE DEF h
    <2>3. Keeps(h, Spawn(h, "publish")) BY <1>2, <2>2, SpawnKeeps
    <2>4. Moves(d, Spawn(h, "publish")) BY <1>1, <2>2, <2>3, Composed
    <2> QED BY <2>1, <2>4, DoMoves
  <1> QED BY <1>3, <1>4

(* Playback.                                                               *)
LEMMA PlaybackMoves ==
  ASSUME Inv(d), NEW t \in d.tasks, t.k \in {"loop", "oldloop", "saved", "exit"} \cup Keys,
         PlaybackStep(t)
  PROVE  Moves(d, d')
  <1> DEFINE c == Without(d, t)
  <1>1. Keeps(d, c) /\ Inv(c) BY TaskIsKnown
  <1>2. \/ \E current \in BOOLEAN : d' = voicemailPlaybackLoop(c, current)
        \/ d' = transitionToSavedPhase(c)
        \/ t.k \in Keys /\ d' = VoicemailKey(c, t.k)
        \/ d' = ResetToDialtone(c)
    BY DEF PlaybackStep, Keys
  <1> HIDE DEF c
  <1>3. ASSUME NEW current \in BOOLEAN, d' = voicemailPlaybackLoop(c, current) PROVE Moves(c, d')
    BY <1>1, <1>3, LoopKeeps, Composed
  <1>4. CASE d' = transitionToSavedPhase(c) BY <1>1, <1>4, SavedPhaseMoves, Composed
  <1>5. CASE t.k \in Keys /\ d' = VoicemailKey(c, t.k)
    <2>1. Moves(c, VoicemailKey(c, t.k)) BY <1>1, <1>5, KeyMoves DEF Keys
    <2> QED BY <1>1, <1>5, <2>1, Composed
  <1>6. CASE d' = ResetToDialtone(c) BY <1>1, <1>6, ResetKeeps, Composed
  <1> QED BY <1>1, <1>2, <1>3, <1>4, <1>5, <1>6, Composed

(* The custom greeting.                                                    *)
LEMMA CustomGreetingMoves ==
  ASSUME Inv(d), NEW t \in d.tasks,
         \/ \E o \in {"ok", "failed"} : VoicemailRecordGreeting(t, o)
         \/ \E o \in Outcomes : finalizeGreetingRecording(t, o)
         \/ FinishGreetingAudition(t)
         \/ VoicemailDeleteGreeting(t)
  PROVE  Moves(d, d')
  <1> DEFINE c == Without(d, t)
             n == [c EXCEPT !.grec = 0]
             k == [c.disk EXCEPT !.greeting = FALSE]
             e == [c EXCEPT !.disk = k]
  <1>1. Keeps(d, c) /\ Inv(c) BY TaskIsKnown
  <1>2. \/ \E o \in Outcomes : d' = Spawn(finalizeGreeting(c, o), "exit")
        \/ d' \in {c, n, ResetToDialtone(c), e}
    <2>1. ASSUME NEW o \in {"ok", "failed"}, VoicemailRecordGreeting(t, o)
          PROVE  d' \in {n, ResetToDialtone(c)}
      BY <2>1 DEF VoicemailRecordGreeting
    <2>2. ASSUME NEW o \in Outcomes, finalizeGreetingRecording(t, o)
          PROVE  d' \in {c, Spawn(finalizeGreeting(c, o), "exit")}
      BY <2>2 DEF finalizeGreetingRecording
    <2>3. CASE FinishGreetingAudition(t) BY <2>3 DEF FinishGreetingAudition
    <2>4. CASE VoicemailDeleteGreeting(t)
      <3>1. c \in Daemon BY <1>1 DEF Inv
      <3>2. d' = [c EXCEPT !.disk.greeting = FALSE] BY <2>4 DEF VoicemailDeleteGreeting
      <3> HIDE DEF c
      <3> QED BY <3>1, <3>2 DEF Daemon
    <2> HIDE DEF c, n, e
    <2> QED BY <2>1, <2>2, <2>3, <2>4
  <1>3. c \in Daemon /\ c.disk \in Disk BY <1>1 DEF Inv, Daemon
  <1> HIDE DEF c
  <1>4. Idle(c, n) /\ n.sess = c.sess
    <2>1. 0 \in -1 .. 1 OBVIOUS
    <2> QED BY <1>3, <2>1 DEF Idle, Same, Daemon
  <1>5. Idle(c, e) /\ e.sess = c.sess
    <2>1. k \in Disk /\ k.frames = c.disk.frames /\ k.meta = c.disk.meta BY <1>3 DEF Disk
    <2> HIDE DEF k
    <2> QED BY <1>3, <2>1 DEF Idle, Same, Daemon
  <1> HIDE DEF n, e
  <1>6. Keeps(c, n) /\ Keeps(c, e) /\ Keeps(c, ResetToDialtone(c))
    BY <1>1, <1>4, <1>5, IdleIsKept, ResetKeeps
  <1>7. ASSUME NEW o \in Outcomes PROVE Keeps(c, Spawn(finalizeGreeting(c, o), "exit"))
    <2> DEFINE g == finalizeGreeting(c, o)
    <2>1. Keeps(c, g) /\ Inv(g) BY <1>1, GreetingKeeps DEF Keeps
    <2>2. Task("exit", 0) \in Tasks BY Zero DEF Tasks, Task
    <2> HIDE DEF g
    <2>3. Keeps(g, Spawn(g, "exit")) BY <2>1, <2>2, SpawnKeeps
    <2> QED BY <2>1, <2>3, Composed DEF g
  <1> QED BY <1>1, <1>2, <1>6, <1>7, Composed

(* The count of unheard messages.                                          *)
LEMMA PublishMoves ==
  ASSUME Inv(d), NEW t \in d.tasks, publishVoicemailState(t)
  PROVE  Moves(d, d')
  <1> DEFINE c == Without(d, t)
             n == IF ws THEN UnheardCount(d) ELSE c.last
  <1>1. Keeps(d, c) /\ Inv(c) /\ c \in Daemon BY TaskIsKnown DEF Inv
  <1>2. d' = [c EXCEPT !.last = n] BY DEF publishVoicemailState
  <1>3. n \in -1 .. MaxRecordings
    <2>1. d \in Daemon BY DEF Inv
    <2>2. UnheardCount(d) \in 0 .. MaxRecordings BY <2>1, Counted
    <2>3. c.last \in -1 .. MaxRecordings BY <1>1 DEF Daemon
    <2> HIDE DEF c
    <2> QED BY <2>2, <2>3
  <1> HIDE DEF c, n
  <1>4. Idle(c, d') /\ d'.sess = c.sess BY <1>1, <1>2, <1>3 DEF Idle, Same, Daemon
  <1> QED BY <1>1, <1>4, IdleIsKept, Composed

-----------------------------------------------------------------------------
(* What is outside the daemon.                                             *)

Around ==
  /\ hook \in {"on", "off"}
  /\ far \in Callers
  /\ ws \in BOOLEAN
  /\ badge \in -1 .. MaxRecordings
  /\ used \in [moves : 0 .. MaxSteps, calls : 0 .. MaxCalls, faults : 0 .. MaxFaults]

LEMMA Charged ==
  ASSUME Around, NEW o, NEW n \in {0, 1}, Charge(o, n)
  PROVE  used' \in [moves : 0 .. MaxSteps, calls : 0 .. MaxCalls, faults : 0 .. MaxFaults]
  <1> DEFINE faults == IF o = "ok" THEN 0 ELSE 1
  <1>1. /\ faults \in {0, 1} /\ used.faults + faults <= MaxFaults /\ used.moves + n + faults <= MaxSteps
        /\ used' = [used EXCEPT !.moves = @ + n + faults, !.faults = @ + faults]
    BY DEF Charge
  <1> HIDE DEF faults
  <1>2. used.moves \in Nat /\ used.faults \in Nat BY DEF Around
  <1>3. used.moves + n + faults \in 0 .. MaxSteps /\ used.faults + faults \in 0 .. MaxFaults
    BY <1>1, <1>2, VoicemailAssumption
  <1> QED BY <1>1, <1>3 DEF Around

LEMMA DoFar ==
  ASSUME Around, NEW c, Do(c)
  PROVE  far' \in Callers
  BY Zero DEF Around, Do

LEMMA AroundStays ==
  ASSUME Around, Inv(d), Next
  PROVE  Around'
  <1>1. 0 \in Callers /\ -1 \in -1 .. MaxRecordings BY Zero, StoreAssumption
  <1>2. ASSUME NEW o, HookOff(o) \/ HookOn(o) PROVE Around'
    <2>1. Charge(o, 1) /\ hook' \in {"on", "off"} /\ ws' = ws /\ badge' = badge
      BY <1>2 DEF HookOff, HookOn
    <2>2. \E c : Do(c) BY <1>2 DEF HookOff, HookOn
    <2> QED BY <2>1, <2>2, Charged, DoFar DEF Around
  <1>3. ASSUME NEW key, NEW o, Key(key, o) PROVE Around'
    <2>1. Charge(o, 1) /\ Do(onKey(d, key, o = "ok")) /\ UNCHANGED <<hook, ws, badge>>
      BY <1>3 DEF Key
    <2> QED BY <2>1, Charged, DoFar DEF Around
  <1>4. CASE Ring
    <2>1. used.moves + 1 \in 0 .. MaxSteps /\ used.calls + 1 \in 0 .. MaxCalls
      BY <1>4, VoicemailAssumption DEF Ring, Around
    <2> QED BY <1>4, <2>1 DEF Ring, Around, Callers
  <1>5. CASE Offer BY <1>5 DEF Offer, Around
  <1>6. ASSUME NEW o, CallerHangsUp(o) PROVE Around'
    <2>1. Charge(o, 0) /\ far' = 0 /\ UNCHANGED <<hook, ws, badge>> BY <1>6 DEF CallerHangsUp
    <2> QED BY <1>1, <2>1, Charged DEF Around
  <1>7. CASE Drop
    <2>1. used.moves + 1 \in 0 .. MaxSteps BY <1>7, VoicemailAssumption DEF Drop, Around
    <2>2. /\ used' = [used EXCEPT !.moves = @ + 1] /\ ws' = FALSE /\ badge' = -1
          /\ UNCHANGED <<hook, far>>
      BY <1>7 DEF Drop
    <2> QED BY <1>1, <2>1, <2>2 DEF Around
  <1>8. ASSUME NEW o, Reconnect(o) PROVE Around'
    <2>1. Charge(o, 0) /\ ws' = TRUE /\ far' \in {0, far} /\ UNCHANGED <<hook, badge>>
      BY <1>8 DEF Reconnect
    <2> QED BY <1>1, <2>1, Charged DEF Around
  <1>9. ASSUME NEW o, Crash(o) PROVE Around'
    <2>1. used.moves + 1 \in 0 .. MaxSteps BY <1>9, VoicemailAssumption DEF Crash, Around
    <2>2. /\ used' = [used EXCEPT !.moves = @ + 1] /\ far' = 0 /\ ws' = TRUE /\ UNCHANGED hook
          /\ badge' = UnheardCount(finalizeGreeting(finalizeRecorder(d, o), o))
      BY <1>9 DEF Crash
    <2>3. badge' \in 0 .. MaxRecordings BY <1>9, <2>2, CrashMoves
    <2> QED BY <1>1, <2>1, <2>2, <2>3 DEF Around
  <1>10. ASSUME NEW o, AppendFrame(o) PROVE Around'
    <2>1. Charge(o, 0) /\ UNCHANGED <<hook, far, ws, badge>> BY <1>10 DEF AppendFrame
    <2> QED BY <2>1, Charged DEF Around
  <1>11. ASSUME NEW atCap, GreetingFrame(atCap) PROVE Around'
    BY <1>11 DEF GreetingFrame, Around
  <1>12. CASE EndOfMessage BY <1>12 DEF EndOfMessage, Around
  <1>13. ASSUME NEW t, \/ ringTimeoutWatcher(t) \/ playVoicemailGreeting(t) \/ SetVoicemailRecording(t)
                       \/ VoicemailRecordEnded(t) \/ PlaybackStep(t) \/ FinishGreetingAudition(t)
                       \/ VoicemailDeleteGreeting(t) \/ reconnectReset(t)
         PROVE  Around'
    <2>1. UNCHANGED <<hook, far, ws, badge, used>>
      BY <1>13 DEF ringTimeoutWatcher, playVoicemailGreeting, SetVoicemailRecording, VoicemailRecordEnded,
                   PlaybackStep, FinishGreetingAudition, VoicemailDeleteGreeting, reconnectReset
    <2> QED BY <2>1 DEF Around
  <1>14. ASSUME NEW t, publishVoicemailState(t) PROVE Around'
    <2>1. d \in Daemon BY DEF Inv
    <2>2. UnheardCount(d) \in 0 .. MaxRecordings BY <2>1, Counted
    <2>3. badge' \in {badge, UnheardCount(d)} /\ UNCHANGED <<hook, far, ws, used>>
      BY <1>14 DEF publishVoicemailState
    <2> QED BY <2>2, <2>3 DEF Around
  <1>15. ASSUME NEW t, NEW o,
                VoicemailAutoAnswer(t, o) \/ VoicemailRecordGreeting(t, o) \/ finalizeGreetingRecording(t, o)
         PROVE  Around'
    <2>1. Charge(o, 0) /\ UNCHANGED <<hook, far, ws, badge>>
      BY <1>15 DEF VoicemailAutoAnswer, VoicemailRecordGreeting, finalizeGreetingRecording
    <2> QED BY <2>1, Charged DEF Around
  <1>16. ASSUME NEW t, NEW o,
                revert(t, o) \/ recordEndedHangup(t, o) \/ \E connected \in BOOLEAN : waitForPeerConnected(t, connected, o)
         PROVE  Around'
    <2>1. Charge(o, 0) /\ UNCHANGED <<hook, ws, badge>> /\ \E c : Do(c)
      BY <1>16 DEF revert, recordEndedHangup, waitForPeerConnected
    <2> QED BY <2>1, Charged, DoFar DEF Around
  <1>17. CASE TaskStep BY <1>17, <1>12, <1>13, <1>14, <1>15, <1>16 DEF TaskStep
  <1>18. CASE Environment
    BY <1>18, <1>2, <1>3, <1>4, <1>5, <1>6, <1>7, <1>8, <1>9, <1>10, <1>11 DEF Environment
  <1> QED BY <1>17, <1>18 DEF Next

-----------------------------------------------------------------------------
(* The inductive invariant.                                                *)

LEMMA Starts ==
  ASSUME Init
  PROVE  IInv
  <1> PICK frames \in {{}, {1, 2}}, heard \in SUBSET {1} :
        LET disk == [EmptyDisk EXCEPT !.frames = frames,
                       !.meta = [id \in Ids |-> IF id \notin frames THEN "none"
                                                ELSE IF id \in heard THEN "heard" ELSE "unheard"]]
            n    == Cardinality(Unheard(disk))
        IN  /\ d = [st |-> "IDLE", offer |-> 0, peer |-> 0, rec |-> 0, frames |-> 0, armed |-> FALSE,
                    muted |-> FALSE, chan |-> FALSE, bridged |-> FALSE, grec |-> -1, sess |-> NoSession,
                    queue |-> {}, mixer |-> FALSE, last |-> n, begun |-> 2, tasks |-> {},
                    sent |-> FALSE, disk |-> disk]
            /\ badge = n
    BY DEF Init
  <1> DEFINE meta == [id \in Ids |-> IF id \notin frames THEN "none"
                                     ELSE IF id \in heard THEN "heard" ELSE "unheard"]
             disk == [EmptyDisk EXCEPT !.frames = frames, !.meta = meta]
             n    == Cardinality(Unheard(disk))
             z    == NoSession
             g    == -1
  <1>1. {1, 2} \subseteq Ids /\ 2 \in 0 .. MaxRecordings /\ 0 \in 0 .. MaxRecordings /\ 0 \in 0 .. MaxFrames
        /\ 0 < MaxFrames /\ "IDLE" \in States /\ g \in -1 .. 1
    BY StoreAssumption, VoicemailAssumption DEF Ids, States
  <1>2. disk \in Disk /\ disk.frames = frames /\ disk.meta = meta /\ frames \subseteq Ids
    <2>1. meta \in [Ids -> {"none", "unheard", "heard"}] OBVIOUS
    <2> HIDE DEF meta
    <2> QED BY <1>1, <2>1 DEF Disk, EmptyDisk
  <1>3. \A id \in Ids : id > 2 => meta[id] # "heard"
    <2>1. \A id \in Ids : id > 2 => id \notin frames BY DEF Ids
    <2> QED BY <2>1
  <1>4. z \in Session /\ z.id = 0 BY <1>1 DEF NoSession, Session
  <1>5. /\ d = [st |-> "IDLE", offer |-> 0, peer |-> 0, rec |-> 0, frames |-> 0, armed |-> FALSE,
                muted |-> FALSE, chan |-> FALSE, bridged |-> FALSE, grec |-> g, sess |-> z,
                queue |-> {}, mixer |-> FALSE, last |-> n, begun |-> 2, tasks |-> {},
                sent |-> FALSE, disk |-> disk]
        /\ badge = n
    OBVIOUS
  <1> HIDE DEF meta, disk, z, g
  <1>6. n \in 0 .. MaxRecordings BY <1>2, CountedOnDisk
  <1> HIDE DEF n
  <1>7. n \in -1 .. MaxRecordings BY <1>6
  <1>8. d \in Daemon BY <1>1, <1>2, <1>4, <1>5, <1>7, Zero DEF Daemon, Session
  <1>9. /\ d.disk = disk /\ d.rec = 0 /\ d.begun = 2 /\ d.sess = z /\ d.peer = 0 /\ d.offer = 0
        /\ d.frames = 0
    BY <1>5
  <1>10. DiskOK(disk, 0, 2)
    <2>1. frames \subseteq {id \in Ids : id <= 2 /\ id # 0} BY <1>1
    <2>2. \A id \in Ids : id # 0 BY DEF Ids
    <2> QED BY <1>2, <1>3, <2>1, <2>2 DEF DiskOK
  <1>11. Inv(d) BY <1>1, <1>4, <1>8, <1>9, <1>10 DEF Inv, StoreOK, CallOK
  <1>12. Around
    <2>1. used \in [moves : 0 .. MaxSteps, calls : 0 .. MaxCalls, faults : 0 .. MaxFaults]
      BY VoicemailAssumption DEF Init
    <2> QED BY <1>5, <1>7, <2>1, Zero DEF Init, Around
  <1> QED BY <1>8, <1>11, <1>12 DEF IInv, TypeOK, Around

LEMMA EveryStep ==
  ASSUME IInv, Next
  PROVE  Moves(d, d')
  <1>1. Inv(d) /\ far \in Callers /\ used.calls \in 0 .. MaxCalls BY DEF IInv, TypeOK
  <1>2. CASE TaskStep
    <2>1. CASE EndOfMessage BY <1>1, <2>1, EndMoves DEF EndOfMessage
    <2>2. CASE \E t \in d.tasks :
                 \/ ringTimeoutWatcher(t)
                 \/ \E o \in {"ok", "noPeer", "noRecorder", "noPipeline"} : VoicemailAutoAnswer(t, o)
                 \/ playVoicemailGreeting(t) \/ SetVoicemailRecording(t)
      BY <1>1, <2>2, WatcherMoves, AutoAnswerMoves, GreetingMoves
    <2>3. CASE \E t \in d.tasks :
                 \/ VoicemailRecordEnded(t) \/ reconnectReset(t)
                 \/ \E o \in Outcomes : recordEndedHangup(t, o)
      BY <1>1, <2>3, EndedMoves
    <2>4. CASE \E t \in d.tasks :
                 t.k \in {"loop", "oldloop", "saved", "exit"} \cup Keys /\ PlaybackStep(t)
      BY <1>1, <2>4, PlaybackMoves
    <2>5. CASE \E t \in d.tasks :
                 \/ \E o \in {"ok", "failed"} : VoicemailRecordGreeting(t, o)
                 \/ \E o \in Outcomes : finalizeGreetingRecording(t, o)
                 \/ FinishGreetingAudition(t)
                 \/ VoicemailDeleteGreeting(t)
      BY <1>1, <2>5, CustomGreetingMoves
    <2>6. CASE \E t \in d.tasks : publishVoicemailState(t) BY <1>1, <2>6, PublishMoves
    <2>7. CASE \E t \in d.tasks, o \in Outcomes :
                 revert(t, o) \/ \E connected \in BOOLEAN : waitForPeerConnected(t, connected, o)
      BY <1>1, <2>7, AbandonMoves
    <2> QED BY <1>2, <2>1, <2>2, <2>3, <2>4, <2>5, <2>6, <2>7 DEF TaskStep, Outcomes, Keys
  <1>3. CASE Environment
    <2>1. ASSUME NEW o \in Outcomes, HookOff(o) \/ HookOn(o) PROVE Moves(d, d')
      BY <1>1, <2>1, HookMoves
    <2>2. CASE Ring \/ Offer \/ \E o \in Outcomes : CallerHangsUp(o) BY <1>1, <2>2, CallMoves
    <2>3. ASSUME NEW o \in Outcomes, Reconnect(o) PROVE Moves(d, d') BY <1>1, <2>3, ReconnectMoves
    <2>4. ASSUME NEW o \in Outcomes, Crash(o) PROVE Moves(d, d') BY <1>1, <2>4, CrashMoves
    <2>5. ASSUME NEW o \in Outcomes, AppendFrame(o) PROVE Moves(d, d') BY <1>1, <2>5, AppendMoves
    <2>6. ASSUME NEW key, NEW o, Key(key, o) PROVE Moves(d, d') BY <1>1, <2>6, KeyStepMoves
    <2>7. CASE Drop BY <1>1, <2>7, StaysMoves DEF Drop
    <2>8. ASSUME NEW atCap, GreetingFrame(atCap) PROVE Moves(d, d') BY <1>1, <2>8, GreetingFrameMoves
    <2> QED BY <1>3, <2>1, <2>2, <2>3, <2>4, <2>5, <2>6, <2>7, <2>8 DEF Environment, Outcomes
  <1> QED BY <1>2, <1>3 DEF Next

LEMMA IsInductive ==
  ASSUME IInv, [Next]_vars
  PROVE  IInv' /\ BoxStep(Box(d), Box(d'))
  <1>1. CASE Next
    <2>1. Inv(d') /\ BoxStep(Box(d), Box(d')) BY <1>1, EveryStep DEF Moves
    <2>2. Around' BY <1>1, AroundStays DEF IInv, TypeOK, Around
    <2>3. Inv(d)' /\ (d \in Daemon)' BY <2>1 DEF Inv
    <2> QED BY <2>1, <2>2, <2>3 DEF IInv, TypeOK, Around
  <1>2. CASE UNCHANGED vars
    <2>1. d' = d /\ Around' BY <1>2 DEF vars, IInv, TypeOK, Around
    <2>2. Inv(d)' /\ (d \in Daemon)' BY <2>1 DEF IInv, Inv
    <2> QED BY <2>1, <2>2 DEF IInv, TypeOK, Around, BoxStep
  <1> QED BY <1>1, <1>2

(* What holds of every reachable state: the number of the recording under  *)
(* way is the last one given out, no message has it or a later one, and    *)
(* the recorder belongs to a call with a peer.                             *)
THEOREM Invariance == Spec => []IInv
  <1>1. Init => IInv BY Starts
  <1>2. IInv /\ [Next]_vars => IInv' BY IsInductive
  <1> QED BY <1>1, <1>2, PTL DEF Spec

(* Every variable keeps its type, whatever the handset, the caller, the    *)
(* keys, the disk and the connection do.                                   *)
THEOREM TypeCorrect == Spec => []TypeOK
  <1>1. IInv => TypeOK BY DEF IInv
  <1> QED BY <1>1, Invariance, PTL

(* A recorder is open only in a call that has its peer and nobody else's   *)
(* offer: HangupCall, VoicemailPickup and the ends of a recording finish   *)
(* it before the peer is forgotten or another call answered.               *)
THEOREM RecordersAreFinished == Spec => []OneRecorder
  <1>1. IInv => OneRecorder BY DEF IInv, Inv, CallOK, OneRecorder
  <1> QED BY <1>1, Invariance, PTL

-----------------------------------------------------------------------------
(* The store implements the mailbox.                                       *)

LEMMA MailboxIsBox ==
  /\ mailbox = Box(d)
  /\ mailbox' = Box(d')
  BY DEF mailbox, Box, BoxOf

LEMMA SameCardinality == \A S : M!Cardinality(S) = Cardinality(S)
  BY DEF M!Cardinality, Cardinality

LEMMA MailboxSteps ==
  ASSUME BoxStep(mailbox, mailbox')
  PROVE  [M!Next]_mailbox
  <1>1. M!Kept = KeptIn(mailbox) BY DEF M!Kept, KeptIn
  <1>2. ASSUME NEW id \in Ids, NEW Gone \in SUBSET Ids, Stores(mailbox, mailbox', id, Gone)
        PROVE  M!Store(id, Gone)
    <2>1. mailbox[id] = "none" /\ Gone \subseteq M!Kept BY <1>1, <1>2 DEF Stores
    <2>2. M!Evicts(Gone) BY <1>1, <1>2, SameCardinality DEF Stores, M!Evicts
    <2>3. mailbox' = [m \in Ids |-> CASE m = id -> "unheard" [] m \in Gone -> "gone" [] OTHER -> mailbox[m]]
      BY <1>2 DEF Stores
    <2> QED BY <2>1, <2>2, <2>3 DEF M!Store
  <1>3. ASSUME NEW id \in Ids, mailbox[id] = "none", mailbox' = [mailbox EXCEPT ![id] = "gone"]
        PROVE  M!Lose(id)
    BY <1>3 DEF M!Lose
  <1>4. ASSUME NEW id \in Ids, mailbox[id] = "unheard", mailbox' = [mailbox EXCEPT ![id] = "heard"]
        PROVE  M!Hear(id)
    BY <1>4 DEF M!Hear
  <1>5. ASSUME NEW id \in Ids, id \in KeptIn(mailbox), mailbox' = [mailbox EXCEPT ![id] = "gone"]
        PROVE  M!Delete(id)
    BY <1>1, <1>5 DEF M!Delete
  <1>6. mailbox' = mailbox \/ M!Change BY <1>2, <1>3, <1>4, <1>5 DEF BoxStep, M!Change
  <1> QED BY <1>6 DEF M!Next

(* Every step of the answering machine is a step of the mailbox, or none:  *)
(* a recording is stored, lost or swept away, a message is heard, deleted, *)
(* or evicted as the oldest of a full mailbox, and nothing else becomes of *)
(* any (Finalize, evictLocked, MarkHeard, removeMessageLocked).            *)
THEOREM StoreRefinesMailbox == Spec => StoreIsAMailbox
  <1>1. Init => M!Init
    <2>1. mailbox \in [Ids -> {"none", "unheard", "heard", "gone"}] BY DEF mailbox
    <2> QED BY <2>1 DEF M!Init, M!States
  <1>2. IInv /\ [Next]_vars => [M!Next]_mailbox
    <2>1. IInv /\ [Next]_vars => BoxStep(mailbox, mailbox') BY IsInductive, MailboxIsBox
    <2> QED BY <2>1, MailboxSteps
  <1> QED BY <1>1, <1>2, Invariance, PTL DEF Spec, StoreIsAMailbox, M!Spec

-----------------------------------------------------------------------------
(* The count the server shows.  Whatever changes the unheard messages      *)
(* leaves a goroutine that will publish, or that ends in one that will.    *)

Debts == {"publish", "reset", "hangup", "ended"}

Owes(c) == \E t \in c.tasks : t.k \in Debts

(* The fields that are read here are there.                                *)
Whole(c) ==
  /\ "tasks" \in DOMAIN c /\ "last" \in DOMAIN c /\ "disk" \in DOMAIN c
  /\ "frames" \in DOMAIN c.disk /\ "meta" \in DOMAIN c.disk

(* What was owed still is, and where nothing is owed nothing has changed.  *)
Told(c, e) ==
  /\ Whole(e)
  /\ e.last = c.last
  /\ Owes(c) => Owes(e)
  /\ Owes(e) \/ Unheard(e.disk) = Unheard(c.disk)

LEMMA ToldTwice ==
  ASSUME NEW c, NEW e, NEW f
  PROVE  /\ Whole(c) => Told(c, c)
         /\ Told(c, e) /\ Told(e, f) => Told(c, f)
  BY DEF Told

(* The files of the messages, the last count and the goroutines are as     *)
(* they were.                                                              *)
LEMMA ToldNothing ==
  ASSUME NEW c, Whole(c), NEW e, DOMAIN e = DOMAIN c,
         e.tasks = c.tasks, e.last = c.last, e.disk = c.disk
  PROVE  Told(c, e)
  BY DEF Told, Whole, Owes

LEMMA FieldTold ==
  ASSUME NEW c, Whole(c), NEW x
  PROVE  /\ Told(c, [c EXCEPT !.st = x])
         /\ Told(c, [c EXCEPT !.offer = x])
         /\ Told(c, [c EXCEPT !.mixer = x])
         /\ Told(c, [c EXCEPT !.queue = x])
         /\ Told(c, [c EXCEPT !.sess = x])
         /\ Told(c, [c EXCEPT !.grec = x])
         /\ Told(c, [c EXCEPT !.sent = x])
  <1>1. Told(c, [c EXCEPT !.st = x]) BY ToldNothing DEF Whole
  <1>2. Told(c, [c EXCEPT !.offer = x]) BY ToldNothing DEF Whole
  <1>3. Told(c, [c EXCEPT !.mixer = x]) BY ToldNothing DEF Whole
  <1>4. Told(c, [c EXCEPT !.queue = x]) BY ToldNothing DEF Whole
  <1>5. Told(c, [c EXCEPT !.sess = x]) BY ToldNothing DEF Whole
  <1>6. Told(c, [c EXCEPT !.grec = x]) BY ToldNothing DEF Whole
  <1>7. Told(c, [c EXCEPT !.sent = x]) BY ToldNothing DEF Whole
  <1> QED BY <1>1, <1>2, <1>3, <1>4, <1>5, <1>6, <1>7

(* Goroutines come and go; those that owe the count stay.                  *)
LEMMA TasksTold ==
  ASSUME NEW c, Whole(c), NEW T, \A t \in c.tasks : t.k \in Debts => t \in T
  PROVE  Told(c, [c EXCEPT !.tasks = T])
  <1> DEFINE e == [c EXCEPT !.tasks = T]
  <1>1. DOMAIN e = DOMAIN c /\ e.tasks = T /\ e.last = c.last /\ e.disk = c.disk BY DEF Whole
  <1> HIDE DEF e
  <1>2. Owes(c) => Owes(e) BY <1>1 DEF Owes
  <1>3. Told(c, e) BY <1>1, <1>2 DEF Told, Whole
  <1> QED BY <1>3 DEF e

LEMMA SpawnTold ==
  ASSUME NEW c, Whole(c), NEW k
  PROVE  Told(c, Spawn(c, k)) /\ (k \in Debts => Owes(Spawn(c, k)))
  <1> DEFINE T == c.tasks \cup {Task(k, 0)}
             e == [c EXCEPT !.tasks = T]
  <1>1. Spawn(c, k) = e BY DEF Spawn
  <1>2. \A t \in c.tasks : t.k \in Debts => t \in T OBVIOUS
  <1>3. Task(k, 0) \in T /\ Task(k, 0).k = k BY DEF Task
  <1> HIDE DEF T
  <1>4. Told(c, e) BY <1>2, TasksTold
  <1>5. e.tasks = T BY DEF Whole
  <1> HIDE DEF e
  <1>6. k \in Debts => Owes(e) BY <1>3, <1>5 DEF Owes
  <1> QED BY <1>1, <1>4, <1>6

LEMMA WithTold ==
  ASSUME NEW c, Whole(c), NEW t
  PROVE  Told(c, With(c, t)) /\ (t.k \notin Debts => Told(c, Without(c, t)))
  <1> DEFINE T == c.tasks \cup {t}
             S == c.tasks \ {t}
  <1>1. With(c, t) = [c EXCEPT !.tasks = T] /\ Without(c, t) = [c EXCEPT !.tasks = S]
    BY DEF With, Without
  <1>2. \A u \in c.tasks : u.k \in Debts => u \in T OBVIOUS
  <1>3. t.k \notin Debts => \A u \in c.tasks : u.k \in Debts => u \in S OBVIOUS
  <1> HIDE DEF T, S
  <1> QED BY <1>1, <1>2, <1>3, TasksTold

LEMMA BumpTold ==
  ASSUME NEW c, Whole(c)
  PROVE  Told(c, Bump(c)) /\ Told(c, Retire(c))
  <1> DEFINE T == {IF t.k \in {"answer", "revert"} THEN Task(t.k, 0) ELSE t :
                     t \in {u \in c.tasks : u.k # "watch"}}
             S == {IF t.k = "loop" THEN Task("oldloop", 0) ELSE t : t \in c.tasks}
  <1>1. ASSUME NEW t \in c.tasks, t.k \in Debts PROVE t \in T /\ t \in S
    <2>1. t.k # "watch" /\ t.k \notin {"answer", "revert"} /\ t.k # "loop" BY <1>1 DEF Debts
    <2> QED BY <2>1
  <1>2. Bump(c) = [c EXCEPT !.tasks = T] /\ Retire(c) = [c EXCEPT !.tasks = S]
    BY DEF Bump, Retire
  <1> HIDE DEF T, S
  <1> QED BY <1>1, <1>2, TasksTold

LEMMA ResetTold ==
  ASSUME NEW c, Whole(c)
  PROVE  Told(c, Reset(c)) /\ Told(c, ResetToDialtone(c)) /\ Told(c, Bump(c))
  <1> DEFINE r == [c EXCEPT !.st = "IDLE"]
  <1>1. Told(c, r) /\ Whole(r) BY FieldTold DEF Told
  <1> HIDE DEF r
  <1>2. Told(r, Bump(r)) BY <1>1, BumpTold
  <1>3. Told(c, Bump(r)) BY <1>1, <1>2, ToldTwice
  <1> QED BY <1>3, BumpTold, FieldTold DEF Reset, ResetToDialtone, r

-----------------------------------------------------------------------------
(* ... by the recorder and the call.                                       *)

(* A recording that makes a message owes it.                               *)
LEMMA PublishedTold ==
  ASSUME NEW c, Whole(c)
  PROVE  Told(c, finalizeAndPublish(c, "ok"))
  <1> DEFINE k == IF c.rec = 0 THEN c.disk ELSE Finalize(c.disk, c.rec, c.frames, "ok")
             f == [c EXCEPT !.disk = k, !.rec = 0, !.frames = 0]
  <1>1. finalizeRecorder(c, "ok") = f BY DEF finalizeRecorder
  <1>2. DOMAIN k = DOMAIN c.disk BY DEF Finalize, evictLocked, removeMessageLocked
  <1>3. ~ (c.rec # 0 /\ Stored(c.frames, "ok")) => k = c.disk BY DEF Stored, Finalize
  <1> HIDE DEF k
  <1>4. Whole(f) /\ f.last = c.last /\ f.tasks = c.tasks /\ f.disk = k BY <1>2 DEF Whole
  <1> HIDE DEF f
  <1>5. CASE c.rec # 0 /\ Stored(c.frames, "ok")
    <2>1. finalizeAndPublish(c, "ok") = Spawn(f, "publish") BY <1>1, <1>5 DEF finalizeAndPublish
    <2>2. Told(f, Spawn(f, "publish")) /\ Owes(Spawn(f, "publish")) BY <1>4, SpawnTold DEF Debts
    <2> QED BY <1>4, <2>1, <2>2 DEF Told
  <1>6. CASE ~ (c.rec # 0 /\ Stored(c.frames, "ok"))
    <2>1. finalizeAndPublish(c, "ok") = f BY <1>1, <1>6 DEF finalizeAndPublish
    <2> QED BY <1>3, <1>4, <1>6, <2>1 DEF Told, Owes
  <1> QED BY <1>5, <1>6

LEMMA GreetingTold ==
  ASSUME NEW c, Whole(c), NEW o
  PROVE  Told(c, finalizeGreeting(c, o)) /\ Told(c, [c EXCEPT !.disk.greeting = FALSE])
  <1> DEFINE k(g) == [c.disk EXCEPT !.greeting = g]
             e(g) == [c EXCEPT !.disk = k(g), !.grec = -1]
             f    == [c EXCEPT !.disk = k(FALSE)]
  <1>1. ASSUME NEW g PROVE /\ "frames" \in DOMAIN k(g) /\ "meta" \in DOMAIN k(g)
                           /\ k(g).frames = c.disk.frames /\ k(g).meta = c.disk.meta
    BY DEF Whole
  <1> HIDE DEF k
  <1>2. ASSUME NEW g PROVE Told(c, e(g))
    <2>1. e(g).tasks = c.tasks /\ e(g).last = c.last /\ e(g).disk = k(g) /\ DOMAIN e(g) = DOMAIN c
      BY DEF Whole
    <2> HIDE DEF e
    <2> QED BY <1>1, <2>1 DEF Told, Whole, Owes, Unheard, Heard
  <1>3. Told(c, f)
    <2>1. f.tasks = c.tasks /\ f.last = c.last /\ f.disk = k(FALSE) /\ DOMAIN f = DOMAIN c
      BY DEF Whole
    <2> HIDE DEF f
    <2> QED BY <1>1, <2>1 DEF Told, Whole, Owes, Unheard, Heard
  <1>4. finalizeGreeting(c, o) = e(c.disk.greeting \/ (c.grec > 0 /\ o # "lost"))
    <2> DEFINE g == c.disk.greeting \/ (c.grec > 0 /\ o # "lost")
    <2>1. finalizeGreeting(c, o) = [c EXCEPT !.disk.greeting = g, !.grec = -1] BY DEF finalizeGreeting
    <2> HIDE DEF g
    <2>2. [c EXCEPT !.disk.greeting = g, !.grec = -1] = e(g) BY DEF Whole, k
    <2> QED BY <2>1, <2>2 DEF g
  <1>5. [c EXCEPT !.disk.greeting = FALSE] = f BY DEF k
  <1> HIDE DEF e, f
  <1> QED BY <1>2, <1>3, <1>4, <1>5

LEMMA HangupTold ==
  ASSUME NEW c, Whole(c)
  PROVE  Told(c, HangupCall(c, "ok")) /\ \A x : Told(c, HangupCall([c EXCEPT !.st = x], "ok"))
  <1>1. ASSUME NEW b, Whole(b) PROVE Told(b, HangupCall(b, "ok"))
    <2> DEFINE f == finalizeAndPublish(b, "ok")
               g == finalizeGreeting(f, "ok")
               e == [g EXCEPT !.offer = 0, !.peer = 0, !.chan = FALSE, !.bridged = FALSE,
                              !.muted = FALSE, !.sent = TRUE]
    <2>1. HangupCall(b, "ok") = e BY DEF HangupCall
    <2>2. Told(b, f) /\ Whole(f) BY <1>1, PublishedTold DEF Told
    <2> HIDE DEF f
    <2>3. Told(f, g) /\ Whole(g) BY <2>2, GreetingTold DEF Told
    <2> HIDE DEF g
    <2>4. DOMAIN e = DOMAIN g /\ e.tasks = g.tasks /\ e.last = g.last /\ e.disk = g.disk
      BY <2>3 DEF Whole
    <2> HIDE DEF e
    <2>5. Told(g, e) BY <2>3, <2>4, ToldNothing
    <2>6. Told(f, e) BY <2>3, <2>5, ToldTwice
    <2> QED BY <2>1, <2>2, <2>6, ToldTwice
  <1>2. ASSUME NEW x PROVE Told(c, HangupCall([c EXCEPT !.st = x], "ok"))
    <2> DEFINE r == [c EXCEPT !.st = x]
    <2>1. Told(c, r) /\ Whole(r) BY FieldTold DEF Told
    <2> HIDE DEF r
    <2>2. Told(r, HangupCall(r, "ok")) BY <1>1, <2>1
    <2>3. Told(c, HangupCall(r, "ok")) BY <2>1, <2>2, ToldTwice
    <2> QED BY <2>3 DEF r
  <1> QED BY <1>1, <1>2

LEMMA PickupTold ==
  ASSUME NEW c, Whole(c)
  PROVE  Told(c, VoicemailPickup(c, "ok")) /\ Told(c, AnswerCall(c))
  <1> DEFINE f == finalizeAndPublish(c, "ok")
             e == [f EXCEPT !.chan = FALSE, !.bridged = TRUE, !.muted = FALSE]
             a == [c EXCEPT !.peer = c.offer, !.offer = 0, !.bridged = TRUE]
  <1>1. Told(c, f) /\ Whole(f) BY PublishedTold DEF Told
  <1>2. VoicemailPickup(c, "ok") \in {f, e} BY DEF VoicemailPickup
  <1> HIDE DEF f
  <1>3. Told(f, e)
    <2>1. DOMAIN e = DOMAIN f /\ e.tasks = f.tasks /\ e.last = f.last /\ e.disk = f.disk
      BY <1>1 DEF Whole
    <2> HIDE DEF e
    <2> QED BY <1>1, <2>1, ToldNothing
  <1> HIDE DEF e
  <1>4. Told(c, e) BY <1>1, <1>3, ToldTwice
  <1>5. AnswerCall(c) \in {c, a} BY DEF AnswerCall
  <1>6. Told(c, a)
    <2>1. DOMAIN a = DOMAIN c /\ a.tasks = c.tasks /\ a.last = c.last /\ a.disk = c.disk BY DEF Whole
    <2> HIDE DEF a
    <2> QED BY <2>1, ToldNothing
  <1> HIDE DEF a
  <1> QED BY <1>1, <1>2, <1>4, <1>5, <1>6, ToldTwice

-----------------------------------------------------------------------------
(* ... by playback.                                                        *)

LEMMA TeardownTold ==
  ASSUME NEW c, Whole(c)
  PROVE  Told(c, teardownPlayback(c)) /\ Told(c, VoicemailExitPlayback(c))
  <1> DEFINE r == Retire(c)
             t == [r EXCEPT !.sess = NoSession]
             e == [t EXCEPT !.mixer = FALSE, !.queue = {}]
  <1>1. teardownPlayback(c) = t /\ VoicemailExitPlayback(c) = e
    BY DEF teardownPlayback, VoicemailExitPlayback
  <1>2. Told(c, r) /\ Whole(r) BY BumpTold DEF Told
  <1> HIDE DEF r
  <1>3. Told(r, t) /\ Whole(t) BY <1>2, FieldTold DEF Told
  <1>4. Told(c, t) BY <1>2, <1>3, ToldTwice
  <1> HIDE DEF t
  <1>5. Told(t, e)
    <2>1. DOMAIN e = DOMAIN t /\ e.tasks = t.tasks /\ e.last = t.last /\ e.disk = t.disk
      BY <1>3 DEF Whole
    <2> HIDE DEF e
    <2> QED BY <1>3, <2>1, ToldNothing
  <1> HIDE DEF e
  <1> QED BY <1>1, <1>4, <1>5, ToldTwice

LEMMA SessionTold ==
  ASSUME NEW c, Whole(c), NEW id, NEW saved
  PROVE  Told(c, newPlaybackSession(c, id, saved))
  <1> DEFINE r == Retire(c)
             n == [id |-> id, saved |-> saved, on |-> FALSE]
             e == [r EXCEPT !.sess = n]
  <1>1. newPlaybackSession(c, id, saved) = Spawn(e, "loop") BY DEF newPlaybackSession
  <1>2. Told(c, r) /\ Whole(r) BY BumpTold DEF Told
  <1> HIDE DEF r, n
  <1>3. Told(r, e) /\ Whole(e) BY <1>2, FieldTold DEF Told
  <1> HIDE DEF e
  <1>4. Told(e, Spawn(e, "loop")) BY <1>3, SpawnTold
  <1>5. Told(c, e) BY <1>2, <1>3, ToldTwice
  <1> QED BY <1>1, <1>4, <1>5, ToldTwice

LEMMA OpenedTold ==
  ASSUME NEW c, Whole(c), NEW after
  PROVE  Told(c, openNextUnheard(c, after)) /\ Told(c, openNextSaved(c))
  <1> DEFINE first == Min({id \in Unheard(c.disk) : id > after})
             kept  == c.queue \cap c.disk.frames
             none  == [c EXCEPT !.queue = {}]
             rest  == kept \ {Min(kept)}
             e     == [c EXCEPT !.queue = rest]
  <1>1. openNextUnheard(c, after) \in {c, newPlaybackSession(c, first, FALSE)} BY DEF openNextUnheard
  <1>2. openNextSaved(c) \in {none, newPlaybackSession(e, Min(kept), TRUE)} BY DEF openNextSaved
  <1> HIDE DEF first, kept, rest
  <1>3. Told(c, none) /\ Told(c, e) /\ Whole(e) BY FieldTold DEF Told
  <1> HIDE DEF none, e
  <1>4. Told(e, newPlaybackSession(e, Min(kept), TRUE)) BY <1>3, SessionTold
  <1>5. Told(c, newPlaybackSession(e, Min(kept), TRUE)) BY <1>3, <1>4, ToldTwice
  <1>6. Told(c, newPlaybackSession(c, first, FALSE)) /\ Told(c, c) BY SessionTold, ToldTwice
  <1> QED BY <1>1, <1>2, <1>3, <1>5, <1>6

LEMMA AdvanceTold ==
  ASSUME NEW c, Whole(c), NEW wasSaved \in BOOLEAN
  PROVE  Told(c, Advance(c, wasSaved))
  <1> DEFINE m == [c EXCEPT !.mixer = FALSE]
  <1>1. Advance(c, wasSaved) \in {c, Spawn(c, "saved"), Spawn(m, "exit")} BY DEF Advance
  <1>2. Told(c, m) /\ Whole(m) BY FieldTold DEF Told
  <1> HIDE DEF m
  <1>3. Told(m, Spawn(m, "exit")) /\ Told(c, Spawn(c, "saved")) BY <1>2, SpawnTold
  <1> QED BY <1>1, <1>2, <1>3, ToldTwice

LEMMA NextMessageTold ==
  ASSUME NEW c, Whole(c), NEW e, Told(c, e), NEW after, NEW saved \in BOOLEAN
  PROVE  /\ Told(c, Advance(openNextSaved(e), saved))
         /\ Told(c, Advance(openNextUnheard(e, after), saved))
  <1> DEFINE s == openNextSaved(e)
             u == openNextUnheard(e, after)
  <1>1. Whole(e) BY DEF Told
  <1>2. Told(e, s) /\ Told(e, u) /\ Whole(s) /\ Whole(u) BY <1>1, OpenedTold DEF Told
  <1> HIDE DEF s, u
  <1>3. Told(s, Advance(s, saved)) /\ Told(u, Advance(u, saved)) BY <1>2, AdvanceTold
  <1>4. Told(e, Advance(s, saved)) /\ Told(e, Advance(u, saved)) BY <1>2, <1>3, ToldTwice
  <1> QED BY <1>4, ToldTwice DEF s, u

LEMMA EnterTold ==
  ASSUME NEW c, Whole(c), NEW listed \in BOOLEAN
  PROVE  Told(c, VoicemailEnterPlayback(c, listed))
  <1> DEFINE heard   == c.disk.frames \ Unheard(c.disk)
             entered == [c EXCEPT !.mixer = TRUE, !.queue = heard]
             empty   == [c EXCEPT !.mixer = FALSE, !.queue = {}]
  <1>1. VoicemailEnterPlayback(c, listed) \in
          {Spawn(c, "exit"), Spawn(empty, "exit"), openNextUnheard(entered, 0), Advance(entered, FALSE)}
    BY DEF VoicemailEnterPlayback
  <1> HIDE DEF heard
  <1>2. /\ DOMAIN entered = DOMAIN c /\ entered.tasks = c.tasks /\ entered.last = c.last
        /\ entered.disk = c.disk
    BY DEF Whole
  <1>3. /\ DOMAIN empty = DOMAIN c /\ empty.tasks = c.tasks /\ empty.last = c.last
        /\ empty.disk = c.disk
    BY DEF Whole
  <1> HIDE DEF entered, empty
  <1>4. Told(c, entered) /\ Whole(entered) BY <1>2, ToldNothing DEF Told
  <1>5. Told(c, empty) /\ Whole(empty) BY <1>3, ToldNothing DEF Told
  <1>6. Told(c, Spawn(c, "exit")) /\ Told(empty, Spawn(empty, "exit")) BY <1>5, SpawnTold
  <1>7. Told(entered, openNextUnheard(entered, 0)) /\ Told(entered, Advance(entered, FALSE))
    BY <1>4, OpenedTold, AdvanceTold
  <1>8. Told(c, Spawn(empty, "exit")) BY <1>5, <1>6, ToldTwice
  <1>9. Told(c, openNextUnheard(entered, 0)) /\ Told(c, Advance(entered, FALSE))
    BY <1>4, <1>7, ToldTwice
  <1> QED BY <1>1, <1>6, <1>8, <1>9

(* A message that is deleted or marked is owed.                            *)
LEMMA MessageTold ==
  ASSUME NEW c, Whole(c), NEW id
  PROVE  LET t == teardownPlayback(c)
         IN  /\ Told(c, Spawn([t EXCEPT !.disk = removeMessageLocked(@, {id})], "publish"))
             /\ Told(c, Spawn([t EXCEPT !.disk = MarkHeard(@, id)], "publish"))
  <1> DEFINE t == teardownPlayback(c)
             x == [t EXCEPT !.disk = removeMessageLocked(@, {id})]
             m == [t EXCEPT !.disk = MarkHeard(@, id)]
  <1>1. Told(c, t) /\ Whole(t) BY TeardownTold DEF Told
  <1> HIDE DEF t
  <1>2. Whole(x) /\ x.last = t.last /\ Whole(m) /\ m.last = t.last
    BY <1>1 DEF Whole, removeMessageLocked, MarkHeard
  <1> HIDE DEF x, m
  <1>3. /\ Told(x, Spawn(x, "publish")) /\ Owes(Spawn(x, "publish"))
        /\ Told(m, Spawn(m, "publish")) /\ Owes(Spawn(m, "publish"))
    BY <1>2, SpawnTold DEF Debts
  <1>4. Told(c, Spawn(x, "publish")) /\ Told(c, Spawn(m, "publish")) BY <1>1, <1>2, <1>3 DEF Told
  <1> QED BY <1>4 DEF x, m, t

LEMMA KeyTold ==
  ASSUME NEW c, Whole(c), c.sess.saved \in BOOLEAN, NEW digit \in Keys
  PROVE  Told(c, VoicemailKey(c, digit))
  <1> DEFINE id    == c.sess.id
             saved == c.sess.saved
             torn  == teardownPlayback(c)
             gone  == Spawn([torn EXCEPT !.disk = removeMessageLocked(@, {id})], "publish")
             heard == Spawn([torn EXCEPT !.disk = MarkHeard(@, id)], "publish")
             after == IF digit = "#" THEN id ELSE 0
  <1>1. Told(c, torn) /\ Whole(torn) BY TeardownTold DEF Told
  <1>2. Told(c, gone) /\ Told(c, heard) BY MessageTold
  <1>3. CASE c.sess = NoSession
    <2>1. VoicemailKey(c, digit) = c BY <1>3 DEF VoicemailKey
    <2> QED BY <2>1, ToldTwice
  <1>4. CASE c.sess # NoSession /\ digit = "*" /\ id \in c.disk.frames
    <2>1. VoicemailKey(c, digit) = newPlaybackSession(torn, id, saved) BY <1>4 DEF VoicemailKey
    <2> HIDE DEF torn
    <2>2. Told(torn, newPlaybackSession(torn, id, saved)) BY <1>1, SessionTold
    <2> QED BY <1>1, <2>1, <2>2, ToldTwice
  <1>5. CASE c.sess # NoSession /\ digit = "*" /\ id \notin c.disk.frames
    <2> DEFINE m == [torn EXCEPT !.mixer = FALSE]
    <2>1. VoicemailKey(c, digit) = Spawn(m, "exit") BY <1>5 DEF VoicemailKey
    <2> HIDE DEF torn
    <2>2. Told(torn, m) /\ Whole(m) BY <1>1, FieldTold DEF Told
    <2> HIDE DEF m
    <2>3. Told(m, Spawn(m, "exit")) BY <2>2, SpawnTold
    <2>4. Told(torn, Spawn(m, "exit")) BY <2>2, <2>3, ToldTwice
    <2> QED BY <1>1, <2>1, <2>4, ToldTwice
  <1>6. CASE c.sess # NoSession /\ digit # "*"
    <2> DEFINE changed == CASE digit = "7" -> gone
                            [] digit = "9" /\ ~ saved -> heard
                            [] digit \in {"#", "*"} \/ (digit = "9" /\ saved) -> torn
    <2>1. VoicemailKey(c, digit) =
            Advance(CASE saved -> openNextSaved(changed) [] ~ saved -> openNextUnheard(changed, after), saved)
      BY <1>6 DEF VoicemailKey
    <2>2. changed \in {gone, heard, torn} BY DEF Keys
    <2> HIDE DEF gone, heard, torn
    <2>3. Told(c, changed) BY <1>1, <1>2, <2>2
    <2> HIDE DEF changed, after
    <2>4. /\ Told(c, Advance(openNextSaved(changed), saved))
          /\ Told(c, Advance(openNextUnheard(changed, after), saved))
      BY <2>3, NextMessageTold
    <2> QED BY <2>1, <2>4
  <1> QED BY <1>3, <1>4, <1>5, <1>6

LEMMA EndTold ==
  ASSUME NEW c, Whole(c)
  PROVE  Told(c, voicemailAdvanceFromEOF(c)) /\ Told(c, transitionToSavedPhase(c))
  <1> DEFINE torn == teardownPlayback(c)
             mark == Spawn([torn EXCEPT !.disk = MarkHeard(@, c.sess.id)], "publish")
  <1>1. Told(c, torn) /\ Told(c, mark) /\ Told(c, c) BY TeardownTold, MessageTold, ToldTwice
  <1>2. voicemailAdvanceFromEOF(c) \in
          {Advance(openNextSaved(torn), TRUE), Advance(openNextUnheard(mark, 0), FALSE)}
    BY DEF voicemailAdvanceFromEOF
  <1> HIDE DEF torn, mark
  <1>3. Told(c, Advance(openNextSaved(torn), TRUE)) /\ Told(c, Advance(openNextUnheard(mark, 0), FALSE))
        /\ Told(c, Advance(openNextSaved(c), TRUE))
    BY <1>1, NextMessageTold
  <1> QED BY <1>2, <1>3 DEF transitionToSavedPhase

LEMMA LoopTold ==
  ASSUME NEW c, Whole(c), NEW current \in BOOLEAN
  PROVE  Told(c, voicemailPlaybackLoop(c, current))
  <1> DEFINE torn == teardownPlayback(c)
             e    == [c EXCEPT !.sess.on = TRUE]
  <1>1. Told(c, torn) /\ Whole(torn) /\ Told(c, c) BY TeardownTold, ToldTwice DEF Told
  <1>2. voicemailPlaybackLoop(c, current) \in {Spawn(torn, "exit"), Spawn(c, "exit"), e, c}
    BY DEF voicemailPlaybackLoop
  <1> HIDE DEF torn
  <1>3. Told(c, e)
    <2>1. DOMAIN e = DOMAIN c /\ e.tasks = c.tasks /\ e.last = c.last /\ e.disk = c.disk BY DEF Whole
    <2> HIDE DEF e
    <2> QED BY <2>1, ToldNothing
  <1>4. Told(torn, Spawn(torn, "exit")) /\ Told(c, Spawn(c, "exit")) BY <1>1, SpawnTold
  <1> HIDE DEF e
  <1> QED BY <1>1, <1>2, <1>3, <1>4, ToldTwice

-----------------------------------------------------------------------------
(* ... by the controller's handlers.                                       *)

LEMMA HookTold ==
  ASSUME NEW c \in Daemon, Whole(c)
  PROVE  /\ Told(c, onHookOff(c, "ok")) /\ Told(c, onHookOn(c, "ok"))
         /\ Told(c, onSignalHangup(c, "ok"))
  <1> DEFINE r    == [c EXCEPT !.st = "IDLE"]
             tone == [c EXCEPT !.st = "DIALTONE"]
             conn == [c EXCEPT !.st = "CONNECTED"]
             h    == [c EXCEPT !.st = "REMOTE_HANGUP"]
             bump == Bump(conn)
  <1>1. c.st \in States BY DEF Daemon
  <1>2. /\ onHookOff(c, "ok") \in {tone, AnswerCall(bump), VoicemailPickup(conn, "ok"), c}
        /\ onHookOn(c, "ok") \in {HangupCall(r, "ok"), VoicemailExitPlayback(r), r}
        /\ onSignalHangup(c, "ok") \in {Bump(r), HangupCall(r, "ok"), HangupCall(h, "ok"), c}
    BY <1>1 DEF onHookOff, onHookOn, onSignalHangup, abortVoicemailLocked, States
  <1>3. /\ Told(c, r) /\ Whole(r) /\ Told(c, tone) /\ Told(c, conn) /\ Whole(conn) /\ Told(c, c)
        /\ Told(c, HangupCall(r, "ok")) /\ Told(c, HangupCall(h, "ok"))
    BY FieldTold, HangupTold, ToldTwice DEF Told
  <1> HIDE DEF r, tone, conn, h
  <1>4. Told(conn, bump) /\ Whole(bump) BY <1>3, BumpTold DEF Told
  <1> HIDE DEF bump
  <1>5. Told(bump, AnswerCall(bump)) /\ Told(conn, VoicemailPickup(conn, "ok")) BY <1>3, <1>4, PickupTold
  <1>6. Told(r, VoicemailExitPlayback(r)) /\ Told(r, Bump(r)) BY <1>3, TeardownTold, BumpTold
  <1>7. Told(conn, AnswerCall(bump)) BY <1>4, <1>5, ToldTwice
  <1>8. /\ Told(c, AnswerCall(bump)) /\ Told(c, VoicemailPickup(conn, "ok"))
        /\ Told(c, VoicemailExitPlayback(r)) /\ Told(c, Bump(r))
    BY <1>3, <1>5, <1>6, <1>7, ToldTwice
  <1> QED BY <1>2, <1>3, <1>8

LEMMA RingTold ==
  ASSUME NEW c, Whole(c), NEW call
  PROVE  Told(c, onSignalRing(c, call))
  <1> DEFINE r == [c EXCEPT !.st = "RINGING"]
             b == Bump(r)
             t == Task("watch", call)
  <1>1. onSignalRing(c, call) \in {c, With(b, t)} BY DEF onSignalRing, With
  <1>2. Told(c, r) /\ Whole(r) /\ Told(c, c) BY FieldTold, ToldTwice DEF Told
  <1> HIDE DEF r, t
  <1>3. Told(r, b) /\ Whole(b) BY <1>2, BumpTold DEF Told
  <1> HIDE DEF b
  <1>4. Told(b, With(b, t)) BY <1>3, WithTold
  <1>5. Told(r, With(b, t)) BY <1>3, <1>4, ToldTwice
  <1> QED BY <1>1, <1>2, <1>5, ToldTwice

LEMMA OnKeyTold ==
  ASSUME NEW c, Whole(c), NEW key, NEW listed \in BOOLEAN,
         c.st \in {"DIALTONE", "DIALING", "VM_PLAYBACK", "VM_RECORD_GREETING"},
         c.st = "DIALING" => key \in {"*96", "*97", "*98", "*99"}
  PROVE  Told(c, onKey(c, key, listed))
  <1> DEFINE s(x) == [c EXCEPT !.st = x]
  <1>1. onKey(c, key, listed) \in
          {s("DIALING"), VoicemailEnterPlayback(s("VM_PLAYBACK"), listed),
           Spawn(s("VM_RECORD_GREETING"), "record"), Spawn(s("VM_PLAY_GREETING"), "audition"),
           Spawn(s("DIALTONE"), "erase"), Spawn(c, "finish"), Spawn(c, key), c}
    BY DEF onKey
  <1>2. \A x : Told(c, s(x)) /\ Whole(s(x)) BY FieldTold DEF Told
  <1> HIDE DEF s
  <1>3. ASSUME NEW x, NEW k PROVE Told(c, Spawn(s(x), k))
    <2>1. Told(s(x), Spawn(s(x), k)) BY <1>2, SpawnTold
    <2> QED BY <1>2, <2>1, ToldTwice
  <1>4. Told(c, VoicemailEnterPlayback(s("VM_PLAYBACK"), listed))
    <2>1. Told(s("VM_PLAYBACK"), VoicemailEnterPlayback(s("VM_PLAYBACK"), listed)) BY <1>2, EnterTold
    <2> QED BY <1>2, <2>1, ToldTwice
  <1>5. Told(c, Spawn(c, "finish")) /\ Told(c, Spawn(c, key)) /\ Told(c, c) BY SpawnTold, ToldTwice
  <1> QED BY <1>1, <1>2, <1>3, <1>4, <1>5

-----------------------------------------------------------------------------
(* The server shows the last count published, or none; and that is the     *)
(* count, or somebody is about to publish.                                 *)

BadgeOK ==
  /\ ~ ws => badge = -1
  /\ ws /\ used.faults = 0 => /\ badge \in {-1, d.last}
                              /\ Owes(d) \/ d.last = UnheardCount(d)

LEMMA DaemonIsWhole ==
  ASSUME IInv
  PROVE  d \in Daemon /\ Whole(d)
  <1>1. d \in Daemon /\ d.disk \in Disk BY DEF IInv, TypeOK, Daemon
  <1> QED BY <1>1 DEF Whole, Daemon, Disk

LEMMA Faultless ==
  ASSUME IInv, NEW o, NEW n, Charge(o, n), used'.faults = 0
  PROVE  o = "ok" /\ used.faults = 0
  <1> DEFINE faults == IF o = "ok" THEN 0 ELSE 1
  <1>1. used \in [moves : 0 .. MaxSteps, calls : 0 .. MaxCalls, faults : 0 .. MaxFaults]
    BY DEF IInv, TypeOK
  <1>2. used'.faults = used.faults + faults BY <1>1 DEF Charge
  <1>3. used.faults \in Nat /\ faults \in {0, 1} BY <1>1
  <1>4. used.faults = 0 /\ faults = 0
    <2> HIDE DEF faults
    <2> QED BY <1>2, <1>3
  <1> QED BY <1>4

(* A step that tells leaves the badge right.                               *)
LEMMA ToldBadge ==
  ASSUME BadgeOK, ws' = ws, badge' = badge,
         used'.faults = 0 => used.faults = 0 /\ Told(d, d')
  PROVE  BadgeOK'
  <1>1. ASSUME ws, used'.faults = 0
        PROVE  badge' \in {-1, d'.last} /\ (Owes(d') \/ d'.last = UnheardCount(d'))
    <2>1. used.faults = 0 /\ Told(d, d') BY <1>1
    <2> QED BY <1>1, <2>1 DEF BadgeOK, Told, UnheardCount
  <1>2. BadgeOK' <=> /\ ~ ws' => badge' = -1
                     /\ ws' /\ used'.faults = 0 => /\ badge' \in {-1, d'.last}
                                                   /\ Owes(d') \/ d'.last = UnheardCount(d')
    BY DEF BadgeOK, Owes, UnheardCount
  <1> QED BY <1>1, <1>2 DEF BadgeOK

LEMMA DoTold ==
  ASSUME NEW c, Told(d, c), Do(c)
  PROVE  Told(d, d')
  <1>1. Whole(c) /\ d' = [c EXCEPT !.sent = FALSE] BY DEF Told, Do
  <1>2. Told(c, d') BY <1>1, FieldTold
  <1> QED BY <1>2, ToldTwice

(* The handset, the keys, the caller.                                      *)
LEMMA OutsideTold ==
  ASSUME IInv, used'.faults = 0,
         \/ \E o \in Outcomes : HookOff(o) \/ HookOn(o) \/ CallerHangsUp(o) \/ AppendFrame(o)
         \/ \E key, o : Key(key, o)
         \/ Ring \/ Offer
         \/ \E atCap : GreetingFrame(atCap)
  PROVE  used.faults = 0 /\ Told(d, d')
  <1>1. d \in Daemon /\ Whole(d) BY DaemonIsWhole
  <1>2. /\ Told(d, onHookOff(d, "ok")) /\ Told(d, onHookOn(d, "ok"))
        /\ Told(d, onSignalHangup(d, "ok")) /\ Told(d, d)
    BY <1>1, HookTold, ToldTwice
  <1>3. ASSUME NEW o, HookOff(o) \/ HookOn(o)
        PROVE  used.faults = 0 /\ Told(d, d')
    <2>1. o = "ok" /\ used.faults = 0 BY <1>3, Faultless DEF HookOff, HookOn
    <2>2. Do(onHookOff(d, "ok")) \/ Do(onHookOn(d, "ok")) BY <1>3, <2>1 DEF HookOff, HookOn
    <2>3. Told(d, d') BY <1>2, <2>2, DoTold
    <2> QED BY <1>3, <2>1, <2>3 DEF HookOff, HookOn
  <1>4. ASSUME NEW o, CallerHangsUp(o)
        PROVE  used.faults = 0 /\ Told(d, d')
    <2> DEFINE h == onSignalHangup(d, "ok")
    <2>1. o = "ok" /\ used.faults = 0 BY <1>4, Faultless DEF CallerHangsUp
    <2>2. d' = IF ws THEN [h EXCEPT !.sent = FALSE] ELSE d BY <1>4, <2>1 DEF CallerHangsUp
    <2>3. Told(d, h) /\ Whole(h) BY <1>2 DEF Told
    <2> HIDE DEF h
    <2>4. Told(h, [h EXCEPT !.sent = FALSE]) BY <2>3, FieldTold
    <2>5. Told(d, d') BY <1>2, <2>2, <2>3, <2>4, ToldTwice
    <2> QED BY <1>4, <2>1, <2>5 DEF CallerHangsUp
  <1>5. ASSUME NEW o, AppendFrame(o)
        PROVE  used.faults = 0 /\ Told(d, d')
    <2> DEFINE more == [d EXCEPT !.frames = d.frames + 1]
               f    == finalizeRecorder(more, "ok")
    <2>1. o = "ok" /\ used.faults = 0 BY <1>5, Faultless DEF AppendFrame
    <2>2. d' = IF more.frames < MaxFrames THEN more ELSE Spawn(f, "ended")
      BY <1>5, <2>1 DEF AppendFrame
    <2>3. DOMAIN more = DOMAIN d /\ more.tasks = d.tasks /\ more.last = d.last /\ more.disk = d.disk
      BY <1>1 DEF Whole
    <2> HIDE DEF more
    <2>4. Told(d, more) /\ Whole(more) BY <1>1, <2>3, ToldNothing DEF Told
    <2>5. Told(d, Spawn(f, "ended"))
      <3> DEFINE k == IF more.rec = 0 THEN more.disk ELSE Finalize(more.disk, more.rec, more.frames, "ok")
      <3>1. DOMAIN k = DOMAIN more.disk BY DEF Finalize, evictLocked, removeMessageLocked
      <3>2. f = [more EXCEPT !.disk = k, !.rec = 0, !.frames = 0] BY DEF finalizeRecorder
      <3> HIDE DEF f, k
      <3>3. Whole(f) /\ f.last = more.last BY <2>4, <3>1, <3>2 DEF Whole
      <3>4. Told(f, Spawn(f, "ended")) /\ Owes(Spawn(f, "ended")) BY <3>3, SpawnTold DEF Debts
      <3> QED BY <2>3, <3>3, <3>4 DEF Told
    <2> HIDE DEF f
    <2>6. Told(d, d') BY <2>2, <2>4, <2>5
    <2> QED BY <1>5, <2>1, <2>6 DEF AppendFrame
  <1>6. ASSUME NEW key, NEW o, Key(key, o)
        PROVE  used.faults = 0 /\ Told(d, d')
    <2>1. used.faults = 0 BY <1>6, Faultless DEF Key
    <2> DEFINE listed == o = "ok"
    <2>2. /\ d.st \in {"DIALTONE", "DIALING", "VM_PLAYBACK", "VM_RECORD_GREETING"}
          /\ d.st = "DIALING" => key \in {"*96", "*97", "*98", "*99"}
          /\ Do(onKey(d, key, listed)) /\ listed \in BOOLEAN
      BY <1>6 DEF Key
    <2> HIDE DEF listed
    <2>3. Told(d, onKey(d, key, listed)) BY <1>1, <2>2, OnKeyTold
    <2> QED BY <2>1, <2>2, <2>3, DoTold
  <1>7. CASE Ring
    <2>1. used \in [moves : 0 .. MaxSteps, calls : 0 .. MaxCalls, faults : 0 .. MaxFaults]
      BY DEF IInv, TypeOK
    <2>2. used.faults = 0 BY <1>7, <2>1 DEF Ring
    <2>3. Told(d, d') BY <1>1, <1>7, RingTold DEF Ring
    <2> QED BY <1>7, <2>2, <2>3 DEF Ring
  <1>8. CASE Offer
    <2>1. Told(d, d') BY <1>1, <1>8, FieldTold DEF Offer
    <2> QED BY <1>8, <2>1 DEF Offer
  <1>9. ASSUME NEW atCap, GreetingFrame(atCap)
        PROVE  used.faults = 0 /\ Told(d, d')
    <2> DEFINE e == [d EXCEPT !.grec = 1]
    <2>1. d' \in {e, Spawn(e, "finish")} BY <1>9 DEF GreetingFrame
    <2>2. Told(d, e) /\ Whole(e) BY <1>1, FieldTold DEF Told
    <2> HIDE DEF e
    <2>3. Told(e, Spawn(e, "finish")) BY <2>2, SpawnTold
    <2>4. Told(d, d') BY <2>1, <2>2, <2>3, ToldTwice
    <2> QED BY <1>9, <2>4 DEF GreetingFrame
  <1> QED BY <1>3, <1>4, <1>5, <1>6, <1>7, <1>8, <1>9

(* Goroutines that owe nothing.                                            *)
LEMMA TaskTold ==
  ASSUME IInv, used'.faults = 0, NEW t \in d.tasks,
         \/ ringTimeoutWatcher(t) \/ playVoicemailGreeting(t) \/ SetVoicemailRecording(t)
         \/ \E o : VoicemailAutoAnswer(t, o)
         \/ t.k \in {"loop", "oldloop", "saved", "exit"} \cup Keys /\ PlaybackStep(t)
         \/ FinishGreetingAudition(t) \/ VoicemailDeleteGreeting(t)
         \/ \E o : VoicemailRecordGreeting(t, o) \/ finalizeGreetingRecording(t, o) \/ revert(t, o)
         \/ \E connected \in BOOLEAN : \E o : waitForPeerConnected(t, connected, o)
  PROVE  used.faults = 0 /\ Told(d, d')
  <1> DEFINE c == Without(d, t)
  <1>1. d \in Daemon /\ Whole(d) /\ t \in Tasks BY DaemonIsWhole DEF Daemon
  <1>2. t.k \notin Debts
    BY DEF Debts, Keys, ringTimeoutWatcher, playVoicemailGreeting, SetVoicemailRecording,
           VoicemailAutoAnswer, FinishGreetingAudition, VoicemailDeleteGreeting,
           VoicemailRecordGreeting, finalizeGreetingRecording, revert, waitForPeerConnected
  <1>3. Told(d, c) /\ Whole(c) BY <1>1, <1>2, WithTold DEF Told
  <1>4. c \in Daemon BY <1>1, WithoutIdle DEF Idle
  <1>5. ASSUME Told(c, d') PROVE Told(d, d') BY <1>3, <1>5, ToldTwice
  <1>6. ASSUME NEW e, Told(c, e), Do(e) PROVE Told(d, d')
    <2>1. Told(d, e) BY <1>3, <1>6, ToldTwice
    <2> QED BY <1>6, <2>1, DoTold
  <1>7. CASE ringTimeoutWatcher(t)
    <2> DEFINE g == [c EXCEPT !.st = "VM_GREETING"]
               u == Task("answer", 1)
    <2>1. [c EXCEPT !.st = "VM_GREETING", !.tasks = @ \cup {u}] = With(g, u) BY DEF With
    <2>2. d' \in {c, With(g, u)}
      <3> HIDE DEF c, u
      <3> QED BY <1>7, <2>1 DEF ringTimeoutWatcher, c, u
    <2> HIDE DEF c
    <2>3. Told(c, g) /\ Whole(g) /\ Told(c, c) BY <1>3, FieldTold, ToldTwice DEF Told
    <2> HIDE DEF g, u
    <2>4. Told(g, With(g, u)) BY <2>3, WithTold
    <2>5. Told(c, d') BY <2>2, <2>3, <2>4, ToldTwice
    <2> QED BY <1>5, <1>7, <2>5 DEF ringTimeoutWatcher
  <1>8. CASE playVoicemailGreeting(t)
    <2> DEFINE u == Task("mute", t.a)
    <2>1. d' \in {With(c, u), c} BY <1>8 DEF playVoicemailGreeting, With
    <2> HIDE DEF c, u
    <2>2. Told(c, d') BY <1>3, <2>1, WithTold, ToldTwice
    <2> QED BY <1>5, <1>8, <2>2 DEF playVoicemailGreeting
  <1>9. CASE SetVoicemailRecording(t)
    <2> DEFINE m  == c.muted \/ d.peer = t.a
               st == IF c.st = "VM_GREETING" THEN "VM_RECORDING" ELSE c.st
               e  == [c EXCEPT !.muted = m, !.armed = TRUE, !.st = st]
    <2>1. d' = e BY <1>9 DEF SetVoicemailRecording
    <2> HIDE DEF c, m, st
    <2>2. DOMAIN e = DOMAIN c /\ e.tasks = c.tasks /\ e.last = c.last /\ e.disk = c.disk
      BY <1>3 DEF Whole
    <2> HIDE DEF e
    <2>3. Told(c, d') BY <1>3, <2>1, <2>2, ToldNothing
    <2> QED BY <1>5, <1>9, <2>3 DEF SetVoicemailRecording
  <1>10. ASSUME NEW o, VoicemailAutoAnswer(t, o)
         PROVE  used.faults = 0 /\ Told(d, d')
    <2> DEFINE live == [c EXCEPT !.peer = d.offer, !.offer = 0, !.chan = TRUE, !.armed = FALSE]
               rec  == [live EXCEPT !.rec = d.begun + 1, !.begun = d.begun + 1, !.frames = 0]
               u    == Task("revert", t.a)
               w    == Task("wait", d.offer)
    <2>1. o = "ok" /\ used.faults = 0
      BY <1>10, Faultless DEF VoicemailAutoAnswer
    <2>2. d' \in {With(c, u), With(rec, w)}
      <3>1. c.begun = d.begun /\ "tasks" \in DOMAIN c /\ "begun" \in DOMAIN c
        BY <1>1 DEF Without, Daemon
      <3>2. d' = CASE d.offer = 0 -> [c EXCEPT !.tasks = @ \cup {u}]
                   [] d.offer # 0 -> [live EXCEPT !.rec = d.begun + 1, !.begun = @ + 1, !.frames = 0,
                                                  !.tasks = @ \cup {w}]
        BY <1>10, <2>1 DEF VoicemailAutoAnswer
      <3> HIDE DEF c, u, w
      <3>3. [live EXCEPT !.rec = d.begun + 1, !.begun = @ + 1, !.frames = 0, !.tasks = @ \cup {w}]
              = With(rec, w)
        BY <3>1 DEF With
      <3> QED BY <3>2, <3>3 DEF With
    <2> HIDE DEF c, u, w
    <2>3. DOMAIN rec = DOMAIN c /\ rec.tasks = c.tasks /\ rec.last = c.last /\ rec.disk = c.disk
      BY <1>3 DEF Whole
    <2> HIDE DEF rec
    <2>4. Told(c, rec) /\ Whole(rec) BY <1>3, <2>3, ToldNothing DEF Told
    <2>5. Told(rec, With(rec, w)) /\ Told(c, With(c, u)) BY <1>3, <2>4, WithTold
    <2>6. Told(c, d') BY <2>2, <2>4, <2>5, ToldTwice
    <2> QED BY <1>5, <2>1, <2>6
  <1>11. CASE t.k \in {"loop", "oldloop", "saved", "exit"} \cup Keys /\ PlaybackStep(t)
    <2>1. \/ \E current \in BOOLEAN : d' = voicemailPlaybackLoop(c, current)
          \/ d' = transitionToSavedPhase(c)
          \/ t.k \in Keys /\ d' = VoicemailKey(c, t.k)
          \/ d' = ResetToDialtone(c)
      BY <1>11 DEF PlaybackStep, Keys
    <2>2. c.sess.saved \in BOOLEAN BY <1>4 DEF Daemon
    <2> HIDE DEF c
    <2>3. Told(c, d') BY <1>3, <2>1, <2>2, LoopTold, EndTold, KeyTold, ResetTold
    <2> QED BY <1>5, <1>11, <2>3 DEF PlaybackStep
  <1>12. CASE FinishGreetingAudition(t)
    <2>1. d' \in {c, ResetToDialtone(c)} BY <1>12 DEF FinishGreetingAudition
    <2> HIDE DEF c
    <2>2. Told(c, d') BY <1>3, <2>1, ResetTold, ToldTwice
    <2> QED BY <1>5, <1>12, <2>2 DEF FinishGreetingAudition
  <1>13. CASE VoicemailDeleteGreeting(t)
    <2>1. d' = [c EXCEPT !.disk.greeting = FALSE] BY <1>13 DEF VoicemailDeleteGreeting
    <2> HIDE DEF c
    <2>2. Told(c, d') BY <1>3, <2>1, GreetingTold
    <2> QED BY <1>5, <1>13, <2>2 DEF VoicemailDeleteGreeting
  <1>14. ASSUME NEW o, VoicemailRecordGreeting(t, o) \/ finalizeGreetingRecording(t, o) \/ revert(t, o)
         PROVE  used.faults = 0 /\ Told(d, d')
    <2> DEFINE g == finalizeGreeting(c, "ok")
               n == [c EXCEPT !.grec = 0]
    <2>1. o = "ok" /\ used.faults = 0
      BY <1>14, Faultless DEF VoicemailRecordGreeting, finalizeGreetingRecording, revert
    <2>2. \/ d' \in {n, c, Spawn(g, "exit")}
          \/ Do(HangupCall([c EXCEPT !.st = "IDLE"], "ok")) \/ Do(c)
      BY <1>14, <2>1 DEF VoicemailRecordGreeting, finalizeGreetingRecording, revert, abortVoicemailLocked
    <2> HIDE DEF c
    <2>3. /\ Told(c, n) /\ Told(c, c) /\ Told(c, g) /\ Whole(g)
          /\ Told(c, HangupCall([c EXCEPT !.st = "IDLE"], "ok"))
      <3>1. Told(c, n) /\ Told(c, c) BY <1>3, FieldTold, ToldTwice
      <3>2. Told(c, g) BY <1>3, GreetingTold
      <3>3. Told(c, HangupCall([c EXCEPT !.st = "IDLE"], "ok")) BY <1>3, HangupTold
      <3> QED BY <3>1, <3>2, <3>3 DEF Told
    <2> HIDE DEF g, n
    <2>4. Told(g, Spawn(g, "exit")) BY <2>3, SpawnTold
    <2>5. Told(c, Spawn(g, "exit")) BY <2>3, <2>4, ToldTwice
    <2> QED BY <1>5, <1>6, <2>1, <2>2, <2>3, <2>5
  <1>15. ASSUME NEW connected \in BOOLEAN, NEW o, waitForPeerConnected(t, connected, o)
         PROVE  used.faults = 0 /\ Told(d, d')
    <2> DEFINE u == Task("greet", t.a)
               h == HangupCall([c EXCEPT !.st = "IDLE"], "ok")
    <2>1. o = "ok" /\ used.faults = 0
      BY <1>15, Faultless DEF waitForPeerConnected
    <2>2. Do(CASE connected -> With(c, u)
               [] ~ connected /\ d.st = "VM_GREETING" -> h
               [] ~ connected /\ d.st # "VM_GREETING" -> c)
      BY <1>15, <2>1 DEF waitForPeerConnected, abortVoicemailLocked, With
    <2> HIDE DEF c, u
    <2>3. Told(c, With(c, u)) /\ Told(c, h) /\ Told(c, c) BY <1>3, WithTold, HangupTold, ToldTwice
    <2> HIDE DEF h
    <2>4. Do(With(c, u)) \/ Do(h) \/ Do(c)
      <3>1. CASE connected BY <2>2, <3>1
      <3>2. CASE ~ connected /\ d.st = "VM_GREETING" BY <2>2, <3>2
      <3>3. CASE ~ connected /\ d.st # "VM_GREETING" BY <2>2, <3>3
      <3> QED BY <3>1, <3>2, <3>3
    <2> QED BY <1>6, <2>1, <2>3, <2>4
  <1> HIDE DEF c
  <1> QED BY <1>7, <1>8, <1>9, <1>10, <1>11, <1>12, <1>13, <1>14, <1>15

(* Goroutines that owe the count: one that ends leaves another, or         *)
(* publishes.                                                              *)
LEMMA DebtBadge ==
  ASSUME IInv, BadgeOK, NEW t \in d.tasks,
         \/ VoicemailRecordEnded(t) \/ reconnectReset(t) \/ publishVoicemailState(t)
         \/ \E o : recordEndedHangup(t, o)
  PROVE  BadgeOK'
  <1> DEFINE c == Without(d, t)
             r == Reset(c)
  <1>1. Whole(d) /\ Whole(c) /\ c.last = d.last /\ c.disk = d.disk
    BY DaemonIsWhole DEF Without, Whole
  <1>2. ASSUME ws' = ws, badge' = badge,
               used'.faults = 0 => used.faults = 0 /\ Owes(d') /\ d'.last = d.last
        PROVE  BadgeOK'
    BY <1>2 DEF BadgeOK, Owes
  <1>3. CASE VoicemailRecordEnded(t) \/ reconnectReset(t)
    <2>1. d' \in {Spawn(r, "hangup"), Spawn(r, "publish")} /\ UNCHANGED <<ws, badge, used>>
      BY <1>3 DEF VoicemailRecordEnded, reconnectReset
    <2> HIDE DEF c
    <2>2. Told(c, r) /\ Whole(r) BY <1>1, ResetTold DEF Told
    <2> HIDE DEF r
    <2>3. /\ Told(r, Spawn(r, "hangup")) /\ Owes(Spawn(r, "hangup"))
          /\ Told(r, Spawn(r, "publish")) /\ Owes(Spawn(r, "publish"))
      BY <2>2, SpawnTold DEF Debts
    <2>4. Owes(d') /\ d'.last = d.last BY <1>1, <2>1, <2>2, <2>3 DEF Told
    <2> QED BY <1>2, <2>1, <2>4
  <1>4. ASSUME NEW o, recordEndedHangup(t, o) PROVE BadgeOK'
    <2> DEFINE h == HangupCall(c, "ok")
               e == Spawn(h, "publish")
    <2>1. ws' = ws /\ badge' = badge BY <1>4 DEF recordEndedHangup
    <2>2. ASSUME used'.faults = 0 PROVE used.faults = 0 /\ Owes(d') /\ d'.last = d.last
      <3>1. o = "ok" /\ used.faults = 0 BY <1>4, <2>2, Faultless DEF recordEndedHangup
      <3>2. d' = [e EXCEPT !.sent = FALSE] BY <1>4, <3>1 DEF recordEndedHangup, Do
      <3> HIDE DEF c
      <3>3. Told(c, h) /\ Whole(h) BY <1>1, HangupTold DEF Told
      <3> HIDE DEF h
      <3>4. Told(h, e) /\ Owes(e) /\ Whole(e) BY <3>3, SpawnTold DEF Debts, Told
      <3> HIDE DEF e
      <3>5. Told(e, d') BY <3>2, <3>4, FieldTold
      <3> QED BY <1>1, <3>1, <3>3, <3>4, <3>5 DEF Told
    <2> QED BY <1>2, <2>1, <2>2
  <1>5. CASE publishVoicemailState(t)
    <2> DEFINE n == UnheardCount(d)
    <2>1. /\ d' = [c EXCEPT !.last = IF ws THEN n ELSE c.last]
          /\ badge' = IF ws /\ n # d.last THEN n ELSE badge
          /\ ws' = ws /\ used' = used
      BY <1>5 DEF publishVoicemailState
    <2>2. ws => d'.last = n BY <1>1, <2>1 DEF Whole
    <2>3. UnheardCount(d') = n BY <1>1, <2>1 DEF UnheardCount, Whole
    <2> HIDE DEF n
    <2>4. UnheardCount(d)' = n BY <2>3 DEF UnheardCount
    <2>5. CASE ws BY <2>1, <2>2, <2>4, <2>5 DEF BadgeOK
    <2>6. CASE ~ ws BY <2>1, <2>6 DEF BadgeOK
    <2> QED BY <2>5, <2>6
  <1> QED BY <1>3, <1>4, <1>5

(* The connection and the daemon.                                          *)
LEMMA ConnectionBadge ==
  ASSUME IInv, BadgeOK, Drop \/ \E o \in Outcomes : Reconnect(o) \/ Crash(o)
  PROVE  BadgeOK'
  <1>1. d \in Daemon /\ Whole(d) BY DaemonIsWhole
  <1>2. CASE Drop BY <1>2 DEF Drop, BadgeOK
  <1>3. ASSUME NEW o, Reconnect(o) PROVE BadgeOK'
    <2> DEFINE h == HangupCall(d, "ok")
               r == Spawn(h, "reset")
    <2>1. ws' = TRUE /\ badge' = badge /\ badge = -1 BY <1>3 DEF Reconnect, BadgeOK
    <2>2. ASSUME used'.faults = 0 PROVE Owes(d')
      <3>1. o = "ok" BY <1>3, <2>2, Faultless DEF Reconnect
      <3>2. d' \in {[r EXCEPT !.sent = FALSE], Spawn(d, "publish")} BY <1>3, <3>1 DEF Reconnect
      <3>3. Whole(h) BY <1>1, HangupTold DEF Told
      <3> HIDE DEF h
      <3>4. Owes(r) /\ Whole(r) /\ Owes(Spawn(d, "publish")) BY <1>1, <3>3, SpawnTold DEF Debts, Told
      <3> HIDE DEF r
      <3>5. Owes([r EXCEPT !.sent = FALSE]) BY <3>4, FieldTold DEF Told
      <3> QED BY <3>2, <3>4, <3>5
    <2>3. used'.faults = 0 => Owes(d)' BY <2>2 DEF Owes
    <2> QED BY <2>1, <2>3 DEF BadgeOK
  <1>4. ASSUME NEW o \in Outcomes, Crash(o) PROVE BadgeOK'
    <2> DEFINE c == finalizeGreeting(finalizeRecorder(d, o), o)
               n == UnheardCount(c)
               z == [c EXCEPT !.st = "IDLE", !.offer = 0, !.peer = 0, !.armed = FALSE, !.muted = FALSE,
                              !.chan = FALSE, !.bridged = FALSE, !.sess = NoSession, !.queue = {},
                              !.mixer = FALSE, !.tasks = {}, !.last = n]
    <2>1. d' = z /\ badge' = n /\ ws' = TRUE BY <1>4 DEF Crash
    <2>2. "last" \in DOMAIN c /\ "disk" \in DOMAIN c
      BY <1>1 DEF Whole, finalizeGreeting, finalizeRecorder
    <2>3. n = Cardinality(Unheard(c.disk)) BY DEF UnheardCount
    <2> HIDE DEF c, n
    <2>4. z.last = n /\ z.disk = c.disk BY <2>2
    <2> HIDE DEF z
    <2>5. d'.last = n /\ UnheardCount(d)' = n BY <2>1, <2>3, <2>4 DEF UnheardCount
    <2> QED BY <2>1, <2>5 DEF BadgeOK
  <1> QED BY <1>2, <1>3, <1>4

LEMMA BadgeStays ==
  ASSUME IInv, BadgeOK, [Next]_vars
  PROVE  BadgeOK'
  <1>1. CASE UNCHANGED vars BY <1>1 DEF vars, BadgeOK, Owes, UnheardCount
  <1>2. CASE EndOfMessage
    <2>1. Told(d, d') BY <1>2, DaemonIsWhole, EndTold DEF EndOfMessage
    <2> QED BY <1>2, <2>1, ToldBadge DEF EndOfMessage
  <1>3. ASSUME NEW t \in d.tasks,
               \/ ringTimeoutWatcher(t) \/ playVoicemailGreeting(t) \/ SetVoicemailRecording(t)
               \/ \E o : VoicemailAutoAnswer(t, o)
               \/ t.k \in {"loop", "oldloop", "saved", "exit"} \cup Keys /\ PlaybackStep(t)
               \/ FinishGreetingAudition(t) \/ VoicemailDeleteGreeting(t)
               \/ \E o : VoicemailRecordGreeting(t, o) \/ finalizeGreetingRecording(t, o) \/ revert(t, o)
               \/ \E connected \in BOOLEAN : \E o : waitForPeerConnected(t, connected, o)
        PROVE  BadgeOK'
    <2>1. ws' = ws /\ badge' = badge
      BY <1>3 DEF ringTimeoutWatcher, playVoicemailGreeting, SetVoicemailRecording,
           VoicemailAutoAnswer, PlaybackStep, FinishGreetingAudition, VoicemailDeleteGreeting,
           VoicemailRecordGreeting, finalizeGreetingRecording, revert, waitForPeerConnected
    <2>2. used'.faults = 0 => used.faults = 0 /\ Told(d, d') BY <1>3, TaskTold
    <2> QED BY <2>1, <2>2, ToldBadge
  <1>4. CASE TaskStep
    BY <1>2, <1>3, <1>4, DebtBadge DEF TaskStep, Keys
  <1>5. ASSUME \/ \E o \in Outcomes : HookOff(o) \/ HookOn(o) \/ CallerHangsUp(o) \/ AppendFrame(o)
               \/ \E key, o : Key(key, o)
               \/ Ring \/ Offer
               \/ \E atCap : GreetingFrame(atCap)
        PROVE  BadgeOK'
    <2>1. ws' = ws /\ badge' = badge
      BY <1>5 DEF HookOff, HookOn, CallerHangsUp, AppendFrame, Key, Ring, Offer, GreetingFrame
    <2>2. used'.faults = 0 => used.faults = 0 /\ Told(d, d') BY <1>5, OutsideTold
    <2> QED BY <2>1, <2>2, ToldBadge
  <1>6. CASE Environment
    BY <1>5, <1>6, ConnectionBadge DEF Environment, Outcomes
  <1> QED BY <1>1, <1>4, <1>6 DEF Next

(* Once the phone is quiet, the server shows the number of unheard         *)
(* messages or none: finalizeAndPublish, VoicemailKey, the end of a        *)
(* message and every reconnect leave a goroutine that publishes, and the   *)
(* ones that end otherwise (VoicemailRecordEnded, reconnectReset) leave    *)
(* one that will.                                                          *)
THEOREM BadgeIsRight == Spec => []BadgeIsNotStale
  <1>1. Init => BadgeOK
    <2> SUFFICES ASSUME Init PROVE BadgeOK OBVIOUS
    <2> PICK frames \in {{}, {1, 2}}, heard \in SUBSET {1} :
          LET disk == [EmptyDisk EXCEPT !.frames = frames,
                         !.meta = [id \in Ids |-> IF id \notin frames THEN "none"
                                                  ELSE IF id \in heard THEN "heard" ELSE "unheard"]]
              n    == Cardinality(Unheard(disk))
          IN  /\ d = [st |-> "IDLE", offer |-> 0, peer |-> 0, rec |-> 0, frames |-> 0, armed |-> FALSE,
                      muted |-> FALSE, chan |-> FALSE, bridged |-> FALSE, grec |-> -1, sess |-> NoSession,
                      queue |-> {}, mixer |-> FALSE, last |-> n, begun |-> 2, tasks |-> {},
                      sent |-> FALSE, disk |-> disk]
              /\ badge = n
      BY DEF Init
    <2> DEFINE disk == [EmptyDisk EXCEPT !.frames = frames,
                          !.meta = [id \in Ids |-> IF id \notin frames THEN "none"
                                                   ELSE IF id \in heard THEN "heard" ELSE "unheard"]]
               n    == Cardinality(Unheard(disk))
    <2>1. d.last = n /\ d.disk = disk /\ badge = n OBVIOUS
    <2>2. ws = TRUE /\ n = Cardinality(Unheard(disk)) BY DEF Init
    <2> HIDE DEF disk, n
    <2> QED BY <2>1, <2>2 DEF BadgeOK, UnheardCount
  <1>2. IInv /\ BadgeOK /\ [Next]_vars => BadgeOK' BY BadgeStays
  <1>3. BadgeOK => BadgeIsNotStale
    <2> SUFFICES ASSUME BadgeOK, ws, Quiet, used.faults = 0 PROVE badge \in {-1, UnheardCount(d)}
      BY DEF BadgeIsNotStale
    <2>1. ~ Owes(d) BY DEF Quiet, Owes
    <2> QED BY <2>1 DEF BadgeOK
  <1>4. Spec => []BadgeOK BY <1>1, <1>2, Invariance, PTL DEF Spec
  <1> QED BY <1>3, <1>4, PTL

=============================================================================
