----------------------------- MODULE HubProofs -----------------------------
(***************************************************************************)
(* Proofs about Hub, for every set of connections, devices and numbers and *)
(* every channel capacity: the two indexes agree, and no operation ever    *)
(* sends on, or closes again, a closed channel.                            *)
(* And about LineSettings and Lines, whose requests meet at the hub: the   *)
(* phone is silent when it should be, and who answers a number.            *)
(***************************************************************************)
EXTENDS Hub, HubSettings, Lines, Integers, SequenceTheorems, TLAPS

(***************************************************************************)
(* The inductive invariant.  NoPanic and IndexesAgree are not inductive    *)
(* alone: that a close under way only touches connections that are still   *)
(* registered, that a registered connection's channel is open, and that a  *)
(* connection which has not begun is nowhere yet, is what each operation   *)
(* relies on and re-establishes.                                           *)
(***************************************************************************)
ChannelsOpen    == registered \cap closed = {}
OfferingIsHere  == Offering \subseteq registered
NewIsNowhere    == \A c \in Conns :
                     reader[c] = "new" => c \notin registered /\ c \notin closed /\ number[c] = None
DoneIsGone      == \A c \in Conns : reader[c] = "done" => c \notin registered
HardwareMatches == \A h \in Hardware : hwConns[h] # None => HardwareOf[hwConns[h]] = h

IInv == /\ HubTypeOK /\ NoPanic /\ IndexesAgree /\ ChannelsOpen /\ OfferingIsHere
        /\ NewIsNowhere /\ DoneIsGone /\ HardwareMatches

(* A non-blocking send keeps every channel a sequence of frames.           *)
LEMMA OfferType ==
  ASSUME HubTypeOK, NEW S, NEW f \in Frames, Offer(S, f)
  PROVE  queue' \in [Conns -> Seq(Frames)]
  BY DEF HubTypeOK, Offer, HasRoom

(* Taking the head off a channel keeps it a sequence of frames.            *)
LEMMA TailType ==
  ASSUME HubTypeOK, NEW c \in Conns, queue[c] # <<>>,
         queue' = [queue EXCEPT ![c] = Tail(@)]
  PROVE  queue' \in [Conns -> Seq(Frames)]
  BY DEF HubTypeOK

(* The connection of a device is registered, and so its channel is open.   *)
LEMMA DeviceConnIsRegistered ==
  ASSUME IInv, NEW h \in Hardware
  PROVE  /\ OfDevice(h) \subseteq registered
         /\ OfDevice(h) \cap closed = {}
         /\ \A c \in registered : HardwareOf[c] = h => c \in OfDevice(h)
  <1>1. ASSUME NEW c \in OfDevice(h) PROVE c \in registered
    <2>1. c \in Conns /\ hwConns[h] = c BY <1>1 DEF OfDevice
    <2>2. HardwareOf[c] = h BY <2>1, NoneAssumption DEF IInv, HardwareMatches
    <2> QED BY <2>1, <2>2 DEF IInv, IndexesAgree
  <1>2. ASSUME NEW c \in registered, HardwareOf[c] = h PROVE c \in OfDevice(h)
    BY <1>2 DEF IInv, HubTypeOK, OfDevice, IndexesAgree
  <1> QED BY <1>1, <1>2 DEF IInv, ChannelsOpen

(* The empty hub satisfies the invariant.                                  *)
LEMMA InitIInv == HubInit => IInv
  <1> SUFFICES ASSUME HubInit PROVE IInv OBVIOUS
  <1>1. HubTypeOK
    <2>1. panicked \in BOOLEAN /\ draining \in BOOLEAN BY DEF HubInit
    <2>2. queue \in [Conns -> Seq(Frames)] BY DEF HubInit
    <2>3. offering \in [Conns -> 0..MaxCloses] BY CapAssumption DEF HubInit
    <2> QED BY <2>1, <2>2, <2>3 DEF HubInit, HubTypeOK
  <1>2. IndexesAgree BY NoneAssumption, HardwareOfAssumption DEF HubInit, IndexesAgree
  <1>3. /\ NoPanic /\ ChannelsOpen /\ OfferingIsHere
        /\ NewIsNowhere /\ DoneIsGone /\ HardwareMatches
    BY DEF HubInit, NoPanic, ChannelsOpen, OfferingIsHere, Offering, NewIsNowhere, DoneIsGone, HardwareMatches
  <1> QED BY <1>1, <1>2, <1>3 DEF IInv

(* Register replaces the connection of its device and nothing else.        *)
LEMMA RegisterStep ==
  ASSUME IInv, NEW c \in Conns, NEW n \in LineNumbers, Register(c, n)
  PROVE  IInv'
  <1> DEFINE h == HardwareOf[c]
  <1>0. h \in Hardware BY HardwareOfAssumption
  <1>1. /\ OfDevice(h) \subseteq registered
        /\ OfDevice(h) \cap closed = {}
        /\ \A d \in registered : HardwareOf[d] = h => d \in OfDevice(h)
    BY <1>0, DeviceConnIsRegistered
  <1>2. /\ registered' = (registered \ OfDevice(h)) \cup {c}
        /\ closed' = closed \cup OfDevice(h)
        /\ panicked' = panicked
        /\ hwConns' = [hwConns EXCEPT ![h] = c]
        /\ Offering = {} /\ Offering' = {}
        /\ reader' = [reader EXCEPT ![c] = "reading"]
        /\ number' = [number EXCEPT ![c] = n]
    <2>1. OfDevice(h) \cap registered = OfDevice(h) BY <1>1
    <2>2. panicked' = (panicked \/ OfDevice(h) \cap closed # {}) BY <2>1 DEF Register
    <2>3. panicked \in BOOLEAN BY DEF IInv, HubTypeOK
    <2>4. panicked' = panicked BY <1>1, <2>2, <2>3
    <2> QED BY <2>1, <2>4 DEF Register, Lockable, Offering
  <1>3. c \notin registered /\ c \notin closed BY DEF IInv, NewIsNowhere, Register
  <1>4. \A d \in Conns : d \in OfDevice(h) => d \in registered /\ d # c /\ HardwareOf[d] = h
    BY <1>0, <1>1, <1>3, NoneAssumption DEF OfDevice, IInv, HardwareMatches
  <1>5. HubTypeOK'
    <2>1. OfDevice(h) \subseteq Conns BY DEF OfDevice
    <2>2. panicked' \in BOOLEAN BY <1>2 DEF IInv, HubTypeOK
    <2> QED BY <1>0, <1>2, <2>1, <2>2 DEF IInv, HubTypeOK, Register
  <1>6. NoPanic' BY <1>2 DEF IInv, NoPanic
  <1>7. IndexesAgree'
    <2> SUFFICES ASSUME NEW d \in Conns
                 PROVE  d \in registered' <=> hwConns'[HardwareOf[d]] = d
      BY DEF IndexesAgree
    <2>0. HardwareOf[d] \in Hardware BY HardwareOfAssumption
    <2>1. CASE d = c BY <1>0, <1>2, <2>1 DEF IInv, HubTypeOK
    <2>2. CASE d # c /\ HardwareOf[d] = h
      BY <1>0, <1>1, <1>2, <2>2 DEF IInv, HubTypeOK
    <2>3. CASE HardwareOf[d] # h
      BY <1>0, <1>2, <1>4, <2>0, <2>3 DEF IInv, HubTypeOK, IndexesAgree
    <2> QED BY <2>1, <2>2, <2>3
  <1>8. ChannelsOpen' BY <1>2, <1>3, <1>4 DEF IInv, ChannelsOpen
  <1>9. OfferingIsHere' BY <1>2 DEF OfferingIsHere
  <1>10. NewIsNowhere' /\ DoneIsGone'
    BY <1>1, <1>2, <1>3, <1>4 DEF IInv, HubTypeOK, NewIsNowhere, DoneIsGone
  <1>11. HardwareMatches' BY <1>0, <1>2 DEF IInv, HubTypeOK, HardwareMatches
  <1> QED BY <1>5, <1>6, <1>7, <1>8, <1>9, <1>10, <1>11 DEF IInv

(* Unregister removes the exact connection, if a newer one has not already.*)
LEMMA UnregisterStep ==
  ASSUME IInv, NEW c \in Conns, Unregister(c)
  PROVE  IInv'
  <1>1. /\ registered' = registered \ {c}
        /\ panicked' = panicked
        /\ Offering = {} /\ Offering' = {}
        /\ reader' = [reader EXCEPT ![c] = "done"]
        /\ number' = number
    <2>1. ~ (c \in registered /\ c \in closed) BY DEF IInv, ChannelsOpen
    <2>2. panicked \in BOOLEAN BY DEF IInv, HubTypeOK
    <2>3. panicked' = (panicked \/ (c \in registered /\ c \in closed)) BY DEF Unregister
    <2>4. panicked' = panicked BY <2>1, <2>2, <2>3
    <2> QED BY <2>4 DEF Unregister, Lockable, Offering
  <1>2. CASE c \in registered
    <2>1. /\ closed' = closed \cup {c}
          /\ hwConns' = [h \in Hardware |-> IF hwConns[h] = c THEN None ELSE hwConns[h]]
      BY <1>2 DEF Unregister
    <2>2. HubTypeOK'
      <3>1. panicked' \in BOOLEAN BY <1>1 DEF IInv, HubTypeOK
      <3> QED BY <1>1, <2>1, <3>1 DEF IInv, HubTypeOK, Unregister
    <2>3. IndexesAgree'
      BY <1>1, <2>1, HardwareOfAssumption, NoneAssumption DEF IInv, HubTypeOK, IndexesAgree
    <2>4. NoPanic' /\ OfferingIsHere' BY <1>1 DEF IInv, NoPanic, OfferingIsHere
    <2>5. ChannelsOpen' BY <1>1, <2>1 DEF IInv, ChannelsOpen
    <2>6. NewIsNowhere' /\ DoneIsGone'
      BY <1>1, <2>1 DEF IInv, HubTypeOK, NewIsNowhere, DoneIsGone
    <2>7. HardwareMatches' BY <2>1 DEF IInv, HubTypeOK, HardwareMatches
    <2> QED BY <2>2, <2>3, <2>4, <2>5, <2>6, <2>7 DEF IInv
  <1>3. CASE c \notin registered
    <2>1. closed' = closed /\ hwConns' = hwConns
      BY <1>3 DEF Unregister, IInv, HubTypeOK
    <2>2. HubTypeOK'
      <3>1. panicked' \in BOOLEAN BY <1>1 DEF IInv, HubTypeOK
      <3> QED BY <1>1, <2>1, <3>1 DEF IInv, HubTypeOK, Unregister
    <2>3. IndexesAgree' BY <1>1, <1>3, <2>1 DEF IInv, HubTypeOK, IndexesAgree
    <2>4. NoPanic' /\ OfferingIsHere' BY <1>1 DEF IInv, NoPanic, OfferingIsHere
    <2>5. ChannelsOpen' BY <1>1, <2>1 DEF IInv, ChannelsOpen
    <2>6. NewIsNowhere' /\ DoneIsGone'
      BY <1>1, <2>1 DEF IInv, HubTypeOK, NewIsNowhere, DoneIsGone
    <2>7. HardwareMatches' BY <2>1 DEF IInv, HardwareMatches
    <2> QED BY <2>2, <2>3, <2>4, <2>5, <2>6, <2>7 DEF IInv
  <1> QED BY <1>2, <1>3

(* A step that only offers frames to registered connections changes no     *)
(* index and does not panic; closes may only begin or end on registered     *)
(* connections.                                                            *)
LEMMA SendStep ==
  ASSUME IInv, NEW S, NEW f \in Frames, S \subseteq registered, Offer(S, f),
         panicked' = (panicked \/ SendPanics(S)),
         Offering' \subseteq registered,
         offering' \in [Conns -> 0..MaxCloses],
         retrying' \in SUBSET Conns, doomed' \in SUBSET Conns,
         UNCHANGED <<reader, registered, number, hwConns, closed, pump, socket, draining>>
  PROVE  IInv'
  <1>1. ~ SendPanics(S) BY DEF IInv, ChannelsOpen, SendPanics
  <1>2. panicked \in BOOLEAN BY DEF IInv, HubTypeOK
  <1>3. panicked' = panicked BY <1>1, <1>2
  <1>4. queue' \in [Conns -> Seq(Frames)] BY OfferType DEF IInv
  <1>5. HubTypeOK'
    <2>1. panicked' \in BOOLEAN BY <1>2, <1>3
    <2> QED BY <1>4, <2>1 DEF IInv, HubTypeOK
  <1>6. NoPanic' BY <1>3 DEF IInv, NoPanic
  <1> QED
    BY <1>5, <1>6 DEF IInv, IndexesAgree, ChannelsOpen, OfferingIsHere, NewIsNowhere,
                      DoneIsGone, HardwareMatches

(* A step that leaves the registry, the channels' closedness and the closes*)
(* under way alone keeps the invariant if it keeps the types and lets no   *)
(* read loop become new or leave a registered connection behind.           *)
LEMMA QuietStep ==
  ASSUME IInv, HubTypeOK',
         \A c \in Conns : reader'[c] = "new" => reader[c] = "new",
         \A c \in Conns : reader'[c] = "done" => reader[c] \in {"done", "new"},
         UNCHANGED <<registered, number, hwConns, closed, offering, panicked>>
  PROVE  IInv'
  BY DEF IInv, NoPanic, IndexesAgree, ChannelsOpen, OfferingIsHere, Offering, NewIsNowhere,
         DoneIsGone, HardwareMatches

(* Every step of the hub, of a read loop and of a pump keeps the invariant.*)
LEMMA NextIInv == IInv /\ [HubNext]_hubVars => IInv'
  <1> SUFFICES ASSUME IInv, [HubNext]_hubVars PROVE IInv' OBVIOUS
  <1>0. HubTypeOK BY DEF IInv
  <1>1. ASSUME NEW c \in Conns, NEW n \in LineNumbers, Register(c, n) PROVE IInv'
    BY <1>1, RegisterStep
  <1>2. ASSUME NEW c \in Conns, RegisterRefused(c) PROVE IInv'
    BY <1>0, <1>2, QuietStep DEF RegisterRefused, HubTypeOK
  <1>3. ASSUME NEW c \in Conns, ReadFails(c) PROVE IInv'
    BY <1>0, <1>3, QuietStep DEF ReadFails, HubTypeOK
  <1>17. ASSUME NEW c \in Conns, AskToUnregister(c) PROVE IInv'
    BY <1>0, <1>17, QuietStep DEF AskToUnregister, HubTypeOK
  <1>4. ASSUME NEW c \in Conns, Unregister(c) PROVE IInv'
    BY <1>4, UnregisterStep
  <1>5. ASSUME NEW n \in LineNumbers, SendTo(n) PROVE IInv'
    <2>1. OnLine(n) \subseteq registered BY DEF OnLine
    <2>2. Offering' \subseteq registered BY <1>5 DEF SendTo, IInv, OfferingIsHere, Offering
    <2>3. "data" \in Frames BY DEF Frames
    <2> QED BY <1>0, <1>5, <2>1, <2>2, <2>3, SendStep DEF SendTo, HubTypeOK
  <1>6. ASSUME NEW h \in Hardware, SendToHardware(h) PROVE IInv'
    <2>1. OfDevice(h) \subseteq registered BY DeviceConnIsRegistered
    <2>2. Offering' \subseteq registered BY <1>6 DEF SendToHardware, IInv, OfferingIsHere, Offering
    <2>3. "data" \in Frames BY DEF Frames
    <2> QED BY <1>0, <1>6, <2>1, <2>2, <2>3, SendStep DEF SendToHardware, HubTypeOK
  <1>7. ASSUME NEW S, S \subseteq registered, CloseConns(S) PROVE IInv'
    <2>1. "farewell" \in Frames BY DEF Frames
    <2>2. offering' \in [Conns -> 0..MaxCloses]
      BY <1>0, <1>7, CapAssumption DEF CloseConns, HubTypeOK
    <2>3. Offering' \subseteq registered
      BY <1>0, <1>7 DEF CloseConns, Offering, IInv, OfferingIsHere
    <2>4. retrying' \in SUBSET Conns /\ doomed' \in SUBSET Conns
      BY <1>0, <1>7 DEF CloseConns, HubTypeOK
    <2> QED BY <1>7, <2>1, <2>2, <2>3, <2>4, SendStep DEF CloseConns
  <1>8. ASSUME NEW n \in LineNumbers, CloseLine(n) PROVE IInv'
    BY <1>7, <1>8 DEF CloseLine, OnLine
  <1>9. ASSUME NEW h \in Hardware, CloseHardware(h) PROVE IInv'
    BY <1>7, <1>9, DeviceConnIsRegistered DEF CloseHardware
  <1>10. ASSUME NEW c \in Conns, closeConn(c) PROVE IInv'
    <2>1. {c} \subseteq registered BY <1>10 DEF closeConn, IInv, HubTypeOK, OfferingIsHere, Offering
    <2>2. Offering' \subseteq registered BY <1>10 DEF closeConn, IInv, HubTypeOK, OfferingIsHere, Offering
    <2>3. "sentinel" \in Frames BY DEF Frames
    <2>4. retrying' \in SUBSET Conns /\ doomed' \in SUBSET Conns
      BY <1>0, <1>10 DEF closeConn, HubTypeOK
    <2>5. offering' \in [Conns -> 0..MaxCloses]
      BY <1>0, <1>10, CapAssumption DEF closeConn, HubTypeOK, Offering
    <2> QED BY <1>10, <2>1, <2>2, <2>3, <2>4, <2>5, SendStep DEF closeConn
  <1>11. ASSUME NEW c \in Conns, offerClose(c) PROVE IInv'
    <2>1. CASE c \notin registered
      BY <1>0, <1>11, <2>1, QuietStep DEF offerClose, HubTypeOK
    <2>2. CASE c \in registered
      <3>1. Offering' \subseteq registered BY <1>11 DEF offerClose, IInv, OfferingIsHere, Offering
      <3>2. "sentinel" \in Frames BY DEF Frames
      <3>3. /\ retrying' \in SUBSET Conns /\ doomed' \in SUBSET Conns
            /\ offering' \in [Conns -> 0..MaxCloses]
        BY <1>0, <1>11 DEF offerClose, HubTypeOK
      <3>4. Offer({c}, "sentinel") /\ panicked' = (panicked \/ SendPanics({c}))
        BY <1>11, <2>2 DEF offerClose
      <3>5. UNCHANGED <<reader, registered, number, hwConns, closed, pump, socket, draining>>
        BY <1>11 DEF offerClose
      <3> DEFINE S == {c}
      <3>6. S \subseteq registered BY <2>2
      <3>7. Offer(S, "sentinel") /\ panicked' = (panicked \/ SendPanics(S)) BY <3>4
      <3> HIDE DEF S
      <3> QED BY <3>1, <3>2, <3>3, <3>5, <3>6, <3>7, SendStep
    <2> QED BY <2>1, <2>2
  <1>12. ASSUME NEW c \in Conns, RetryTimesOut(c) PROVE IInv'
    BY <1>0, <1>12, QuietStep DEF RetryTimesOut, HubTypeOK
  <1>13. ASSUME NEW c \in Conns, PumpStep(c) PROVE IInv'
    <2>1. CASE PumpWrites(c)
      BY <1>0, <1>13, <2>1, TailType, QuietStep DEF PumpStep, PumpWrites, HubTypeOK
    <2>2. CASE PumpFails(c)
      BY <1>0, <1>13, <2>2, QuietStep DEF PumpStep, PumpFails, Stop, HubTypeOK
    <2>3. CASE PumpSentinel(c)
      BY <1>0, <1>13, <2>3, TailType, QuietStep DEF PumpStep, PumpSentinel, HubTypeOK
    <2>4. CASE PumpDiscards(c)
      BY <1>0, <1>13, <2>4, TailType, QuietStep DEF PumpStep, PumpDiscards, HubTypeOK
    <2>5. CASE PumpWaitExpires(c)
      BY <1>0, <1>13, <2>5, QuietStep DEF PumpStep, PumpWaitExpires, Stop, HubTypeOK
    <2>6. CASE PumpSeesClosed(c)
      BY <1>0, <1>13, <2>6, QuietStep DEF PumpStep, PumpSeesClosed, Stop, HubTypeOK
    <2> QED BY <1>13, <2>1, <2>2, <2>3, <2>4, <2>5, <2>6 DEF PumpStep
  <1>14. CASE StartDraining
    BY <1>0, <1>14, QuietStep DEF StartDraining, HubTypeOK
  <1>15. CASE ForceCloseAll
    BY <1>0, <1>15, QuietStep DEF ForceCloseAll, HubTypeOK
  <1>16. CASE UNCHANGED hubVars
    BY <1>0, <1>16, QuietStep DEF hubVars, HubTypeOK
  <1> QED
    BY <1>1, <1>2, <1>3, <1>4, <1>5, <1>6, <1>8, <1>9, <1>10, <1>11, <1>12, <1>13,
       <1>14, <1>15, <1>16, <1>17 DEF HubNext

(* The inductive invariant holds in every reachable state of the hub.      *)
THEOREM Invariance == HubSpec => []IInv
  BY InitIInv, NextIInv, PTL DEF HubSpec

(* The hub's types are kept by every operation.                            *)
THEOREM TypeCorrect == HubSpec => []HubTypeOK
  <1>1. IInv => HubTypeOK BY DEF IInv
  <1> QED BY <1>1, Invariance, PTL

(* The server never panics in the hub: whatever sends, closes, background  *)
(* retries, reconnects and unwinding loops overlap, no frame is offered to *)
(* a closed channel and no channel is closed twice.                        *)
THEOREM HubNeverPanics == HubSpec => []NoPanic
  <1>1. IInv => NoPanic BY DEF IInv
  <1> QED BY <1>1, Invariance, PTL

(* The line index and the hardware index always agree, and a device has at *)
(* most one registered connection.                                         *)
THEOREM HubIndexesAgree == HubSpec => []IndexesAgree
  <1>1. IInv => IndexesAgree BY DEF IInv
  <1> QED BY <1>1, Invariance, PTL

(* A connection keeps its number for life and, once removed, never returns *)
(* to the registry.                                                        *)
THEOREM HubNumberIsFixed == HubSpec => NumberIsFixed
  <1> DEFINE A == \A c \in Conns : /\ number[c] # None => number'[c] = number[c]
                                   /\ c \in closed => c \notin registered'
  <1>1. IInv /\ [HubNext]_hubVars => [A]_hubVars
    <2> SUFFICES ASSUME IInv, HubNext PROVE A BY DEF A
    <2>1. ASSUME NEW c \in Conns, NEW n \in LineNumbers, Register(c, n) PROVE A
      <3>1. reader[c] = "new" /\ number' = [number EXCEPT ![c] = n]
            /\ registered' \subseteq registered \cup {c}
        BY <2>1 DEF Register
      <3> QED BY <3>1 DEF IInv, HubTypeOK, NewIsNowhere, ChannelsOpen
    <2>2. ASSUME number' = number, registered' \subseteq registered PROVE A
      BY <2>2 DEF IInv, ChannelsOpen
    <2>3. CASE \E c \in Conns : \/ RegisterRefused(c) \/ ReadFails(c) \/ AskToUnregister(c) \/ Unregister(c)
                                \/ closeConn(c) \/ offerClose(c) \/ RetryTimesOut(c) \/ PumpStep(c)
      BY <2>2, <2>3 DEF RegisterRefused, ReadFails, AskToUnregister, Unregister, closeConn, offerClose,
                        RetryTimesOut, PumpStep
    <2>4. CASE \E n \in LineNumbers : SendTo(n) \/ CloseLine(n)
      BY <2>2, <2>4 DEF SendTo, CloseLine, CloseConns
    <2>5. CASE \E h \in Hardware : SendToHardware(h) \/ CloseHardware(h)
      BY <2>2, <2>5 DEF SendToHardware, CloseHardware, CloseConns
    <2>6. CASE StartDraining \/ ForceCloseAll
      BY <2>2, <2>6 DEF StartDraining, ForceCloseAll
    <2> QED BY <2>1, <2>3, <2>4, <2>5, <2>6 DEF HubNext
  <1> QED BY <1>1, Invariance, PTL DEF HubSpec, NumberIsFixed

-----------------------------------------------------------------------------
(* What the server tells a handset about its line: LineSettings, whose     *)
(* messages travel in the hub's channels.                                  *)

(* Division: quotient and remainder exist, and are determined.             *)
LEMMA Quotient ==
  ASSUME NEW m \in Nat \ {0}, NEW x \in Nat
  PROVE  /\ x \div m \in Nat /\ x % m \in 0..m-1
         /\ x = (x \div m) * m + (x % m)
  OBVIOUS

LEMMA NextMultiple ==
  ASSUME NEW m \in Nat, NEW a \in Int, NEW b \in Int, a < b
  PROVE  a * m + m <= b * m
  <1>1. b - a - 1 \in Nat OBVIOUS
  <1>2. (b - a - 1) * m \in Nat BY <1>1
  <1>3. (b - a - 1) * m = b * m - a * m - m OBVIOUS
  <1> QED BY <1>2, <1>3

LEMMA QuotientIsUnique ==
  ASSUME NEW m \in Nat \ {0}, NEW a \in Nat, NEW b \in 0..m-1
  PROVE  (a * m + b) \div m = a /\ (a * m + b) % m = b
  <1> DEFINE x == a * m + b
             q == x \div m
             r == x % m
  <1>1. x \in Nat OBVIOUS
  <1>2. q \in Nat /\ r \in 0..m-1 /\ x = q * m + r BY <1>1, Quotient
  <1> HIDE DEF q, r
  <1>3. ~ (q < a) BY <1>2, NextMultiple
  <1>4. ~ (a < q) BY <1>2, NextMultiple
  <1>5. q = a BY <1>2, <1>3, <1>4
  <1> QED BY <1>2, <1>5 DEF q, r

(* The day and the minute of a moment of the week, and the day before.     *)
LEMMA Calendar ==
  ASSUME L!ClockOK, NEW t \in L!Week
  PROVE  LET day == t \div MinutesPerDay
             now == t % MinutesPerDay
             before == (day + DaysPerWeek - 1) % DaysPerWeek
         IN  /\ day \in L!Days /\ now \in L!ValidTimes
             /\ t = day * MinutesPerDay + now
             /\ before \in L!Days
             /\ before = IF day = 0 THEN DaysPerWeek - 1 ELSE day - 1
  <1> DEFINE M == MinutesPerDay
             D == DaysPerWeek
             day == t \div M
             now == t % M
             before == (day + D - 1) % D
  <1>1. M \in Nat \ {0, 1} /\ D \in Nat \ {0} BY DEF L!ClockOK
  <1>2. t \in Nat /\ t < D * M BY <1>1 DEF L!Week
  <1> HIDE DEF M, D
  <1>3. day \in Nat /\ now \in 0..M-1 /\ t = day * M + now BY <1>1, <1>2, Quotient
  <1> HIDE DEF day, now
  <1>4. day < D
    <2>1. SUFFICES ASSUME D <= day PROVE FALSE BY <1>1, <1>3
    <2>2. D * M <= day * M
      <3>1. CASE D = day BY <3>1, <1>1
      <3>2. CASE D < day
        <4>1. D * M + M <= day * M BY <3>2, <1>1, <1>3, NextMultiple
        <4> QED BY <4>1, <1>1, <1>3
      <3> QED BY <2>1, <3>1, <3>2, <1>1, <1>3
    <2>3. D * M \in Nat /\ day * M \in Nat BY <1>1, <1>3
    <2> QED BY <1>2, <1>3, <2>2, <2>3
  <1>5. before \in 0..D-1 /\ before = IF day = 0 THEN D - 1 ELSE day - 1
    <2>1. CASE day = 0
      <3>1. day + D - 1 = 0 * D + (D - 1) /\ D - 1 \in 0..D-1 BY <2>1, <1>1
      <3> QED BY <3>1, <2>1, <1>1, QuotientIsUnique
    <2>2. CASE day # 0
      <3>1. day + D - 1 = 1 * D + (day - 1) /\ day - 1 \in 0..D-1 BY <2>2, <1>1, <1>3, <1>4
      <3> QED BY <3>1, <2>2, <1>1, QuotientIsUnique
    <2> QED BY <2>1, <2>2
  <1> HIDE DEF before
  <1>6. day \in L!Days /\ before \in L!Days BY <1>1, <1>3, <1>4, <1>5 DEF L!Days, D
  <1>7. now \in L!ValidTimes BY <1>1, <1>3 DEF L!ValidTimes, M
  <1> QED BY <1>3, <1>5, <1>6, <1>7 DEF M, D, day, now, before

(* The day and the minute it was less than a day ago.                      *)
LEMMA Earlier ==
  ASSUME L!ClockOK, NEW t \in L!Week, NEW ago \in L!ValidTimes
  PROVE  LET day == t \div MinutesPerDay
             now == t % MinutesPerDay
             before == (day + DaysPerWeek - 1) % DaysPerWeek
             opened == (t + MinutesPerDay * DaysPerWeek - ago) % (MinutesPerDay * DaysPerWeek)
         IN  /\ opened \div MinutesPerDay = IF ago <= now THEN day ELSE before
             /\ opened % MinutesPerDay = IF ago <= now THEN now - ago
                                         ELSE now + MinutesPerDay - ago
  <1> DEFINE M == MinutesPerDay
             D == DaysPerWeek
             P == M * D
             day == t \div M
             now == t % M
             before == (day + D - 1) % D
             opened == (t + P - ago) % P
  <1>1. M \in Nat \ {0, 1} /\ D \in Nat \ {0} /\ ago \in 0..M-1 BY DEF L!ClockOK, L!ValidTimes
  <1>2. /\ day \in 0..D-1 /\ now \in 0..M-1 /\ before \in 0..D-1 /\ t = day * M + now
        /\ before = IF day = 0 THEN D - 1 ELSE day - 1
    BY Calendar DEF L!Days, L!ValidTimes
  <1>3. t \in Nat /\ t < P BY <1>1 DEF L!Week
  <1> HIDE DEF M, D, day, now, before
  <1>4. P \in Nat \ {0} /\ P = D * M BY <1>1
  <1> HIDE DEF P
  <1>5. CASE ago <= now
    <2> DEFINE min == now - ago
    <2>1. t - ago \in 0..P-1 /\ t + P - ago = 1 * P + (t - ago) BY <1>1, <1>2, <1>3, <1>4, <1>5
    <2>2. opened = t - ago BY <2>1, <1>4, QuotientIsUnique
    <2>3. min \in 0..M-1 /\ opened = day * M + min BY <2>2, <1>1, <1>2, <1>5
    <2> HIDE DEF min, opened
    <2>4. (day * M + min) \div M = day /\ (day * M + min) % M = min
      <3>1. M \in Nat \ {0} /\ day \in Nat BY <1>1, <1>2
      <3> QED BY <2>3, <3>1, QuotientIsUnique
    <2>5. opened \div M = day /\ opened % M = min BY <2>3, <2>4
    <2> QED BY <2>5, <1>5 DEF M, D, P, day, now, before, opened, min
  <1>6. CASE ~ ago <= now
    <2> DEFINE min == now + M - ago
    <2>1. min \in 0..M-1 BY <1>1, <1>2, <1>6
    <2>2. opened = before * M + min
      <3>1. CASE day = 0
        <4>1. before * M = P - M
          <5>1. before = D - 1 BY <1>2, <3>1
          <5>2. (D - 1) * M = D * M - M BY <1>1
          <5> QED BY <5>1, <5>2, <1>4
        <4>2. t = now BY <1>1, <1>2, <3>1
        <4>3. /\ t + P - ago \in 0..P-1 /\ t + P - ago = 0 * P + (t + P - ago)
              /\ t + P - ago = before * M + min
          BY <4>1, <4>2, <1>1, <1>2, <1>3, <1>4, <1>6
        <4> QED BY <4>3, <1>4, QuotientIsUnique
      <3>2. CASE day # 0
        <4>1. before * M = day * M - M
          <5>1. before = day - 1 BY <1>2, <3>2
          <5>2. (day - 1) * M = day * M - M BY <1>1, <1>2
          <5> QED BY <5>1, <5>2
        <4>2. M <= day * M
          <5>1. 0 * M + M <= day * M BY <1>1, <1>2, <3>2, NextMultiple
          <5> QED BY <5>1, <1>1
        <4>3. day * M \in Nat BY <1>1, <1>2
        <4>4. /\ t - ago \in 0..P-1 /\ t + P - ago = 1 * P + (t - ago)
              /\ t - ago = before * M + min
          BY <4>1, <4>2, <4>3, <1>1, <1>2, <1>3, <1>4, <1>6
        <4> QED BY <4>4, <1>4, QuotientIsUnique
      <3> QED BY <3>1, <3>2
    <2> HIDE DEF min, opened
    <2>3. (before * M + min) \div M = before /\ (before * M + min) % M = min
      <3>1. M \in Nat \ {0} /\ before \in Nat BY <1>1, <1>2
      <3> QED BY <2>1, <3>1, QuotientIsUnique
    <2>4. opened \div M = before /\ opened % M = min BY <2>2, <2>3
    <2> QED BY <2>4, <1>6 DEF M, D, P, day, now, before, opened, min
  <1> QED BY <1>5, <1>6

(* How long a window is.                                                   *)
LEMMA WindowLength ==
  ASSUME L!ClockOK, NEW q, q.start \in L!ValidTimes, q.end \in L!ValidTimes
  PROVE  L!Length(q) = IF q.start <= q.end THEN q.end - q.start
                       ELSE q.end + MinutesPerDay - q.start
  <1> DEFINE M == MinutesPerDay
             s == q.start
             e == q.end
  <1>1. M \in Nat \ {0} /\ s \in 0..M-1 /\ e \in 0..M-1 BY DEF L!ClockOK, L!ValidTimes
  <1>2. L!Length(q) = (e + M - s) % M BY DEF L!Length
  <1> HIDE DEF M, s, e
  <1>3. CASE s <= e
    <2>1. e - s \in 0..M-1 /\ e + M - s = 1 * M + (e - s) BY <1>1, <1>3
    <2>2. (e + M - s) % M = e - s BY <2>1, <1>1, QuotientIsUnique
    <2> QED BY <2>2, <1>2, <1>3 DEF M, s, e
  <1>4. CASE ~ s <= e
    <2>1. e + M - s \in 0..M-1 /\ e + M - s = 0 * M + (e + M - s) BY <1>1, <1>4
    <2>2. (e + M - s) % M = e + M - s BY <2>1, <1>1, QuotientIsUnique
    <2> QED BY <2>2, <1>2, <1>4 DEF M, s, e
  <1> QED BY <1>3, <1>4

(* A window is open exactly when it opened less than its length ago.       *)
LEMMA WindowIsItsMinutes ==
  ASSUME L!ClockOK, NEW t \in L!Week, NEW q \in L!QuietHours
  PROVE  L!ActiveAt(q, t) <=>
           /\ q.enabled /\ {q.start, q.end} \subseteq L!ValidTimes
           /\ \E ago \in L!ValidTimes :
                LET opened == (t + MinutesPerDay * DaysPerWeek - ago)
                                % (MinutesPerDay * DaysPerWeek)
                IN /\ opened % MinutesPerDay = q.start
                   /\ opened \div MinutesPerDay \in q.days
                   /\ ago < L!Length(q)
  <1> DEFINE M == MinutesPerDay
             day == t \div M
             now == t % M
             before == (day + DaysPerWeek - 1) % DaysPerWeek
             opened(ago) == (t + MinutesPerDay * DaysPerWeek - ago)
                               % (MinutesPerDay * DaysPerWeek)
             Opened(ago) == /\ opened(ago) % M = q.start
                            /\ opened(ago) \div M \in q.days
                            /\ ago < L!Length(q)
             Today == q.start < q.end /\ day \in q.days /\ q.start <= now /\ now < q.end
             Tonight == q.start > q.end /\ now >= q.start /\ day \in q.days
             Morning == q.start > q.end /\ now < q.end /\ before \in q.days
  <1>1. M \in Nat \ {0, 1} /\ L!ValidTimes = 0..M-1 BY DEF L!ClockOK, L!ValidTimes
  <1>2. now \in 0..M-1 BY Calendar DEF L!ValidTimes
  <1>3. L!ActiveAt(q, t) <=> /\ q.enabled /\ q.days # {}
                             /\ {q.start, q.end} \subseteq L!ValidTimes /\ q.start # q.end
                             /\ Today \/ Tonight \/ Morning
    BY DEF L!ActiveAt
  <1>4. ASSUME NEW ago \in L!ValidTimes
        PROVE  /\ opened(ago) \div M = IF ago <= now THEN day ELSE before
               /\ opened(ago) % M = IF ago <= now THEN now - ago ELSE now + M - ago
    BY Earlier
  <1>5. SUFFICES ASSUME q.start \in 0..M-1, q.end \in 0..M-1
                 PROVE  (q.days # {} /\ q.start # q.end /\ (Today \/ Tonight \/ Morning))
                          <=> \E ago \in L!ValidTimes : Opened(ago)
    BY <1>1, <1>3
  <1>6. L!Length(q) = IF q.start <= q.end THEN q.end - q.start ELSE q.end + M - q.start
    BY <1>1, <1>5, WindowLength
  <1> HIDE DEF M, day, now, before, opened
  <1>7. CASE Today \/ Tonight
    <2>1. now - q.start \in L!ValidTimes /\ now - q.start <= now
      BY <1>1, <1>2, <1>5, <1>7
    <2>2. Opened(now - q.start) BY <1>1, <1>2, <1>4, <1>5, <1>6, <1>7, <2>1
    <2> QED BY <1>5, <1>7, <2>1, <2>2
  <1>8. CASE Morning
    <2>1. now + M - q.start \in L!ValidTimes /\ ~ now + M - q.start <= now
      BY <1>1, <1>2, <1>5, <1>8
    <2>2. Opened(now + M - q.start) BY <1>1, <1>2, <1>4, <1>5, <1>6, <1>8, <2>1
    <2> QED BY <1>5, <1>8, <2>1, <2>2
  <1>9. ASSUME NEW ago \in L!ValidTimes, Opened(ago)
        PROVE  q.days # {} /\ q.start # q.end /\ (Today \/ Tonight \/ Morning)
    <2>1. CASE ago <= now
      <3>1. q.start = now - ago /\ day \in q.days BY <1>4, <1>9, <2>1
      <3> QED BY <3>1, <2>1, <1>1, <1>2, <1>5, <1>6, <1>9
    <2>2. CASE ~ ago <= now
      <3>1. q.start = now + M - ago /\ before \in q.days BY <1>4, <1>9, <2>2
      <3> QED BY <3>1, <2>2, <1>1, <1>2, <1>5, <1>6, <1>9
    <2> QED BY <2>1, <2>2
  <1> QED BY <1>7, <1>8, <1>9

(***************************************************************************)
(* The inductive invariant of a line's settings.  What the handset will    *)
(* have been told once its channel is empty (LastTold) is what is in       *)
(* force, unless a push is still to come, the last one failed or was       *)
(* overtaken, or the scheduler has yet to look and will see the change.    *)
(***************************************************************************)
ReqStates ==
  {L!Idle} \cup [pc : {"update", "effective"}, next : L!Settings]
    \cup [pc : {"push"}, wire : L!Wire] \cup [pc : {"list"}, silent : BOOLEAN]
Pushes == {L!Idle} \cup [pc : {"push"}, wire : L!Wire]
PlacesOK == /\ req \in [Requests -> ReqStates] /\ sched \in Pushes
            /\ reg \in Pushes \cup [pc : {"read"}]
LastTold == IF pushes = <<>> THEN told ELSE pushes[Len(pushes)]
NoPush == /\ \A r \in Requests : req[r] = L!Idle \/ req[r].pc = "update"
          /\ reg = L!Idle /\ sched = L!Idle
Converging ==
  online /\ NoPush /\ stale = {} =>
    LastTold = L!InForce \/ (~ sampled /\ lastSent # {L!InForce.silent})
SettingsInv == L!TypeOK /\ PlacesOK /\ Converging

LEMMA NormalizeType ==
  ASSUME NEW q \in L!QuietHours
  PROVE  L!Normalize(q) \in L!QuietHours
  <1>1. L!Unset \in L!Times /\ L!ValidTimes \subseteq L!Times BY DEF L!Times
  <1> DEFINE clean(t) == IF t \in L!ValidTimes THEN t ELSE L!Unset
  <1>2. \A t : clean(t) \in L!Times BY <1>1
  <1> HIDE DEF clean
  <1>3. [q EXCEPT !.start = clean(q.start), !.end = clean(q.end)] \in L!QuietHours
    BY <1>2 DEF L!QuietHours
  <1>4. L!NoWindow(q.days) \in L!QuietHours BY <1>1 DEF L!NoWindow, L!QuietHours
  <1>5. [q EXCEPT !.days = L!Days] \in L!QuietHours BY DEF L!QuietHours
  <1> QED BY <1>3, <1>4, <1>5 DEF L!Normalize, clean

LEMMA MutationsType ==
  ASSUME L!FormsOK, NEW s \in L!Settings
  PROVE  L!Mutations(s) \subseteq L!Settings
  <1>1. \A q \in Forms : L!Normalize(q) \in L!QuietHours BY NormalizeType DEF L!FormsOK
  <1>2. ASSUME NEW b \in BOOLEAN PROVE [s EXCEPT !.silent = b] \in L!Settings BY DEF L!Settings
  <1>3. [s EXCEPT !.vm = ~@] \in L!Settings BY DEF L!Settings
  <1>4. ASSUME NEW q \in Forms PROVE [s EXCEPT !.quiet = L!Normalize(q)] \in L!Settings
    BY <1>1 DEF L!Settings
  <1> QED BY <1>2, <1>3, <1>4 DEF L!Mutations

LEMMA InForceType ==
  ASSUME stored \in L!Settings
  PROVE  L!InForce \in L!Wire /\ L!InForce.vm = stored.vm
  <1>1. stored.silent \in BOOLEAN /\ stored.vm \in BOOLEAN BY DEF L!Settings
  <1>2. (stored.silent \/ L!ActiveAt(stored.quiet, clock)) \in BOOLEAN OBVIOUS
  <1> QED BY <1>1, <1>2 DEF L!InForce, L!Effective, L!Wire

LEMMA SameInForce ==
  ASSUME UNCHANGED <<stored, clock>>
  PROVE  L!InForce' = L!InForce
  BY DEF L!InForce, L!Effective, L!ActiveAt

(* A push that is not dropped is the last thing the handset is told.       *)
LEMMA Pushed ==
  ASSUME L!TypeOK, NEW w \in L!Wire, L!SendTo(w), UNCHANGED told
  PROVE  /\ pushes' \in Seq(L!Wire) /\ stale' \subseteq {"push", "look"} /\ losses' = losses
         /\ online /\ stale' = {} => LastTold' = w /\ w = L!InForce
  <1>1. CASE ~ online BY <1>1 DEF L!SendTo, L!TypeOK
  <1>2. CASE /\ online /\ pushes' = Append(pushes, w) /\ losses' = losses
             /\ stale' = L!Marked("push", w # L!InForce)
    <2>1. /\ pushes' \in Seq(L!Wire) /\ pushes' # <<>> /\ pushes'[Len(pushes')] = w
      BY <1>2 DEF L!TypeOK
    <2>2. LastTold' = w BY <2>1 DEF LastTold
    <2>3. stale' \subseteq {"push", "look"} /\ (stale' = {} => w = L!InForce)
      BY <1>2 DEF L!Marked, L!TypeOK
    <2> QED BY <1>2, <2>1, <2>2, <2>3
  <1>3. CASE /\ online /\ stale' = L!Marked("push", TRUE) /\ UNCHANGED <<pushes, losses>>
    BY <1>3 DEF L!Marked, L!TypeOK
  <1> QED BY <1>1, <1>2, <1>3 DEF L!SendTo

(* The handset takes a message, and is still to be told the same.          *)
LEMMA Handled ==
  ASSUME NEW W, pushes \in Seq(W), pushes # <<>>, told' = Head(pushes), pushes' = Tail(pushes)
  PROVE  pushes' \in Seq(W) /\ told' \in W /\ LastTold' = LastTold
  <1>1. /\ pushes' \in Seq(W) /\ told' \in W /\ told' = pushes[1]
        /\ Len(pushes') = Len(pushes) - 1
        /\ \A i \in 1 .. Len(pushes) - 1 : pushes'[i] = pushes[i + 1]
    BY HeadTailProperties
  <1>2. Len(pushes) \in Nat \ {0} BY EmptySeq
  <1>3. CASE Len(pushes) = 1
    <2>1. pushes' = <<>> BY <1>1, <1>3, EmptySeq
    <2> QED BY <1>1, <1>3, <2>1 DEF LastTold
  <1>4. CASE Len(pushes) # 1
    <2>1. pushes'[Len(pushes')] = pushes[Len(pushes)] BY <1>1, <1>2, <1>4
    <2>2. Len(pushes') # 0 BY <1>1, <1>2, <1>4
    <2>3. pushes' # <<>> BY <2>2
    <2> QED BY <1>1, <2>1, <2>3 DEF LastTold
  <1> QED BY <1>3, <1>4

LEMMA SettingsStart == L!ClockOK /\ L!Init => SettingsInv
  <1> SUFFICES ASSUME L!ClockOK, L!Init PROVE SettingsInv OBVIOUS
  <1>1. L!NoWindow({}) \in L!QuietHours BY DEF L!NoWindow, L!QuietHours, L!Times
  <1>2. stored \in L!Settings /\ told \in L!Wire BY <1>1 DEF L!Init, L!Settings, L!Wire
  <1>3. clock \in L!Week
    <2>1. MinutesPerDay * DaysPerWeek \in Nat \ {0} BY DEF L!ClockOK
    <2> QED BY <2>1 DEF L!Init, L!Week
  <1>4. L!TypeOK
    <2>1. pushes \in Seq(L!Wire) BY DEF L!Init
    <2>2. changes \in 0..MaxChanges /\ losses \in 0..MaxLosses BY DEF L!Init, L!ClockOK
    <2> QED BY <1>2, <1>3, <2>1, <2>2 DEF L!Init, L!TypeOK
  <1>5. PlacesOK BY DEF L!Init, PlacesOK, ReqStates, Pushes
  <1> QED BY <1>4, <1>5 DEF SettingsInv, Converging, L!Init

(* Faults are bounded.                                                     *)
LEMMA FaultsBounded ==
  ASSUME L!ClockOK, L!TypeOK, L!Fault \/ UNCHANGED losses
  PROVE  losses' \in 0..MaxLosses
  BY DEF L!ClockOK, L!TypeOK, L!Fault

LEMMA ChangesBounded ==
  ASSUME L!ClockOK, L!TypeOK, changes < MaxChanges, changes' = changes + 1
  PROVE  changes' \in 0..MaxChanges
  BY DEF L!ClockOK, L!TypeOK

(* While a push is to come, or the last one failed, nothing is claimed.    *)
LEMMA NothingClaimed ==
  ASSUME ~ online' \/ ~ NoPush' \/ stale' # {}
  PROVE  Converging'
  BY DEF Converging

LEMMA KeepsConverging ==
  ASSUME Converging, UNCHANGED <<stored, clock, sampled, online, pushes, told, lastSent>>,
         NoPush' => NoPush, stale' = {} => stale = {}
  PROVE  Converging'
  BY SameInForce DEF Converging, LastTold

(* What a request turns to, and that the others wait on nothing new.       *)
LEMMA RequestGoes ==
  ASSUME PlacesOK, NEW r \in Requests, NEW s \in ReqStates, L!Goto(r, s),
         UNCHANGED <<sched, reg>>
  PROVE  /\ PlacesOK'
         /\ s # L!Idle /\ s.pc # "update" => ~ NoPush'
         /\ req[r] = L!Idle \/ req[r].pc = "update" => (NoPush' => NoPush)
  <1>1. req' = [req EXCEPT ![r] = s] BY DEF L!Goto
  <1>2. PlacesOK' BY <1>1 DEF PlacesOK
  <1>3. req'[r] = s /\ \A u \in Requests \ {r} : req'[u] = req[u] BY <1>1 DEF PlacesOK
  <1> QED BY <1>2, <1>3 DEF NoPush

LEMMA ReadSettingsStep ==
  ASSUME L!ClockOK, L!FormsOK, SettingsInv, NEW r \in Requests, L!ReadSettings(r)
  PROVE  SettingsInv'
  <1>1. PICK next \in L!Mutations(stored) : L!Goto(r, [pc |-> "update", next |-> next])
    BY DEF L!ReadSettings
  <1> DEFINE s == [pc |-> "update", next |-> next]
  <1>2. next \in L!Settings BY MutationsType DEF SettingsInv, L!TypeOK
  <1>3. s \in ReqStates BY <1>2 DEF ReqStates
  <1> HIDE DEF s
  <1>4. L!Goto(r, s) BY <1>1 DEF s
  <1>5. PlacesOK' /\ (NoPush' => NoPush)
    BY <1>3, <1>4, RequestGoes DEF SettingsInv, L!ReadSettings
  <1>6. Converging' BY <1>5, KeepsConverging DEF SettingsInv, L!ReadSettings
  <1>7. L!TypeOK' BY ChangesBounded DEF SettingsInv, L!ReadSettings, L!TypeOK
  <1> QED BY <1>5, <1>6, <1>7 DEF SettingsInv

LEMMA UpdateSettingsStep ==
  ASSUME L!ClockOK, SettingsInv, NEW r \in Requests, L!UpdateSettings(r)
  PROVE  SettingsInv'
  <1>1. /\ req[r].pc = "update" /\ req[r] \in ReqStates /\ L!TypeOK
        /\ UNCHANGED <<clock, sampled, online, pushes, told, lastSent, sched, reg, changes,
                       stale>>
    BY DEF SettingsInv, PlacesOK, L!UpdateSettings
  <1>2. req[r] \in [pc : {"update", "effective"}, next : L!Settings]
    BY <1>1 DEF ReqStates, L!Idle
  <1> DEFINE s == [req[r] EXCEPT !.pc = "effective"]
  <1>3. s \in ReqStates /\ s # L!Idle /\ s.pc = "effective" BY <1>2 DEF ReqStates, L!Idle
  <1>4. L!Idle \in ReqStates BY DEF ReqStates
  <1> HIDE DEF s
  <1>5. CASE stored' = req[r].next /\ L!Goto(r, s) /\ UNCHANGED losses
    <2>1. PlacesOK' /\ ~ NoPush' BY <1>1, <1>3, <1>5, RequestGoes DEF SettingsInv
    <2>2. stored' \in L!Settings BY <1>2, <1>5
    <2>3. L!TypeOK' BY <1>1, <1>5, <2>2 DEF L!TypeOK
    <2> QED BY <2>1, <2>3, NothingClaimed DEF SettingsInv
  <1>6. CASE L!Fault /\ L!Goto(r, L!Idle) /\ UNCHANGED stored
    <2>1. PlacesOK' /\ (NoPush' => NoPush) BY <1>1, <1>4, <1>6, RequestGoes DEF SettingsInv
    <2>2. L!TypeOK' BY <1>1, <1>6, FaultsBounded DEF L!TypeOK
    <2> QED BY <1>1, <1>6, <2>1, <2>2, KeepsConverging DEF SettingsInv
  <1> QED BY <1>5, <1>6 DEF L!UpdateSettings, s

LEMMA ReadEffectiveStep ==
  ASSUME L!ClockOK, SettingsInv, NEW r \in Requests, L!ReadEffective(r)
  PROVE  SettingsInv'
  <1>1. /\ req[r].pc = "effective" /\ req[r] \in ReqStates /\ L!TypeOK
        /\ UNCHANGED <<stored, clock, sampled, online, pushes, told, lastSent, sched, reg,
                       changes, stale>>
    BY DEF SettingsInv, PlacesOK, L!ReadEffective
  <1>2. req[r] \in [pc : {"update", "effective"}, next : L!Settings]
    BY <1>1 DEF ReqStates, L!Idle
  <1> DEFINE raw == [silent |-> req[r].next.silent, vm |-> req[r].next.vm]
             push(w) == [pc |-> "push", wire |-> w]
  <1>3. L!InForce \in L!Wire BY <1>1, InForceType DEF L!TypeOK
  <1>4. raw \in L!Wire BY <1>2 DEF L!Settings, L!Wire
  <1>5. ASSUME NEW w \in L!Wire
        PROVE  push(w) \in ReqStates /\ push(w) # L!Idle /\ push(w).pc = "push"
    BY DEF ReqStates, L!Idle
  <1> HIDE DEF raw, push
  <1>6. /\ L!Fault \/ UNCHANGED losses
        /\ \E w \in L!Wire : L!Goto(r, push(w))
    BY <1>3, <1>4 DEF L!ReadEffective, raw, push
  <1>7. PlacesOK' /\ ~ NoPush' BY <1>1, <1>5, <1>6, RequestGoes DEF SettingsInv
  <1>8. L!TypeOK' BY <1>1, <1>6, FaultsBounded DEF L!TypeOK
  <1> QED BY <1>7, <1>8, NothingClaimed DEF SettingsInv

LEMMA PushLineSettingsStep ==
  ASSUME SettingsInv, NEW r \in Requests, L!PushLineSettings(r)
  PROVE  SettingsInv'
  <1>1. /\ req[r].pc = "push" /\ req[r] \in ReqStates /\ L!TypeOK /\ L!SendTo(req[r].wire)
        /\ L!Goto(r, L!Idle)
        /\ UNCHANGED <<stored, clock, sampled, online, told, lastSent, sched, reg, changes>>
    BY DEF SettingsInv, PlacesOK, L!PushLineSettings
  <1>2. req[r].wire \in L!Wire BY <1>1 DEF ReqStates, L!Idle
  <1>3. L!Idle \in ReqStates BY DEF ReqStates
  <1>4. PlacesOK' BY <1>1, <1>3, RequestGoes DEF SettingsInv
  <1>5. /\ pushes' \in Seq(L!Wire) /\ stale' \subseteq {"push", "look"} /\ losses' = losses
        /\ online /\ stale' = {} => LastTold' = L!InForce
    BY <1>1, <1>2, Pushed
  <1>6. L!TypeOK' BY <1>1, <1>5 DEF L!TypeOK
  <1>7. Converging' BY <1>1, <1>5, SameInForce DEF Converging
  <1> QED BY <1>4, <1>6, <1>7 DEF SettingsInv

LEMMA SetAllSilentStep ==
  ASSUME L!ClockOK, SettingsInv, NEW r \in Requests, NEW b \in BOOLEAN, L!SetAllSilent(r, b)
  PROVE  SettingsInv'
  <1> DEFINE s == [pc |-> "list", silent |-> b]
  <1>1. /\ L!TypeOK /\ stored' = [stored EXCEPT !.silent = b] /\ L!Goto(r, s)
        /\ UNCHANGED <<clock, sampled, online, pushes, told, lastSent, sched, reg, losses,
                       stale>>
        /\ changes < MaxChanges /\ changes' = changes + 1
    BY DEF SettingsInv, L!SetAllSilent
  <1>2. s \in ReqStates /\ s # L!Idle /\ s.pc = "list" BY DEF ReqStates, L!Idle
  <1> HIDE DEF s
  <1>3. PlacesOK' /\ ~ NoPush' BY <1>1, <1>2, RequestGoes DEF SettingsInv
  <1>4. stored' \in L!Settings BY <1>1 DEF L!TypeOK, L!Settings
  <1>5. L!TypeOK' BY <1>1, <1>4, ChangesBounded DEF L!TypeOK
  <1> QED BY <1>3, <1>5, NothingClaimed DEF SettingsInv

LEMMA ListByHouseholdStep ==
  ASSUME L!ClockOK, SettingsInv, NEW r \in Requests, L!ListByHousehold(r)
  PROVE  SettingsInv'
  <1> DEFINE w == [silent |-> req[r].silent, vm |-> stored.vm]
             s == [pc |-> "push", wire |-> w]
  <1>1. /\ req[r].pc = "list" /\ req[r] \in ReqStates /\ L!TypeOK
        /\ UNCHANGED <<stored, clock, sampled, online, pushes, told, lastSent, sched, reg,
                       changes>>
        /\ \/ L!Goto(r, s) /\ UNCHANGED <<losses, stale>>
           \/ L!Fault /\ L!Goto(r, L!Idle) /\ stale' = L!Marked("push", TRUE)
    BY DEF SettingsInv, PlacesOK, L!ListByHousehold
  <1>2. req[r].silent \in BOOLEAN BY <1>1 DEF ReqStates, L!Idle
  <1>3. w \in L!Wire BY <1>1, <1>2 DEF L!Wire, L!TypeOK, L!Settings
  <1> HIDE DEF w
  <1>4. s \in ReqStates /\ s # L!Idle /\ s.pc = "push" /\ L!Idle \in ReqStates
    BY <1>3 DEF ReqStates, L!Idle
  <1> HIDE DEF s
  <1>5. CASE L!Goto(r, s) /\ UNCHANGED <<losses, stale>>
    <2>1. PlacesOK' /\ ~ NoPush' BY <1>1, <1>4, <1>5, RequestGoes DEF SettingsInv
    <2>2. L!TypeOK' BY <1>1, <1>5 DEF L!TypeOK
    <2> QED BY <2>1, <2>2, NothingClaimed DEF SettingsInv
  <1>6. CASE L!Fault /\ L!Goto(r, L!Idle) /\ stale' = L!Marked("push", TRUE)
    <2>1. PlacesOK' BY <1>1, <1>4, <1>6, RequestGoes DEF SettingsInv
    <2>2. stale' # {} /\ stale' \subseteq {"push", "look"} BY <1>1, <1>6 DEF L!Marked, L!TypeOK
    <2>3. L!TypeOK' BY <1>1, <1>6, <2>2, FaultsBounded DEF L!TypeOK
    <2> QED BY <2>1, <2>2, <2>3, NothingClaimed DEF SettingsInv
  <1> QED BY <1>1, <1>5, <1>6

LEMMA ConnectStep ==
  ASSUME SettingsInv, L!Connect
  PROVE  SettingsInv'
  <1>1. reg' = [pc |-> "read"] /\ pushes' = <<>> /\ online' = TRUE BY DEF L!Connect
  <1>2. reg' \in [pc : {"read"}] /\ reg' # L!Idle BY <1>1 DEF L!Idle
  <1>3. PlacesOK' BY <1>2 DEF SettingsInv, PlacesOK, L!Connect
  <1>4. pushes' \in Seq(L!Wire) BY <1>1
  <1>5. L!TypeOK' BY <1>1, <1>4 DEF SettingsInv, L!TypeOK, L!Connect
  <1>6. ~ NoPush' BY <1>2 DEF NoPush
  <1> QED BY <1>3, <1>5, <1>6, NothingClaimed DEF SettingsInv

LEMMA OnRegisteredReadStep ==
  ASSUME L!ClockOK, SettingsInv, L!OnRegisteredRead
  PROVE  SettingsInv'
  <1> DEFINE s == [pc |-> "push", wire |-> L!InForce]
  <1>1. /\ L!TypeOK
        /\ UNCHANGED <<stored, clock, sampled, online, pushes, told, lastSent, sched, req,
                       changes>>
        /\ \/ reg' = s /\ UNCHANGED <<losses, stale>>
           \/ L!Fault /\ reg' = L!Idle /\ stale' = L!Marked("push", TRUE)
    BY DEF SettingsInv, L!OnRegisteredRead
  <1>2. L!InForce \in L!Wire BY <1>1, InForceType DEF L!TypeOK
  <1>3. s \in Pushes /\ s # L!Idle /\ L!Idle \in Pushes BY <1>2 DEF Pushes, L!Idle
  <1> HIDE DEF s
  <1>4. PlacesOK' BY <1>1, <1>3 DEF SettingsInv, PlacesOK
  <1>5. stale' \subseteq {"push", "look"} /\ (~ NoPush' \/ stale' # {})
    BY <1>1, <1>3 DEF L!Marked, L!TypeOK, NoPush
  <1>6. L!TypeOK' BY <1>1, <1>5, FaultsBounded DEF L!TypeOK
  <1> QED BY <1>4, <1>5, <1>6, NothingClaimed DEF SettingsInv

LEMMA OnRegisteredPushStep ==
  ASSUME SettingsInv, L!OnRegisteredPush
  PROVE  SettingsInv'
  <1>1. /\ reg.pc = "push" /\ L!TypeOK /\ L!SendTo(reg.wire) /\ reg' = L!Idle
        /\ UNCHANGED <<stored, clock, sampled, online, told, lastSent, sched, req, changes>>
    BY DEF SettingsInv, L!OnRegisteredPush
  <1>2. reg.wire \in L!Wire BY <1>1 DEF SettingsInv, PlacesOK, Pushes, L!Idle
  <1>3. PlacesOK' BY <1>1 DEF SettingsInv, PlacesOK, Pushes
  <1>4. /\ pushes' \in Seq(L!Wire) /\ stale' \subseteq {"push", "look"} /\ losses' = losses
        /\ online /\ stale' = {} => LastTold' = L!InForce
    BY <1>1, <1>2, Pushed
  <1>5. L!TypeOK' BY <1>1, <1>4 DEF L!TypeOK
  <1>6. Converging' BY <1>1, <1>4, SameInForce DEF Converging
  <1> QED BY <1>3, <1>5, <1>6 DEF SettingsInv

LEMMA DisconnectStep ==
  ASSUME L!ClockOK, SettingsInv, L!Disconnect
  PROVE  SettingsInv'
  <1>1. PlacesOK' BY DEF SettingsInv, PlacesOK, L!Disconnect
  <1>2. pushes' \in Seq(L!Wire) /\ online' = FALSE BY DEF L!Disconnect
  <1>3. stale' \subseteq {"push", "look"} BY DEF SettingsInv, L!TypeOK, L!Disconnect, L!Marked
  <1>4. losses' \in 0..MaxLosses BY FaultsBounded DEF SettingsInv, L!Disconnect
  <1>5. L!TypeOK' BY <1>2, <1>3, <1>4 DEF SettingsInv, L!TypeOK, L!Disconnect
  <1> QED BY <1>1, <1>2, <1>5, NothingClaimed DEF SettingsInv

LEMMA HandleLineSettingsStep ==
  ASSUME SettingsInv, L!HandleLineSettings
  PROVE  SettingsInv'
  <1>1. /\ pushes \in Seq(L!Wire) /\ pushes # <<>>
        /\ told' = Head(pushes) /\ pushes' = Tail(pushes)
        /\ UNCHANGED <<stored, clock, sampled, online, lastSent, sched, req, reg, changes,
                       losses, stale>>
    BY DEF SettingsInv, L!TypeOK, L!HandleLineSettings
  <1>2. pushes' \in Seq(L!Wire) /\ told' \in L!Wire /\ LastTold' = LastTold BY <1>1, Handled
  <1>3. PlacesOK' BY <1>1 DEF SettingsInv, PlacesOK
  <1>4. L!TypeOK' BY <1>1, <1>2 DEF SettingsInv, L!TypeOK
  <1>5. NoPush' => NoPush BY <1>1 DEF NoPush
  <1>6. Converging' BY <1>1, <1>2, <1>5, SameInForce DEF SettingsInv, Converging
  <1> QED BY <1>3, <1>4, <1>6 DEF SettingsInv

(* A window may open or close now: the scheduler will see it, unless what  *)
(* it last saw was no longer in force.                                     *)
LEMMA TickStep ==
  ASSUME L!ClockOK, SettingsInv, L!Tick
  PROVE  SettingsInv'
  <1>1. /\ L!TypeOK /\ sampled /\ sched = L!Idle /\ sampled' = FALSE
        /\ clock' = (clock + 1) % (MinutesPerDay * DaysPerWeek)
        /\ UNCHANGED <<stored, online, pushes, told, lastSent, sched, req, reg, changes, losses>>
    BY DEF SettingsInv, L!Tick
  <1>2. clock' \in L!Week
    <2> DEFINE P == MinutesPerDay * DaysPerWeek
    <2>1. P \in Nat \ {0} BY DEF L!ClockOK
    <2>2. clock \in Nat /\ clock' = (clock + 1) % P
      BY <1>1, <2>1 DEF L!TypeOK, L!Week
    <2>3. L!Week = 0 .. P - 1 BY DEF L!Week
    <2> HIDE DEF P
    <2> QED BY <2>1, <2>2, <2>3
  <1>3. /\ stale' \subseteq {"push", "look"}
        /\ stale' = {} => stale = {} /\ (online => lastSent \in {{}, {L!InForce.silent}})
    BY <1>1 DEF L!Tick, L!Marked, L!TypeOK
  <1>4. PlacesOK' BY <1>1 DEF SettingsInv, PlacesOK
  <1>5. L!TypeOK' BY <1>1, <1>2, <1>3 DEF L!TypeOK
  <1>6. Converging'
    <2> SUFFICES ASSUME online', NoPush', stale' = {}
                 PROVE  LastTold' = L!InForce' \/ (~ sampled' /\ lastSent' # {L!InForce'.silent})
      BY DEF Converging
    <2>1. NoPush BY <1>1 DEF NoPush
    <2>2. LastTold = L!InForce /\ lastSent \in {{}, {L!InForce.silent}}
      BY <1>1, <1>3, <2>1 DEF SettingsInv, Converging
    <2>3. LastTold' = LastTold BY <1>1 DEF LastTold
    <2>4. /\ L!InForce \in L!Wire /\ L!InForce.vm = stored.vm
          /\ L!InForce' \in L!Wire /\ L!InForce'.vm = stored.vm
      <3>1. stored \in L!Settings BY <1>1 DEF L!TypeOK
      <3>2. (stored.silent \/ L!ActiveAt(stored.quiet, clock')) \in BOOLEAN OBVIOUS
      <3>3. stored.vm \in BOOLEAN BY <3>1 DEF L!Settings
      <3>4. L!InForce' \in L!Wire /\ L!InForce'.vm = stored.vm
        BY <1>1, <3>1, <3>2, <3>3 DEF L!InForce, L!Effective, L!Wire
      <3> QED BY <3>1, <3>4, InForceType
    <2>5. CASE L!InForce'.silent = L!InForce.silent
      <3>1. L!InForce' = L!InForce BY <2>4, <2>5 DEF L!Wire
      <3> QED BY <2>2, <2>3, <3>1
    <2>6. CASE L!InForce'.silent # L!InForce.silent BY <1>1, <2>2, <2>6
    <2> QED BY <2>5, <2>6
  <1> QED BY <1>4, <1>5, <1>6 DEF SettingsInv

LEMMA EvaluateStep ==
  ASSUME L!ClockOK, SettingsInv, L!Evaluate
  PROVE  SettingsInv'
  <1> DEFINE s == [pc |-> "push", wire |-> L!InForce]
  <1>1. /\ L!TypeOK /\ sched = L!Idle
        /\ UNCHANGED <<stored, clock, online, pushes, told, req, reg, changes>>
    BY DEF SettingsInv, L!Evaluate
  <1>2. L!InForce \in L!Wire BY <1>1, InForceType DEF L!TypeOK
  <1>3. s \in Pushes /\ s # L!Idle BY <1>2 DEF Pushes, L!Idle
  <1>4. CASE ~ online /\ lastSent' = {} /\ sampled' = TRUE /\ UNCHANGED <<sched, losses, stale>>
    <2>1. PlacesOK' BY <1>1, <1>4 DEF SettingsInv, PlacesOK
    <2>2. L!TypeOK' BY <1>1, <1>4 DEF L!TypeOK
    <2> QED BY <1>1, <1>4, <2>1, <2>2, NothingClaimed DEF SettingsInv
  <1>5. CASE /\ online /\ lastSent' = {L!InForce.silent} /\ UNCHANGED <<losses, stale>>
             /\ sched' = IF lastSent = {L!InForce.silent} THEN L!Idle ELSE s
             /\ sampled' = (sched' = L!Idle)
    <2>1. PlacesOK' BY <1>1, <1>3, <1>5 DEF SettingsInv, PlacesOK, Pushes
    <2>2. L!InForce.silent \in BOOLEAN BY <1>2 DEF L!Wire
    <2>3. lastSent' \in SUBSET BOOLEAN /\ sampled' \in BOOLEAN BY <1>5, <2>2
    <2>4. L!TypeOK' BY <1>1, <1>5, <2>3 DEF L!TypeOK
    <2>5. CASE lastSent = {L!InForce.silent}
      <3>1. NoPush' => NoPush BY <1>1 DEF NoPush
      <3>2. NoPush' /\ online /\ stale = {} => LastTold = L!InForce
        BY <2>5, <3>1 DEF SettingsInv, Converging
      <3> QED BY <1>1, <1>5, <2>1, <2>4, <3>2, SameInForce
           DEF SettingsInv, Converging, LastTold
    <2>6. CASE lastSent # {L!InForce.silent}
      <3>1. ~ NoPush' BY <1>3, <1>5, <2>6 DEF NoPush
      <3> QED BY <2>1, <2>4, <3>1, NothingClaimed DEF SettingsInv
    <2> QED BY <2>5, <2>6
  <1>6. CASE /\ L!Fault /\ sampled' = TRUE /\ stale' = L!Marked("look", TRUE)
             /\ UNCHANGED <<lastSent, sched>>
    <2>1. PlacesOK' BY <1>1, <1>6 DEF SettingsInv, PlacesOK
    <2>2. stale' # {} /\ stale' \subseteq {"push", "look"} BY <1>1, <1>6 DEF L!Marked, L!TypeOK
    <2>3. L!TypeOK' BY <1>1, <1>6, <2>2, FaultsBounded DEF L!TypeOK
    <2> QED BY <2>1, <2>2, <2>3, NothingClaimed DEF SettingsInv
  <1> QED BY <1>4, <1>5, <1>6 DEF L!Evaluate

LEMMA EvaluatePushStep ==
  ASSUME SettingsInv, L!EvaluatePush
  PROVE  SettingsInv'
  <1>1. /\ L!TypeOK /\ sched.pc = "push" /\ sched' = L!Idle /\ sampled' = TRUE
        /\ UNCHANGED <<stored, clock, online, told, lastSent, req, reg, changes>>
    BY DEF SettingsInv, L!EvaluatePush
  <1>2. sched.wire \in L!Wire BY <1>1 DEF SettingsInv, PlacesOK, Pushes, L!Idle
  <1>3. PlacesOK' BY <1>1 DEF SettingsInv, PlacesOK, Pushes
  <1>4. CASE ~ online /\ UNCHANGED <<pushes, stale, losses>>
    <2>1. L!TypeOK' BY <1>1, <1>4 DEF L!TypeOK
    <2> QED BY <1>1, <1>3, <1>4, <2>1, NothingClaimed DEF SettingsInv
  <1>5. CASE /\ pushes' = Append(pushes, sched.wire) /\ UNCHANGED losses
             /\ stale' = IF sched.wire = L!InForce THEN {} ELSE {"push"}
    <2>1. pushes' \in Seq(L!Wire) /\ pushes' # <<>> /\ pushes'[Len(pushes')] = sched.wire
      BY <1>1, <1>2, <1>5 DEF L!TypeOK
    <2>2. stale' \subseteq {"push", "look"} BY <1>5
    <2>3. L!TypeOK' BY <1>1, <1>5, <2>1, <2>2 DEF L!TypeOK
    <2>4. stale' = {} => LastTold' = L!InForce BY <1>5, <2>1 DEF LastTold
    <2> QED BY <1>1, <1>3, <2>3, <2>4, SameInForce DEF SettingsInv, Converging
  <1>6. CASE stale' = L!Marked("push", TRUE) /\ UNCHANGED <<pushes, losses>>
    <2>1. stale' # {} /\ stale' \subseteq {"push", "look"} BY <1>1, <1>6 DEF L!Marked, L!TypeOK
    <2>2. L!TypeOK' BY <1>1, <1>6, <2>1 DEF L!TypeOK
    <2> QED BY <1>3, <2>1, <2>2, NothingClaimed DEF SettingsInv
  <1> QED BY <1>4, <1>5, <1>6 DEF L!EvaluatePush

LEMMA SettingsStep ==
  ASSUME L!ClockOK, L!FormsOK, SettingsInv, [L!Next]_(L!vars)
  PROVE  SettingsInv'
  <1>1. ASSUME NEW r \in Requests,
               \/ L!ReadSettings(r) \/ L!UpdateSettings(r) \/ L!ReadEffective(r)
               \/ L!PushLineSettings(r) \/ L!ListByHousehold(r)
               \/ \E b \in BOOLEAN : L!SetAllSilent(r, b)
        PROVE  SettingsInv'
    BY <1>1, ReadSettingsStep, UpdateSettingsStep, ReadEffectiveStep, PushLineSettingsStep,
       ListByHouseholdStep, SetAllSilentStep
  <1>2. CASE L!Connect \/ L!OnRegisteredRead \/ L!OnRegisteredPush \/ L!Disconnect
    BY <1>2, ConnectStep, OnRegisteredReadStep, OnRegisteredPushStep, DisconnectStep
  <1>3. CASE L!HandleLineSettings BY <1>3, HandleLineSettingsStep
  <1>4. CASE L!Tick \/ L!Evaluate \/ L!EvaluatePush
    BY <1>4, TickStep, EvaluateStep, EvaluatePushStep
  <1>5. CASE UNCHANGED L!vars
    <2>1. L!TypeOK' /\ PlacesOK' /\ (NoPush' => NoPush)
      BY <1>5 DEF L!vars, SettingsInv, L!TypeOK, PlacesOK, NoPush
    <2> QED BY <1>5, <2>1, KeepsConverging DEF L!vars, SettingsInv
  <1> QED BY <1>1, <1>2, <1>3, <1>4, <1>5 DEF L!Next

LEMMA SettingsInvariant ==
  ASSUME L!ClockOK, L!FormsOK
  PROVE  L!Spec => []SettingsInv
  <1>1. L!Init => SettingsInv BY SettingsStart
  <1>2. SettingsInv /\ [L!Next]_(L!vars) => SettingsInv' BY SettingsStep
  <1> QED BY <1>1, <1>2, PTL DEF L!Spec

(* A window silences the line exactly in the minutes that follow an        *)
(* opening on a selected day by less than its length, whatever the clock,  *)
(* the window and the days (QuietHours.ActiveAt).                          *)
THEOREM WindowsAreExact == L!Spec => []WindowsSilenceTheirMinutes
  <1>1. SettingsInv => WindowsSilenceTheirMinutes
    <2> SUFFICES ASSUME SettingsInv, NEW q \in Forms
                 PROVE  L!WindowsSilenceTheirMinutes!(q)
      BY DEF WindowsSilenceTheirMinutes, L!WindowsSilenceTheirMinutes
    <2> QED BY WindowIsItsMinutes, SettingsAssumption DEF L!FormsOK, SettingsInv, L!TypeOK
  <1>2. L!Spec => []SettingsInv BY SettingsInvariant, SettingsAssumption
  <1> QED BY <1>1, <1>2, PTL

(* Once nothing is under way and the scheduler has looked, a handset that  *)
(* is online holds the silent state in force, whatever requests,           *)
(* reconnections and window boundaries overlapped (QuietHoursScheduler,    *)
(* applyLineSettings, OnRegistered).                                       *)
THEOREM HandsetHoldsTheSilentState == L!Spec => []SilentStateConverges
  <1>1. SettingsInv => SilentStateConverges
    BY DEF SilentStateConverges, SettingsInv, Converging, L!SilentStateConverges,
           L!Quiescent, NoPush, LastTold
  <1>2. L!Spec => []SettingsInv BY SettingsInvariant, SettingsAssumption
  <1> QED BY <1>1, <1>2, PTL
-----------------------------------------------------------------------------
(* Who answers which number: Lines, whose handsets are the hub's           *)
(* connections.                                                            *)

(* What a request or registration holds at each of its steps.              *)
Renumbers == [pc : {"number_update", "number_recheck", "number_rename", "number_close"},
              line : Lines, old : Numbers, new : Numbers]
Deletions == [pc : {"delete_row", "delete_close"}, line : Lines, old : Numbers]
Moves     == [pc : {"move_row", "move_recheck", "move_close", "move_list", "move_delete"},
              dev : Devices, line : Lines, to : Lines, old : Numbers, new : Numbers]
Claims    == [pc : {"pair_number"}, dev : Devices, token : Nat, line : Lines]
Notices   == [pc : {"pair_notify"}, dev : Devices, token : Nat, new : Numbers]
Logins    == [pc : {"register_code", "register_bound"}, dev : Devices]
Entries   == [pc : {"register_hub"}, dev : Devices, new : Numbers \cup {"unpaired"}]
Calls     == [pc : {"call_enter"}, old : Numbers, new : Numbers]
TaskStates == {Idle} \cup Renumbers \cup Deletions \cup Moves \cup Claims \cup Notices
                \cup Logins \cup Entries \cup Calls
TasksOK == task \in [Tasks -> TaskStates]

(* A row of devices that names a line names one that exists, and a paired  *)
(* one names a line; a move names a line that was once in the table.       *)
RowsMatch ==
  /\ \A d \in Devices : dev[d] # Null =>
       /\ dev[d].paired => dev[d].line # Null
       /\ dev[d].line # Null => line[dev[d].line] # Null
  /\ \A l \in unused : line[l] = Null
  /\ \A t \in Tasks : task[t].pc \in {"move_row", "move_recheck"} => task[t].line \notin unused

(* A handset registers once at a time, and only while it is not connected. *)
Registers(t, d) ==
  task[t].pc \in {"register_code", "register_bound", "register_hub"} /\ task[t].dev = d
OneRegistration ==
  /\ \A d \in Devices : conn[d] = Null => outbox[d] = <<>>
  /\ \A t \in Tasks, d \in Devices : Registers(t, d) =>
       conn[d] = Null /\ \A u \in Tasks : Registers(u, d) => u = t

(* A handset whose code can be claimed answers no number and is not about  *)
(* to.                                                                     *)
ClaimableIsSilent ==
  \A d \in Devices : Claimable(d) =>
    /\ conn[d] \notin Numbers
    /\ \A t \in Tasks : Registers(t, d) =>
         /\ task[t].pc # "register_bound"
         /\ task[t].pc = "register_hub" => task[t].new = "unpaired"

(* Why a connected handset answers, or will stop answering, its number.    *)
Told(d) == \E i \in DOMAIN outbox[d] : outbox[d][i].type = "close"
Live(d) == conn[d] \in Numbers /\ Paired(d) /\ d \notin overlapped /\ ~Told(d)
Leaving(t, d) ==
  \/ task[t].pc \in {"number_rename", "number_close"} /\ task[t].old = conn[d]
  \/ task[t].pc = "move_close" /\ task[t].dev = d
Sound(d, l) ==
  /\ line[l] # Null /\ line[l].number = conn[d]
  /\ \A u \in Tasks : Renumbering(u, l) => task[u].old = conn[d]
Restores(u, d, l) == /\ task[u].pc = "number_recheck"
                     /\ task[u].line = l /\ task[u].old = conn[d]
Covered(d, l) == line[l] = Null \/ Sound(d, l) \/ \E u \in Tasks : Restores(u, d, l)
Rechecks(m, d) == task[m].pc = "move_recheck" /\ task[m].dev = d
Stays(d) ==
  /\ \A m \in Tasks : ~Rechecks(m, d)
  /\ Covered(d, dev[d].line)
  /\ \A u \in Tasks : task[u].pc = "move_row" /\ task[u].dev = d => task[u].line = dev[d].line
Accounted(d) == \/ \E t \in Tasks : Leaving(t, d)
                \/ \E m \in Tasks : Rechecks(m, d) /\ Covered(d, task[m].line)
                \/ Stays(d)
Answering == \A d \in Devices : Live(d) => Accounted(d)

(* Where the token of a paired row is.                                     *)
Pending(d) == \E t \in Tasks : task[t].pc \in {"pair_number", "pair_notify"} /\ task[t].dev = d
Carries(d) == \E i \in DOMAIN outbox[d] :
  outbox[d][i].type = "paired" /\ outbox[d][i].token = dev[d].token
TokenTraced ==
  \A d \in Devices : (Paired(d) /\ ~Pending(d) /\ d \notin lost)
    => Carries(d) \/ (cfg[d].token = dev[d].token /\ ~Undelivered(outbox[d]))

(* The rows of the call history.                                           *)
RowsTraced == slipped \/ /\ rows \subseteq active
                         /\ \A t \in Tasks : task[t].pc = "number_rename" => ~Busy(task[t].old)

(* What a request holds, by its step.                                      *)
LEMMA TaskKinds ==
  ASSUME NEW r \in TaskStates
  PROVE  /\ r.pc \in {"number_update", "number_recheck", "number_rename", "number_close"}
              => r \in Renumbers
         /\ r.pc \in {"delete_row", "delete_close"} => r \in Deletions
         /\ r.pc \in {"move_row", "move_recheck", "move_close", "move_list", "move_delete"}
              => r \in Moves
         /\ r.pc = "pair_number" => r \in Claims
         /\ r.pc = "pair_notify" => r \in Notices
         /\ r.pc \in {"register_code", "register_bound"} => r \in Logins
         /\ r.pc = "register_hub" => r \in Entries
         /\ r.pc = "call_enter" => r \in Calls
  <1>1. CASE r = Idle BY <1>1 DEF Idle
  <1>2. CASE r \in Renumbers BY <1>2 DEF Renumbers
  <1>3. CASE r \in Deletions BY <1>3 DEF Deletions
  <1>4. CASE r \in Moves BY <1>4 DEF Moves
  <1>5. CASE r \in Claims BY <1>5 DEF Claims
  <1>6. CASE r \in Notices BY <1>6 DEF Notices
  <1>7. CASE r \in Logins BY <1>7 DEF Logins
  <1>8. CASE r \in Entries BY <1>8 DEF Entries
  <1>9. CASE r \in Calls BY <1>9 DEF Calls
  <1> QED BY <1>1, <1>2, <1>3, <1>4, <1>5, <1>6, <1>7, <1>8, <1>9 DEF TaskStates

LEMMA StatesOfTasks ==
  /\ Idle \in TaskStates
  /\ Renumbers \subseteq TaskStates /\ Deletions \subseteq TaskStates
  /\ Moves \subseteq TaskStates /\ Claims \subseteq TaskStates
  /\ Notices \subseteq TaskStates /\ Logins \subseteq TaskStates
  /\ Entries \subseteq TaskStates /\ Calls \subseteq TaskStates
  BY DEF TaskStates

(* A request that moves on.                                                *)
LEMMA TaskGoes ==
  ASSUME TasksOK, NEW t \in Tasks, NEW r \in TaskStates, Goto(t, r)
  PROVE  TasksOK' /\ task'[t] = r /\ \A u \in Tasks : u # t => task'[u] = task[u]
  BY DEF TasksOK, Goto

LEMMA RenumberGoes ==
  ASSUME NEW r \in Renumbers,
         NEW p \in {"number_update", "number_recheck", "number_rename", "number_close"}
  PROVE  LET q == [r EXCEPT !.pc = p] IN
           /\ q \in Renumbers /\ q.pc = p
           /\ q.line = r.line /\ q.old = r.old /\ q.new = r.new
  BY DEF Renumbers

LEMMA DeletionGoes ==
  ASSUME NEW r \in Deletions
  PROVE  LET q == [r EXCEPT !.pc = "delete_close"] IN
           q \in Deletions /\ q.pc = "delete_close" /\ q.line = r.line /\ q.old = r.old
  BY DEF Deletions

LEMMA MoveGoes ==
  ASSUME NEW r \in Moves,
         NEW p \in {"move_row", "move_recheck", "move_close", "move_list", "move_delete"}
  PROVE  LET q == [r EXCEPT !.pc = p] IN
           /\ q \in Moves /\ q.pc = p /\ q.dev = r.dev /\ q.line = r.line
           /\ q.to = r.to /\ q.old = r.old /\ q.new = r.new
  BY DEF Moves

Types == LinesTypeOK /\ TasksOK
LinesInv == /\ Types /\ RowsMatch /\ OneRegistration /\ ClaimableIsSilent
            /\ Answering /\ TokenTraced /\ RowsTraced

Connections == [Devices -> Numbers \cup {Null, "unpaired"}]
Outboxes == [Devices -> Seq(Messages)]
LineRows == [Lines -> [number : Numbers, home : Homes] \cup {Null}]
DeviceRows == [Devices -> [line : Lines \cup {Null}, paired : BOOLEAN, token : Nat,
                           code : {"none", "fresh", "expired"}] \cup {Null}]

LEMMA SpendKept ==
  ASSUME MaxRequests \in Nat, spent \in 0..MaxRequests, Spend
  PROVE  spent' \in 0..MaxRequests
  BY DEF Spend

LEMMA FaultsKept ==
  ASSUME MaxFaults \in Nat, faults \in 0..MaxFaults, Fault \/ UNCHANGED faults
  PROVE  faults' \in 0..MaxFaults
  BY DEF Fault

LEMMA DisconnectKept ==
  ASSUME conn \in Connections, outbox \in Outboxes, NEW d \in Devices, Disconnect(d)
  PROVE  /\ conn' \in Connections /\ outbox' \in Outboxes
         /\ conn'[d] = Null /\ outbox'[d] = <<>>
         /\ \A e \in Devices : e # d => conn'[e] = conn[e] /\ outbox'[e] = outbox[e]
  BY DEF Disconnect, Connections, Outboxes

(* A close reaches those it is for, behind what they were to be told.      *)
LEMMA Closed ==
  ASSUME NEW q \in Seq(Messages), NEW f \in Seq(Messages),
         \A i \in DOMAIN f : f[i].type # "paired"
  PROVE  LET r == q \o f \o <<[type |-> "close"]>> IN
           /\ r \in Seq(Messages)
           /\ \E i \in DOMAIN r : r[i].type = "close"
           /\ \A i \in DOMAIN q : i \in DOMAIN r /\ r[i] = q[i]
           /\ \A i \in DOMAIN r : r[i].type = "paired" => i \in DOMAIN q
  <1> DEFINE m == [type |-> "close"]
             r == (q \o f) \o <<m>>
  <1>1. m \in Messages BY DEF Messages
  <1>2. m.type = "close" OBVIOUS
  <1> HIDE DEF m
  <1>3. q \o f \in Seq(Messages) /\ <<m>> \in Seq(Messages) BY <1>1
  <1>4. r \in Seq(Messages) BY <1>3
  <1>5. Len(r) = Len(q) + Len(f) + 1 /\ Len(q) \in Nat /\ Len(f) \in Nat BY <1>1
  <1>6. r[Len(r)] = m BY <1>1, <1>5
  <1>7. \A i \in 1..Len(q) : r[i] = q[i] BY <1>1
  <1>8. \A i \in 1..Len(f) : r[Len(q) + i] = f[i] BY <1>1
  <1>9. ASSUME NEW i \in 1..Len(r), r[i].type = "paired" PROVE i \in 1..Len(q)
    <2>1. CASE i = Len(r) BY <2>1, <1>6, <1>9, <1>2
    <2>2. CASE i \in Len(q) + 1 .. Len(r) - 1
      <3>1. i - Len(q) \in 1..Len(f) /\ Len(q) + (i - Len(q)) = i BY <2>2, <1>5
      <3>2. r[i] = f[i - Len(q)] BY <3>1, <1>8
      <3> QED BY <3>1, <3>2, <1>9
    <2> QED BY <2>1, <2>2, <1>5, <1>9
  <1>10. DOMAIN r = 1..Len(r) /\ DOMAIN q = 1..Len(q) BY <1>4
  <1> HIDE DEF r
  <1>11. \E i \in DOMAIN r : r[i].type = "close"
    <2>1. Len(r) \in DOMAIN r BY <1>5, <1>10
    <2> QED BY <2>1, <1>2, <1>6
  <1>12. \A i \in DOMAIN q : i \in DOMAIN r /\ r[i] = q[i] BY <1>5, <1>7, <1>10
  <1>13. \A i \in DOMAIN r : r[i].type = "paired" => i \in DOMAIN q BY <1>9, <1>10
  <1> QED BY <1>4, <1>11, <1>12, <1>13 DEF m, r

LEMMA CloseKept ==
  ASSUME outbox \in Outboxes, NEW D, NEW f \in Seq(Messages),
         \A i \in DOMAIN f : f[i].type # "paired", CloseConnsOf(D, f)
  PROVE  /\ outbox' \in Outboxes
         /\ \A d \in Devices :
              /\ d \in D => \E i \in DOMAIN outbox'[d] : outbox'[d][i].type = "close"
              /\ d \notin D => outbox'[d] = outbox[d]
              /\ \A i \in DOMAIN outbox[d] :
                   i \in DOMAIN outbox'[d] /\ outbox'[d][i] = outbox[d][i]
              /\ \A i \in DOMAIN outbox'[d] :
                   outbox'[d][i].type = "paired" => i \in DOMAIN outbox[d]
  <1> DEFINE r(d) == outbox[d] \o f \o <<[type |-> "close"]>>
  <1>1. ASSUME NEW d \in Devices
        PROVE  /\ r(d) \in Seq(Messages)
               /\ \E i \in DOMAIN r(d) : r(d)[i].type = "close"
               /\ \A i \in DOMAIN outbox[d] : i \in DOMAIN r(d) /\ r(d)[i] = outbox[d][i]
               /\ \A i \in DOMAIN r(d) : r(d)[i].type = "paired" => i \in DOMAIN outbox[d]
    <2>1. outbox[d] \in Seq(Messages) BY DEF Outboxes
    <2> QED BY <2>1, Closed
  <1>2. outbox' = [d \in Devices |-> IF d \in D THEN r(d) ELSE outbox[d]] BY DEF CloseConnsOf
  <1>3. \A d \in Devices : outbox[d] \in Seq(Messages) BY DEF Outboxes
  <1> HIDE DEF r
  <1>4. outbox' \in Outboxes BY <1>1, <1>2, <1>3 DEF Outboxes
  <1>5. ASSUME NEW d \in Devices
        PROVE  outbox'[d] = IF d \in D THEN r(d) ELSE outbox[d]
    BY <1>2
  <1> QED BY <1>1, <1>4, <1>5

(* The farewell of a renumbering and of a move.                            *)
LEMMA Farewell ==
  ASSUME NEW n \in Numbers
  PROVE  LET f == <<[type |-> "renumber", number |-> n]>> IN
           f \in Seq(Messages) /\ \A i \in DOMAIN f : f[i].type # "paired"
  <1> DEFINE m == [type |-> "renumber", number |-> n]
  <1>1. m \in Messages BY DEF Messages
  <1>2. m.type = "renumber" OBVIOUS
  <1> HIDE DEF m
  <1>3. <<m>> \in Seq(Messages) /\ \A i \in DOMAIN <<m>> : <<m>>[i] = m BY <1>1
  <1> QED BY <1>2, <1>3 DEF m

(* The types of the tables after each statement.                           *)
LEMMA BindKept ==
  ASSUME minted \in Nat, dev \in DeviceRows, NEW d \in Devices, NEW l \in Lines, Bind(d, l)
  PROVE  /\ minted' \in Nat /\ dev' \in DeviceRows
         /\ dev'[d] # Null => /\ dev'[d].line = l /\ dev'[d].paired
                              /\ dev'[d].token = minted + 1 /\ dev'[d].code = "none"
         /\ \A e \in Devices : e # d => dev'[e] = dev[e]
  <1> DEFINE r == [line |-> l, paired |-> TRUE, token |-> minted + 1, code |-> "none"]
  <1>1. r \in [line : Lines \cup {Null}, paired : BOOLEAN, token : Nat,
               code : {"none", "fresh", "expired"}]
    OBVIOUS
  <1>2. r.line = l /\ r.paired /\ r.token = minted + 1 /\ r.code = "none" OBVIOUS
  <1> HIDE DEF r
  <1>3. dev' = [dev EXCEPT ![d] = r] BY DEF Bind, r
  <1>4. dev' \in DeviceRows BY <1>1, <1>3 DEF DeviceRows
  <1>5. dev'[d] = r /\ \A e \in Devices : e # d => dev'[e] = dev[e]
    BY <1>3 DEF DeviceRows
  <1> QED BY <1>2, <1>4, <1>5 DEF Bind

LEMMA DeleteKept ==
  ASSUME line \in LineRows, dev \in DeviceRows, NEW l \in Lines, DeleteLine(l)
  PROVE  /\ line' \in LineRows /\ dev' \in DeviceRows
         /\ line'[l] = Null /\ \A k \in Lines : k # l => line'[k] = line[k]
         /\ \A d \in Devices : dev'[d] = dev[d] \/ dev'[d] = Null
         /\ \A d \in Devices : dev'[d] # Null => dev[d].line # l
  BY DEF DeleteLine, ListByLine, LineRows, DeviceRows

LEMMA ReassignKept ==
  ASSUME dev \in DeviceRows, NEW d \in Devices, NEW l \in Lines, dev[d] # Null, Reassign(d, l)
  PROVE  /\ dev' \in DeviceRows
         /\ \A e \in Devices : e # d => dev'[e] = dev[e]
         /\ dev'[d].line = l /\ dev'[d].paired = dev[d].paired
         /\ dev'[d].token = dev[d].token /\ dev'[d].code = dev[d].code
  <1> DEFINE Row == [line : Lines \cup {Null}, paired : BOOLEAN, token : Nat,
                     code : {"none", "fresh", "expired"}]
             r == [dev[d] EXCEPT !.line = l]
  <1>1. dev[d] \in Row BY DEF DeviceRows
  <1>2. /\ r \in Row /\ r.line = l /\ r.paired = dev[d].paired
        /\ r.token = dev[d].token /\ r.code = dev[d].code
    BY <1>1
  <1>3. dev' = [dev EXCEPT ![d] = r] BY DEF Reassign
  <1> HIDE DEF r
  <1> QED BY <1>2, <1>3 DEF DeviceRows

LEMMA NumberKept ==
  ASSUME line \in LineRows, NEW l \in Lines, NEW n \in Numbers, line[l] # Null,
         line' = [line EXCEPT ![l].number = n]
  PROVE  /\ line' \in LineRows
         /\ \A k \in Lines : k # l => line'[k] = line[k]
         /\ line'[l].number = n /\ line'[l].home = line[l].home
         /\ line'[l] \in [number : Numbers, home : Homes]
  <1> DEFINE Row == [number : Numbers, home : Homes]
             r == [line[l] EXCEPT !.number = n]
  <1>1. line[l] \in Row BY DEF LineRows
  <1>2. r \in Row /\ r.number = n /\ r.home = line[l].home BY <1>1
  <1>3. line' = [line EXCEPT ![l] = r] OBVIOUS
  <1> HIDE DEF r
  <1> QED BY <1>2, <1>3 DEF LineRows

(* The type invariant, by its sets.                                        *)
LEMMA TypeOKIs ==
  LinesTypeOK <=> /\ line \in LineRows /\ dev \in DeviceRows /\ conn \in Connections
                  /\ outbox \in Outboxes
                  /\ cfg \in [Devices -> [number : Numbers \cup {Null}, token : Nat]]
                  /\ active \subseteq Numbers \X Numbers /\ rows \subseteq Numbers \X Numbers
                  /\ minted \in Nat /\ unused \subseteq Lines
                  /\ spent \in 0..MaxRequests /\ faults \in 0..MaxFaults
                  /\ lost \subseteq Devices /\ overlapped \subseteq Devices
                  /\ slipped \in BOOLEAN
  BY DEF LinesTypeOK, LineRows, DeviceRows, Connections, Outboxes

LEMMA TypesNext ==
  /\ line' \in LineRows /\ dev' \in DeviceRows /\ conn' \in Connections
  /\ outbox' \in Outboxes
  /\ cfg' \in [Devices -> [number : Numbers \cup {Null}, token : Nat]]
  /\ active' \subseteq Numbers \X Numbers /\ rows' \subseteq Numbers \X Numbers
  /\ minted' \in Nat /\ unused' \subseteq Lines
  /\ spent' \in 0..MaxRequests /\ faults' \in 0..MaxFaults
  /\ lost' \subseteq Devices /\ overlapped' \subseteq Devices /\ slipped' \in BOOLEAN
  => LinesTypeOK'
  BY DEF LinesTypeOK, LineRows, DeviceRows, Connections, Outboxes

LEMMA BoundsAreNumbers ==
  ASSUME ConstantsOK
  PROVE  MaxRequests \in Nat /\ MaxFaults \in Nat
  BY DEF ConstantsOK

(* Claims of a handset.                                                    *)
LEMMA ClaimTypes ==
  ASSUME ConstantsOK, Types, NEW t \in Tasks, NEW d \in Devices, NEW l \in Lines,
         NEW home \in Homes,
         \/ \E n \in Numbers : ClaimDevice(t, d, l, n, home)
         \/ ClaimDeviceToLine(t, d, l, home)
  PROVE  Types'
  <1> USE TypeOKIs, BoundsAreNumbers DEF Types
  <1>1. spent' \in 0..MaxRequests
    BY SpendKept DEF ClaimDevice, ClaimDeviceToLine
  <1>2. minted' \in Nat /\ dev' \in DeviceRows
    BY BindKept DEF ClaimDevice, ClaimDeviceToLine
  <1>3. line' \in LineRows
    <2>1. CASE ClaimDeviceToLine(t, d, l, home) BY <2>1 DEF ClaimDeviceToLine
    <2>2. ASSUME NEW n \in Numbers, ClaimDevice(t, d, l, n, home) PROVE line' \in LineRows
      BY <2>2 DEF ClaimDevice, LineRows
    <2> QED BY <2>1, <2>2
  <1>4. LinesTypeOK'
    BY <1>1, <1>2, <1>3, TypesNext DEF ClaimDevice, ClaimDeviceToLine, history
  <1>5. \A n \in Numbers :
          [pc |-> "pair_notify", dev |-> d, token |-> minted + 1, new |-> n] \in TaskStates
    BY StatesOfTasks DEF Notices
  <1>6. [pc |-> "pair_number", dev |-> d, token |-> minted + 1, line |-> l] \in TaskStates
    BY StatesOfTasks DEF Claims
  <1>7. TasksOK'
    BY <1>5, <1>6, TaskGoes DEF ClaimDevice, ClaimDeviceToLine
  <1> QED BY <1>4, <1>7

LEMMA PairTypes ==
  ASSUME ConstantsOK, Types, NEW t \in Tasks, PairNumber(t) \/ PairNotify(t)
  PROVE  Types'
  <1> USE TypeOKIs DEF Types
  <1>1. CASE PairNumber(t)
    <2>1. task[t] \in Claims BY <1>1, TaskKinds DEF TasksOK, PairNumber
    <2>2. task[t].dev \in Devices /\ task[t].token \in Nat /\ task[t].line \in Lines
      BY <2>1 DEF Claims
    <2>3. LinesTypeOK' BY <1>1, <2>2, TypesNext DEF PairNumber, ids
    <2>4. CASE line[task[t].line] = Null
      BY <1>1, <2>3, <2>4, TaskGoes, StatesOfTasks DEF PairNumber, Done
    <2>5. CASE line[task[t].line] # Null
      <3>1. line[task[t].line].number \in Numbers BY <2>2, <2>5 DEF LineRows
      <3>2. [pc |-> "pair_notify", dev |-> task[t].dev, token |-> task[t].token,
             new |-> line[task[t].line].number] \in TaskStates
        BY <2>2, <3>1, StatesOfTasks DEF Notices
      <3> QED BY <1>1, <2>3, <2>5, <3>2, TaskGoes DEF PairNumber
    <2> QED BY <2>4, <2>5
  <1>2. CASE PairNotify(t)
    <2>1. task[t] \in Notices BY <1>2, TaskKinds DEF TasksOK, PairNotify
    <2>2. task[t].dev \in Devices /\ task[t].token \in Nat /\ task[t].new \in Numbers
      BY <2>1 DEF Notices
    <2> DEFINE m == [type |-> "paired", token |-> task[t].token, number |-> task[t].new]
    <2>3. m \in Messages BY <2>2 DEF Messages
    <2>4. \/ outbox' = outbox
          \/ outbox' = [outbox EXCEPT ![task[t].dev] = Append(@, m)]
      BY <1>2 DEF PairNotify
    <2>5. outbox' \in Outboxes
      <3> DEFINE d == task[t].dev
                 q == Append(outbox[d], m)
      <3> HIDE DEF m
      <3>1. d \in Devices /\ outbox[d] \in Seq(Messages) BY <2>2 DEF Outboxes
      <3>2. q \in Seq(Messages) BY <2>3, <3>1
      <3>3. outbox' = outbox \/ outbox' = [outbox EXCEPT ![d] = q] BY <2>4
      <3> HIDE DEF d, q
      <3> QED BY <3>1, <3>2, <3>3 DEF Outboxes
    <2>6. lost' \subseteq Devices BY <1>2, <2>2 DEF PairNotify
    <2>7. LinesTypeOK' BY <1>2, <2>5, <2>6, TypesNext DEF PairNotify, ids
    <2>8. TasksOK' BY <1>2, TaskGoes, StatesOfTasks DEF PairNotify, Done
    <2> QED BY <2>7, <2>8
  <1> QED BY <1>1, <1>2

LEMMA CodeTypes ==
  ASSUME ConstantsOK, Types, CleanupExpired \/ \E d \in Devices : CodeExpires(d)
  PROVE  Types'
  <1> USE TypeOKIs DEF Types
  <1>1. dev' \in DeviceRows
    <2>1. CASE CleanupExpired BY <2>1 DEF CleanupExpired, DeviceRows
    <2>2. ASSUME NEW d \in Devices, CodeExpires(d) PROVE dev' \in DeviceRows
      BY <2>2 DEF CodeExpires, DeviceRows
    <2> QED BY <2>1, <2>2
  <1>2. UNCHANGED <<line, conn, outbox, cfg, active, rows, task, minted, unused, spent, faults,
                    lost, overlapped, slipped>>
    BY DEF CleanupExpired, CodeExpires, ids, history
  <1> QED BY <1>1, <1>2, TypesNext DEF TasksOK

(* Registration.                                                           *)
LEMMA RegisterTypes ==
  ASSUME ConstantsOK, Types, NEW t \in Tasks,
         \/ \E d \in Devices : RegisterAuth(t, d)
         \/ GenerateCode(t) \/ RegisterBound(t) \/ RegisterHub(t)
  PROVE  Types'
  <1> USE TypeOKIs DEF Types
  <1>1. ASSUME NEW d \in Devices, RegisterAuth(t, d) PROVE Types'
    <2>1. LinesTypeOK' BY <1>1, TypesNext DEF RegisterAuth, ids, history
    <2>2. /\ [pc |-> "register_code", dev |-> d] \in TaskStates
          /\ [pc |-> "register_bound", dev |-> d] \in TaskStates
      BY StatesOfTasks DEF Logins
    <2>3. TasksOK' BY <1>1, <2>2, TaskGoes DEF RegisterAuth
    <2> QED BY <2>1, <2>3
  <1>2. CASE GenerateCode(t)
    <2>1. task[t] \in Logins BY <1>2, TaskKinds DEF TasksOK, GenerateCode
    <2>2. task[t].dev \in Devices BY <2>1 DEF Logins
    <2> DEFINE d == task[t].dev
    <2>3. \/ dev' = dev
          \/ dev' = [dev EXCEPT ![d] = [line |-> Null, paired |-> FALSE,
                                        token |-> NoToken, code |-> "fresh"]]
          \/ dev[d] # Null /\ dev' = [dev EXCEPT ![d].code = "fresh"]
      BY <1>2 DEF GenerateCode
    <2>4. dev' \in DeviceRows
      <3> DEFINE Row == [line : Lines \cup {Null}, paired : BOOLEAN, token : Nat,
                         code : {"none", "fresh", "expired"}]
                 r == [line |-> Null, paired |-> FALSE, token |-> NoToken, code |-> "fresh"]
                 s == [dev[d] EXCEPT !.code = "fresh"]
      <3>1. r \in Row BY DEF NoToken
      <3>2. dev[d] # Null => dev[d] \in Row BY <2>2 DEF DeviceRows
      <3>3. dev[d] # Null => s \in Row BY <3>2
      <3>4. \/ dev' = dev \/ dev' = [dev EXCEPT ![d] = r]
            \/ dev[d] # Null /\ dev' = [dev EXCEPT ![d] = s]
        BY <2>3
      <3> HIDE DEF d, r, s
      <3>5. d \in Devices BY <2>2 DEF d
      <3> QED BY <3>1, <3>3, <3>4, <3>5 DEF DeviceRows
    <2>5. LinesTypeOK' BY <1>2, <2>4, TypesNext DEF GenerateCode, ids, history
    <2>6. [pc |-> "register_hub", dev |-> task[t].dev, new |-> "unpaired"] \in TaskStates
      BY <2>2, StatesOfTasks DEF Entries
    <2>7. TasksOK' BY <1>2, <2>6, TaskGoes DEF GenerateCode
    <2> QED BY <2>5, <2>7
  <1>3. CASE RegisterBound(t)
    <2>1. task[t] \in Logins BY <1>3, TaskKinds DEF TasksOK, RegisterBound
    <2>2. task[t].dev \in Devices BY <2>1 DEF Logins
    <2>3. LinesTypeOK' BY <1>3, TypesNext DEF RegisterBound, ids, history
    <2>4. CASE BoundLineNumber(task[t].dev) = Null
      BY <1>3, <2>3, <2>4, TaskGoes, StatesOfTasks DEF RegisterBound, Done
    <2>5. CASE BoundLineNumber(task[t].dev) # Null
      <3>1. BoundLineNumber(task[t].dev) \in Numbers
        BY <2>2, <2>5 DEF BoundLineNumber, DeviceRows, LineRows
      <3>2. [pc |-> "register_hub", dev |-> task[t].dev,
             new |-> BoundLineNumber(task[t].dev)] \in TaskStates
        BY <2>2, <3>1, StatesOfTasks DEF Entries
      <3> QED BY <1>3, <2>3, <2>5, <3>2, TaskGoes DEF RegisterBound
    <2> QED BY <2>4, <2>5
  <1>4. CASE RegisterHub(t)
    <2>1. task[t] \in Entries BY <1>4, TaskKinds DEF TasksOK, RegisterHub
    <2>2. task[t].dev \in Devices /\ task[t].new \in Numbers \cup {"unpaired"}
      BY <2>1 DEF Entries
    <2>3. conn' \in Connections BY <1>4, <2>2 DEF RegisterHub, Connections
    <2>4. overlapped' \subseteq Devices BY <1>4, <2>2 DEF RegisterHub
    <2> DEFINE m == [type |-> "renumber", number |-> task[t].new]
    <2>5. \/ outbox' = [outbox EXCEPT ![task[t].dev] = <<>>]
          \/ task[t].new # "unpaired" /\ outbox' = [outbox EXCEPT ![task[t].dev] = <<m>>]
      BY <1>4 DEF RegisterHub
    <2>6. task[t].new # "unpaired" => m \in Messages BY <2>2 DEF Messages
    <2>7. outbox' \in Outboxes
      <3> DEFINE d == task[t].dev
      <3> HIDE DEF m
      <3>1. <<>> \in Seq(Messages) OBVIOUS
      <3>2. task[t].new # "unpaired" => <<m>> \in Seq(Messages) BY <2>6
      <3>3. d \in Devices BY <2>2
      <3> DEFINE e == <<>>
                 q == <<m>>
      <3>4. \/ outbox' = [outbox EXCEPT ![d] = e]
            \/ task[t].new # "unpaired" /\ outbox' = [outbox EXCEPT ![d] = q]
        BY <2>5
      <3> HIDE DEF d, e, q
      <3>5. e \in Seq(Messages) /\ (task[t].new # "unpaired" => q \in Seq(Messages))
        BY <3>1, <3>2 DEF e, q
      <3> QED BY <3>3, <3>4, <3>5 DEF Outboxes
    <2>8. LinesTypeOK' BY <1>4, <2>3, <2>4, <2>7, TypesNext DEF RegisterHub, ids
    <2>9. TasksOK' BY <1>4, TaskGoes, StatesOfTasks DEF RegisterHub, Done
    <2> QED BY <2>8, <2>9
  <1> QED BY <1>1, <1>2, <1>3, <1>4

(* The handset.                                                            *)
LEMMA HandsetTypes ==
  ASSUME ConstantsOK, Types, NEW d \in Devices, Deliver(d) \/ Drop(d) \/ Repair(d)
  PROVE  Types'
  <1> USE TypeOKIs, BoundsAreNumbers DEF Types
  <1>1. task' = task BY DEF Deliver, Drop, Repair
  <1>2. TasksOK' BY <1>1 DEF TasksOK
  <1>3. CASE Deliver(d)
    <2> DEFINE m == Head(outbox[d])
    <2>1. m \in Messages /\ Tail(outbox[d]) \in Seq(Messages)
      BY <1>3 DEF Deliver, Outboxes
    <2>2. /\ m.type = "renumber" => m.number \in Numbers
          /\ m.type = "paired" => m.number \in Numbers /\ m.token \in Nat
      <3> HIDE DEF m
      <3> QED BY <2>1 DEF Messages
    <2>3. CASE m.type = "renumber" /\ m.number = cfg[d].number
      <3>1. outbox' \in Outboxes BY <1>3, <2>1, <2>3 DEF Deliver, Outboxes
      <3> QED BY <1>2, <1>3, <2>3, <3>1, TypesNext DEF Deliver, ids
    <2>4. CASE ~(m.type = "renumber" /\ m.number = cfg[d].number)
      <3>1. Disconnect(d) BY <1>3, <2>4 DEF Deliver
      <3>2. conn' \in Connections /\ outbox' \in Outboxes BY <3>1, DisconnectKept
      <3>3. lost' \subseteq Devices BY <1>3, <2>4 DEF Deliver
      <3>4. cfg' \in [Devices -> [number : Numbers \cup {Null}, token : Nat]]
        <4>1. cfg' = [cfg EXCEPT ![d] =
                   CASE m.type = "paired"   -> [number |-> m.number, token |-> m.token]
                     [] m.type = "renumber" -> [cfg[d] EXCEPT !.number = m.number]
                     [] OTHER               -> cfg[d]]
          BY <1>3, <2>4 DEF Deliver
        <4> HIDE DEF m
        <4>2. CASE m.type = "paired" BY <2>2, <4>1, <4>2
        <4>3. CASE m.type = "renumber"
          <5>1. cfg' = [cfg EXCEPT ![d] = [cfg[d] EXCEPT !.number = m.number]] BY <4>1, <4>3
          <5> QED BY <2>2, <4>3, <5>1
        <4>4. CASE m.type \notin {"paired", "renumber"}
          <5>1. cfg' = [cfg EXCEPT ![d] = cfg[d]] BY <4>1, <4>4
          <5> QED BY <5>1
        <4> QED BY <4>2, <4>3, <4>4
      <3> QED BY <1>2, <1>3, <3>2, <3>3, <3>4, TypesNext DEF Deliver, ids
    <2> QED BY <2>3, <2>4
  <1>4. CASE Drop(d)
    <2>1. conn' \in Connections /\ outbox' \in Outboxes BY <1>4, DisconnectKept DEF Drop
    <2>2. faults' \in 0..MaxFaults BY <1>4, FaultsKept DEF Drop
    <2>3. lost' \subseteq Devices BY <1>4 DEF Drop
    <2> QED BY <1>2, <1>4, <2>1, <2>2, <2>3, TypesNext DEF Drop, ids
  <1>5. CASE Repair(d)
    <2>1. conn' \in Connections /\ outbox' \in Outboxes BY <1>5, DisconnectKept DEF Repair
    <2>2. faults' \in 0..MaxFaults BY <1>5, FaultsKept DEF Repair
    <2>3. spent' \in 0..MaxRequests BY <1>5, SpendKept DEF Repair
    <2>4. lost' \subseteq Devices BY <1>5 DEF Repair
    <2>5. cfg' \in [Devices -> [number : Numbers \cup {Null}, token : Nat]]
      BY <1>5 DEF Repair, NoToken
    <2>6. dev' \in DeviceRows
      <3>1. CASE dev' = dev BY <3>1
      <3>2. CASE dev[d] # Null /\ dev' = [dev EXCEPT ![d].paired = FALSE, ![d].token = NoToken]
        <4>1. NoToken \in Nat BY DEF NoToken
        <4> QED BY <3>2, <4>1 DEF DeviceRows
      <3> QED BY <1>5, <3>1, <3>2 DEF Repair
    <2> QED BY <1>2, <1>5, <2>1, <2>2, <2>3, <2>4, <2>5, <2>6, TypesNext DEF Repair, ids
  <1> QED BY <1>3, <1>4, <1>5

(* Changing a number.                                                      *)
LEMMA NumberTypes ==
  ASSUME ConstantsOK, Types, NEW t \in Tasks,
         \/ \E l \in Lines, n \in Numbers : NumberCheck(t, l, n)
         \/ NumberUpdate(t) \/ NumberRecheck(t) \/ RenameNumber(t) \/ NumberClose(t)
  PROVE  Types'
  <1> USE TypeOKIs, BoundsAreNumbers DEF Types
  <1>1. ASSUME NEW l \in Lines, NEW n \in Numbers, NumberCheck(t, l, n) PROVE Types'
    <2>1. spent' \in 0..MaxRequests BY <1>1, SpendKept DEF NumberCheck
    <2>2. LinesTypeOK' BY <1>1, <2>1, TypesNext DEF NumberCheck, ids, history
    <2>3. line[l].number \in Numbers BY <1>1 DEF NumberCheck, LineRows
    <2>4. [pc |-> "number_update", line |-> l, old |-> line[l].number, new |-> n] \in TaskStates
      BY <2>3, StatesOfTasks DEF Renumbers
    <2>5. TasksOK' BY <1>1, <2>4, TaskGoes DEF NumberCheck
    <2> QED BY <2>2, <2>5
  <1>2. ASSUME task[t].pc \in {"number_update", "number_recheck", "number_rename",
                               "number_close"}
        PROVE  /\ task[t] \in Renumbers /\ task[t].line \in Lines
               /\ task[t].old \in Numbers /\ task[t].new \in Numbers
               /\ \A p \in {"number_recheck", "number_rename", "number_close"} :
                    [task[t] EXCEPT !.pc = p] \in TaskStates
    <2>1. task[t] \in Renumbers BY <1>2, TaskKinds DEF TasksOK
    <2>2. ASSUME NEW p \in {"number_recheck", "number_rename", "number_close"}
          PROVE  [task[t] EXCEPT !.pc = p] \in TaskStates
      BY <2>1, RenumberGoes, StatesOfTasks
    <2>3. task[t].line \in Lines /\ task[t].old \in Numbers /\ task[t].new \in Numbers
      BY <2>1 DEF Renumbers
    <2> QED BY <2>1, <2>2, <2>3
  <1>3. CASE NumberUpdate(t)
    <2>1. TasksOK' BY <1>2, <1>3, TaskGoes, StatesOfTasks DEF NumberUpdate, Done
    <2>2. line' \in LineRows
      BY <1>2, <1>3, NumberKept DEF NumberUpdate
    <2> QED BY <1>3, <2>1, <2>2, TypesNext DEF NumberUpdate, ids, history
  <1>4. CASE NumberRecheck(t)
    <2>1. TasksOK' BY <1>2, <1>4, TaskGoes, StatesOfTasks DEF NumberRecheck, Done
    <2>2. line' \in LineRows
      BY <1>2, <1>4, NumberKept DEF NumberRecheck
    <2>3. faults' \in 0..MaxFaults BY <1>4, FaultsKept DEF NumberRecheck
    <2>4. overlapped' \subseteq Devices /\ slipped' \in BOOLEAN BY <1>4 DEF NumberRecheck
    <2> QED BY <1>4, <2>1, <2>2, <2>3, <2>4, TypesNext DEF NumberRecheck, ids
  <1>5. CASE RenameNumber(t)
    <2>1. TasksOK' BY <1>2, <1>5, TaskGoes DEF RenameNumber
    <2>2. faults' \in 0..MaxFaults BY <1>5, FaultsKept DEF RenameNumber
    <2>3. rows' \subseteq Numbers \X Numbers
      <3>1. task[t].new \in Numbers BY <1>2, <1>5 DEF RenameNumber
      <3> QED BY <1>5, <3>1 DEF RenameNumber
    <2> QED BY <1>5, <2>1, <2>2, <2>3, TypesNext DEF RenameNumber, ids, history
  <1>6. CASE NumberClose(t)
    <2>1. TasksOK' BY <1>6, TaskGoes, StatesOfTasks DEF NumberClose, Done
    <2>2. task[t].new \in Numbers BY <1>2, <1>6 DEF NumberClose
    <2>3. outbox' \in Outboxes BY <1>6, <2>2, Farewell, CloseKept DEF NumberClose
    <2> QED BY <1>6, <2>1, <2>3, TypesNext DEF NumberClose, ids, history
  <1> QED BY <1>1, <1>3, <1>4, <1>5, <1>6

(* Deleting a line, moving a handset.                                      *)
LEMMA DeleteTypes ==
  ASSUME ConstantsOK, Types, NEW t \in Tasks,
         (\E l \in Lines : DeleteCheck(t, l)) \/ DeleteRow(t) \/ DeleteClose(t)
  PROVE  Types'
  <1> USE TypeOKIs, BoundsAreNumbers DEF Types
  <1>1. ASSUME NEW l \in Lines, DeleteCheck(t, l) PROVE Types'
    <2>1. spent' \in 0..MaxRequests BY <1>1, SpendKept DEF DeleteCheck
    <2>2. LinesTypeOK' BY <1>1, <2>1, TypesNext DEF DeleteCheck, ids, history
    <2>3. line[l].number \in Numbers BY <1>1 DEF DeleteCheck, LineRows
    <2>4. [pc |-> "delete_row", line |-> l, old |-> line[l].number] \in TaskStates
      BY <2>3, StatesOfTasks DEF Deletions
    <2>5. TasksOK' BY <1>1, <2>4, TaskGoes DEF DeleteCheck
    <2> QED BY <2>2, <2>5
  <1>2. ASSUME task[t].pc \in {"delete_row", "delete_close"}
        PROVE  /\ task[t] \in Deletions /\ task[t].line \in Lines
               /\ [task[t] EXCEPT !.pc = "delete_close"] \in TaskStates
    <2>1. task[t] \in Deletions BY <1>2, TaskKinds DEF TasksOK
    <2>2. [task[t] EXCEPT !.pc = "delete_close"] \in TaskStates
      BY <2>1, DeletionGoes, StatesOfTasks
    <2> QED BY <2>1, <2>2 DEF Deletions
  <1>3. CASE DeleteRow(t)
    <2>1. TasksOK' BY <1>2, <1>3, TaskGoes, StatesOfTasks DEF DeleteRow, Done
    <2>2. line' \in LineRows /\ dev' \in DeviceRows
      BY <1>2, <1>3, DeleteKept DEF DeleteRow
    <2> QED BY <1>3, <2>1, <2>2, TypesNext DEF DeleteRow, ids, history
  <1>4. CASE DeleteClose(t)
    <2>1. TasksOK' BY <1>4, TaskGoes, StatesOfTasks DEF DeleteClose, Done
    <2>2. <<>> \in Seq(Messages) /\ \A i \in DOMAIN <<>> : <<>>[i].type # "paired"
      OBVIOUS
    <2> DEFINE D == {d \in Devices : conn[d] = task[t].old}
    <2>3. CloseConnsOf(D, <<>>) BY <1>4 DEF DeleteClose
    <2> HIDE DEF D
    <2>4. outbox' \in Outboxes BY <2>2, <2>3, CloseKept
    <2> QED BY <1>4, <2>1, <2>4, TypesNext DEF DeleteClose, ids, history
  <1> QED BY <1>1, <1>3, <1>4

LEMMA MoveTypes ==
  ASSUME ConstantsOK, Types, NEW t \in Tasks,
         \/ \E d \in Devices, l \in Lines : MoveCheck(t, d, l)
         \/ MoveRow(t) \/ MoveRecheck(t) \/ MoveClose(t) \/ MoveList(t)
         \/ MoveDelete(t)
  PROVE  Types'
  <1> USE TypeOKIs, BoundsAreNumbers DEF Types
  <1>1. ASSUME NEW d \in Devices, NEW l \in Lines, MoveCheck(t, d, l) PROVE Types'
    <2>1. spent' \in 0..MaxRequests BY <1>1, SpendKept DEF MoveCheck
    <2>2. LinesTypeOK' BY <1>1, <2>1, TypesNext DEF MoveCheck, ids, history
    <2>3. dev[d].line \in Lines BY <1>1 DEF MoveCheck, DeviceRows
    <2>4. line[dev[d].line].number \in Numbers /\ line[l].number \in Numbers
      BY <1>1, <2>3 DEF MoveCheck, LineRows
    <2>5. [pc |-> "move_row", dev |-> d, line |-> dev[d].line, to |-> l,
           old |-> line[dev[d].line].number, new |-> line[l].number] \in TaskStates
      BY <2>3, <2>4, StatesOfTasks DEF Moves
    <2>6. TasksOK' BY <1>1, <2>5, TaskGoes DEF MoveCheck
    <2> QED BY <2>2, <2>6
  <1>2. ASSUME task[t].pc \in {"move_row", "move_recheck", "move_close", "move_list",
                               "move_delete"}
        PROVE  /\ task[t] \in Moves /\ task[t].dev \in Devices /\ task[t].line \in Lines
               /\ task[t].to \in Lines /\ task[t].new \in Numbers
               /\ \A p \in {"move_recheck", "move_close", "move_list", "move_delete"} :
                    [task[t] EXCEPT !.pc = p] \in TaskStates
    <2>1. task[t] \in Moves BY <1>2, TaskKinds DEF TasksOK
    <2>2. ASSUME NEW p \in {"move_recheck", "move_close", "move_list", "move_delete"}
          PROVE  [task[t] EXCEPT !.pc = p] \in TaskStates
      BY <2>1, MoveGoes, StatesOfTasks
    <2>3. /\ task[t].dev \in Devices /\ task[t].line \in Lines
          /\ task[t].to \in Lines /\ task[t].new \in Numbers
      BY <2>1 DEF Moves
    <2> QED BY <2>1, <2>2, <2>3
  <1>3. CASE MoveRow(t)
    <2>1. TasksOK' BY <1>2, <1>3, TaskGoes, StatesOfTasks DEF MoveRow, Done
    <2>2. dev' \in DeviceRows
      BY <1>2, <1>3, ReassignKept DEF MoveRow, CanReassign
    <2> QED BY <1>3, <2>1, <2>2, TypesNext DEF MoveRow, ids, history
  <1>4. CASE MoveRecheck(t)
    <2>1. TasksOK' BY <1>2, <1>4, TaskGoes, StatesOfTasks DEF MoveRecheck, Done
    <2>2. dev' \in DeviceRows
      BY <1>2, <1>4, ReassignKept DEF MoveRecheck, CanReassign
    <2>3. faults' \in 0..MaxFaults BY <1>4, FaultsKept DEF MoveRecheck
    <2>4. overlapped' \subseteq Devices BY <1>2, <1>4 DEF MoveRecheck
    <2> QED BY <1>4, <2>1, <2>2, <2>3, <2>4, TypesNext DEF MoveRecheck, ids
  <1>5. CASE MoveClose(t)
    <2>1. TasksOK' BY <1>2, <1>5, TaskGoes DEF MoveClose
    <2>2. task[t].new \in Numbers BY <1>2, <1>5 DEF MoveClose
    <2>3. outbox' \in Outboxes BY <1>5, <2>2, Farewell, CloseKept DEF MoveClose
    <2> QED BY <1>5, <2>1, <2>3, TypesNext DEF MoveClose, ids, history
  <1>6. CASE MoveList(t)
    <2>1. TasksOK' BY <1>2, <1>6, TaskGoes, StatesOfTasks DEF MoveList, Done
    <2> QED BY <1>6, <2>1, TypesNext DEF MoveList, ids, history
  <1>7. CASE MoveDelete(t)
    <2>1. TasksOK' BY <1>7, TaskGoes, StatesOfTasks DEF MoveDelete, Done
    <2>2. line' \in LineRows /\ dev' \in DeviceRows
      BY <1>2, <1>7, DeleteKept DEF MoveDelete
    <2> QED BY <1>7, <2>1, <2>2, TypesNext DEF MoveDelete, ids, history
  <1> QED BY <1>1, <1>3, <1>4, <1>5, <1>6, <1>7

(* Calls.                                                                  *)
LEMMA CallTypes ==
  ASSUME ConstantsOK, Types,
         \/ \E t \in Tasks : \/ \E d \in Devices, n \in Numbers : CallCheck(t, d, n)
                             \/ CallEnter(t)
         \/ \E c \in active : CallEnds(c)
  PROVE  Types'
  <1> USE TypeOKIs, BoundsAreNumbers DEF Types
  <1>1. ASSUME NEW t \in Tasks, NEW d \in Devices, NEW n \in Numbers, CallCheck(t, d, n)
        PROVE  Types'
    <2>1. spent' \in 0..MaxRequests BY <1>1, SpendKept DEF CallCheck
    <2>2. LinesTypeOK' BY <1>1, <2>1, TypesNext DEF CallCheck, ids, history
    <2>3. [pc |-> "call_enter", old |-> conn[d], new |-> n] \in TaskStates
      BY <1>1, StatesOfTasks DEF Calls, CallCheck
    <2>4. TasksOK' BY <1>1, <2>3, TaskGoes DEF CallCheck
    <2> QED BY <2>2, <2>4
  <1>2. ASSUME NEW t \in Tasks, CallEnter(t) PROVE Types'
    <2>1. task[t] \in Calls BY <1>2, TaskKinds DEF TasksOK, CallEnter
    <2>2. task[t].old \in Numbers /\ task[t].new \in Numbers BY <2>1 DEF Calls
    <2>3. active' \subseteq Numbers \X Numbers /\ rows' \subseteq Numbers \X Numbers
      BY <1>2, <2>2 DEF CallEnter
    <2>4. slipped' \in BOOLEAN BY <1>2 DEF CallEnter
    <2>5. TasksOK' BY <1>2, TaskGoes, StatesOfTasks DEF CallEnter, Done
    <2> QED BY <1>2, <2>3, <2>4, <2>5, TypesNext DEF CallEnter, ids
  <1>3. ASSUME NEW c \in active, CallEnds(c) PROVE Types'
    <2>1. TasksOK' BY <1>3 DEF CallEnds, TasksOK
    <2> QED BY <1>3, <2>1, TypesNext DEF CallEnds, ids, history
  <1> QED BY <1>1, <1>2, <1>3

LEMMA TypesStep ==
  ASSUME ConstantsOK, Types, LinesNext
  PROVE  Types'
  <1>1. ASSUME NEW t \in Tasks,
               \E d \in Devices, l \in Lines, home \in Homes :
                 \/ \E n \in Numbers : ClaimDevice(t, d, l, n, home)
                 \/ ClaimDeviceToLine(t, d, l, home)
        PROVE  Types'
    BY <1>1, ClaimTypes
  <1> QED BY <1>1, PairTypes, CodeTypes, RegisterTypes, HandsetTypes, NumberTypes, DeleteTypes,
             MoveTypes, CallTypes DEF LinesNext

(* How each statement moves its request on.                                *)
Steps(t, from, to) ==
  /\ task[t].pc \in from /\ task'[t].pc \in to
  /\ \A u \in Tasks : u # t => task'[u] = task[u]

LEMMA IdlePc == Idle.pc = "idle"
  BY DEF Idle

LEMMA PairGoes ==
  ASSUME Types, NEW t \in Tasks
  PROVE  /\ \A d \in Devices, l \in Lines, n \in Numbers, home \in Homes :
              ClaimDevice(t, d, l, n, home)
                => Steps(t, {"idle"}, {"pair_notify"}) /\ task'[t].dev = d
         /\ \A d \in Devices, l \in Lines, home \in Homes :
              ClaimDeviceToLine(t, d, l, home)
                => Steps(t, {"idle"}, {"pair_number"}) /\ task'[t].dev = d
         /\ PairNumber(t) =>
              /\ Steps(t, {"pair_number"}, {"idle", "pair_notify"}) /\ task[t].dev \in Devices
              /\ task'[t].pc = "pair_notify" => task'[t].dev = task[t].dev
         /\ PairNotify(t) =>
              /\ Steps(t, {"pair_notify"}, {"idle"}) /\ task[t].dev \in Devices
              /\ task[t].token \in Nat /\ task[t].new \in Numbers
  <1>1. ASSUME NEW d \in Devices, NEW l \in Lines, NEW n \in Numbers, NEW home \in Homes,
               ClaimDevice(t, d, l, n, home)
        PROVE  Steps(t, {"idle"}, {"pair_notify"}) /\ task'[t].dev = d
    BY <1>1, IdlePc DEF ClaimDevice, Goto, Types, TasksOK, Steps
  <1>2. ASSUME NEW d \in Devices, NEW l \in Lines, NEW home \in Homes,
               ClaimDeviceToLine(t, d, l, home)
        PROVE  Steps(t, {"idle"}, {"pair_number"}) /\ task'[t].dev = d
    BY <1>2, IdlePc DEF ClaimDeviceToLine, Goto, Types, TasksOK, Steps
  <1>3. ASSUME PairNumber(t)
        PROVE  /\ Steps(t, {"pair_number"}, {"idle", "pair_notify"}) /\ task[t].dev \in Devices
               /\ task'[t].pc = "pair_notify" => task'[t].dev = task[t].dev
    <2>1. task[t] \in Claims BY <1>3, TaskKinds DEF PairNumber, Types, TasksOK
    <2>2. task[t].dev \in Devices BY <2>1 DEF Claims
    <2>3. CASE line[task[t].line] = Null
      BY <1>3, <2>2, <2>3, IdlePc DEF PairNumber, Done, Goto, Types, TasksOK, Steps
    <2>4. CASE line[task[t].line] # Null
      BY <1>3, <2>2, <2>4 DEF PairNumber, Goto, Types, TasksOK, Steps
    <2> QED BY <2>3, <2>4
  <1>4. ASSUME PairNotify(t)
        PROVE  /\ Steps(t, {"pair_notify"}, {"idle"}) /\ task[t].dev \in Devices
               /\ task[t].token \in Nat /\ task[t].new \in Numbers
    <2>1. task[t] \in Notices BY <1>4, TaskKinds DEF PairNotify, Types, TasksOK
    <2>2. task[t].dev \in Devices /\ task[t].token \in Nat /\ task[t].new \in Numbers
      BY <2>1 DEF Notices
    <2> QED BY <1>4, <2>2, IdlePc DEF PairNotify, Done, Goto, Types, TasksOK, Steps
  <1> QED BY <1>1, <1>2, <1>3, <1>4

LEMMA RegisterGoes ==
  ASSUME Types, NEW t \in Tasks
  PROVE  /\ \A d \in Devices : RegisterAuth(t, d) =>
              /\ Steps(t, {"idle"}, {"register_code", "register_bound"}) /\ task'[t].dev = d
              /\ task'[t].pc = "register_bound" => TokenValid(d)
         /\ GenerateCode(t) =>
              /\ Steps(t, {"register_code"}, {"register_hub"})
              /\ task[t].dev \in Devices /\ task'[t].dev = task[t].dev
              /\ task'[t].new = "unpaired"
         /\ RegisterBound(t) =>
              /\ Steps(t, {"register_bound"}, {"idle", "register_hub"})
              /\ task[t].dev \in Devices
              /\ task'[t].pc = "register_hub" => task'[t].dev = task[t].dev
         /\ RegisterHub(t) =>
              /\ Steps(t, {"register_hub"}, {"idle"})
              /\ task[t].dev \in Devices /\ task[t].new \in Numbers \cup {"unpaired"}
  <1>1. ASSUME NEW d \in Devices, RegisterAuth(t, d)
        PROVE  /\ Steps(t, {"idle"}, {"register_code", "register_bound"}) /\ task'[t].dev = d
               /\ task'[t].pc = "register_bound" => TokenValid(d)
    BY <1>1, IdlePc DEF RegisterAuth, Goto, Types, TasksOK, Steps
  <1>2. ASSUME GenerateCode(t)
        PROVE  /\ Steps(t, {"register_code"}, {"register_hub"})
               /\ task[t].dev \in Devices /\ task'[t].dev = task[t].dev
               /\ task'[t].new = "unpaired"
    <2>1. task[t] \in Logins BY <1>2, TaskKinds DEF GenerateCode, Types, TasksOK
    <2>2. task[t].dev \in Devices BY <2>1 DEF Logins
    <2> QED BY <1>2, <2>2 DEF GenerateCode, Goto, Types, TasksOK, Steps
  <1>3. ASSUME RegisterBound(t)
        PROVE  /\ Steps(t, {"register_bound"}, {"idle", "register_hub"})
               /\ task[t].dev \in Devices
               /\ task'[t].pc = "register_hub" => task'[t].dev = task[t].dev
    <2>1. task[t] \in Logins BY <1>3, TaskKinds DEF RegisterBound, Types, TasksOK
    <2>2. task[t].dev \in Devices BY <2>1 DEF Logins
    <2> QED BY <1>3, <2>2, IdlePc DEF RegisterBound, Done, Goto, Types, TasksOK, Steps
  <1>4. ASSUME RegisterHub(t)
        PROVE  /\ Steps(t, {"register_hub"}, {"idle"})
               /\ task[t].dev \in Devices /\ task[t].new \in Numbers \cup {"unpaired"}
    <2>1. task[t] \in Entries BY <1>4, TaskKinds DEF RegisterHub, Types, TasksOK
    <2>2. task[t].dev \in Devices /\ task[t].new \in Numbers \cup {"unpaired"}
      BY <2>1 DEF Entries
    <2> QED BY <1>4, <2>2, IdlePc DEF RegisterHub, Done, Goto, Types, TasksOK, Steps
  <1> QED BY <1>1, <1>2, <1>3, <1>4

SameNumbers(t) == /\ task'[t].line = task[t].line
                  /\ task'[t].old = task[t].old /\ task'[t].new = task[t].new

LEMMA NumberGoes ==
  ASSUME Types, NEW t \in Tasks
  PROVE  /\ \A l \in Lines, n \in Numbers : NumberCheck(t, l, n) =>
              /\ Steps(t, {"idle"}, {"number_update"})
              /\ task'[t].line = l /\ task'[t].old = line[l].number
         /\ task[t].pc \in {"number_update", "number_recheck", "number_rename",
                            "number_close"} =>
              task[t].line \in Lines /\ task[t].old \in Numbers /\ task[t].new \in Numbers
         /\ NumberUpdate(t) =>
              /\ Steps(t, {"number_update"}, {"idle", "number_recheck"})
              /\ task'[t].pc = "number_recheck" => SameNumbers(t)
         /\ NumberRecheck(t) =>
              /\ Steps(t, {"number_recheck"}, {"idle", "number_rename"})
              /\ task'[t].pc = "number_rename" => SameNumbers(t)
         /\ RenameNumber(t) =>
              Steps(t, {"number_rename"}, {"number_close"}) /\ SameNumbers(t)
         /\ NumberClose(t) => Steps(t, {"number_close"}, {"idle"})
  <1>1. ASSUME NEW l \in Lines, NEW n \in Numbers, NumberCheck(t, l, n)
        PROVE  /\ Steps(t, {"idle"}, {"number_update"})
               /\ task'[t].line = l /\ task'[t].old = line[l].number
    BY <1>1, IdlePc DEF NumberCheck, Goto, Types, TasksOK, Steps
  <1>2. ASSUME task[t].pc \in {"number_update", "number_recheck", "number_rename",
                               "number_close"}
        PROVE  /\ task[t].line \in Lines /\ task[t].old \in Numbers /\ task[t].new \in Numbers
               /\ \A p \in {"number_recheck", "number_rename", "number_close"} :
                    LET r == [task[t] EXCEPT !.pc = p] IN
                      /\ r.pc = p /\ r.line = task[t].line
                      /\ r.old = task[t].old /\ r.new = task[t].new
    <2>1. task[t] \in Renumbers BY <1>2, TaskKinds DEF Types, TasksOK
    <2> QED BY <2>1 DEF Renumbers
  <1> DEFINE Onward(p) == task' = [task EXCEPT ![t] = [task[t] EXCEPT !.pc = p]]
             Ends == task' = [task EXCEPT ![t] = Idle]
  <1>3. Ends => /\ task'[t].pc = "idle"
                /\ \A u \in Tasks : u # t => task'[u] = task[u]
    BY IdlePc DEF Types, TasksOK
  <1>4. ASSUME task[t].pc \in {"number_update", "number_recheck", "number_rename",
                               "number_close"},
               NEW p \in {"number_recheck", "number_rename", "number_close"}, Onward(p)
        PROVE  /\ task'[t].pc = p /\ SameNumbers(t)
               /\ \A u \in Tasks : u # t => task'[u] = task[u]
    <2> DEFINE r == [task[t] EXCEPT !.pc = p]
    <2>1. /\ r.pc = p /\ r.line = task[t].line
          /\ r.old = task[t].old /\ r.new = task[t].new
      BY <1>2, <1>4
    <2> HIDE DEF r
    <2>2. task' = [task EXCEPT ![t] = r] BY <1>4 DEF r
    <2> QED BY <2>1, <2>2 DEF SameNumbers, Types, TasksOK
  <1>5. NumberUpdate(t) => task[t].pc = "number_update" /\ (Ends \/ Onward("number_recheck"))
    BY DEF NumberUpdate, Goto, Done
  <1>6. NumberRecheck(t) => task[t].pc = "number_recheck" /\ (Ends \/ Onward("number_rename"))
    BY DEF NumberRecheck, Goto, Done
  <1>7. RenameNumber(t) => task[t].pc = "number_rename" /\ Onward("number_close")
    BY DEF RenameNumber, Goto
  <1>8. NumberClose(t) => task[t].pc = "number_close" /\ Ends
    BY DEF NumberClose, Goto, Done
  <1> HIDE DEF Onward, Ends
  <1> QED BY <1>1, <1>2, <1>3, <1>4, <1>5, <1>6, <1>7, <1>8 DEF Steps

LEMMA DeletingGoes ==
  ASSUME Types, NEW t \in Tasks
  PROVE  /\ \A l \in Lines : DeleteCheck(t, l) => Steps(t, {"idle"}, {"delete_row"})
         /\ DeleteRow(t) => /\ Steps(t, {"delete_row"}, {"idle", "delete_close"})
                            /\ task[t].line \in Lines
         /\ DeleteClose(t) => /\ Steps(t, {"delete_close"}, {"idle"})
                              /\ task[t].old \in Numbers
  <1>1. ASSUME NEW l \in Lines, DeleteCheck(t, l) PROVE Steps(t, {"idle"}, {"delete_row"})
    BY <1>1, IdlePc DEF DeleteCheck, Goto, Types, TasksOK, Steps
  <1>2. task[t].pc \in {"delete_row", "delete_close"} =>
          task[t] \in Deletions /\ task[t].line \in Lines /\ task[t].old \in Numbers
    <2>1. task[t].pc \in {"delete_row", "delete_close"} => task[t] \in Deletions
      BY TaskKinds DEF Types, TasksOK
    <2> QED BY <2>1 DEF Deletions
  <1>3. ASSUME DeleteRow(t)
        PROVE  Steps(t, {"delete_row"}, {"idle", "delete_close"}) /\ task[t].line \in Lines
    <2>1. task[t] \in Deletions /\ task[t].line \in Lines BY <1>2, <1>3 DEF DeleteRow
    <2> DEFINE r == [task[t] EXCEPT !.pc = "delete_close"]
    <2>2. r.pc = "delete_close" BY <2>1, DeletionGoes
    <2>3. task' = [task EXCEPT ![t] = Idle] \/ task' = [task EXCEPT ![t] = r]
      BY <1>3 DEF DeleteRow, Goto, Done
    <2> HIDE DEF r
    <2>4. task[t].pc = "delete_row" BY <1>3 DEF DeleteRow
    <2> QED BY <2>1, <2>2, <2>3, <2>4, IdlePc DEF Types, TasksOK, Steps
  <1>4. ASSUME DeleteClose(t)
        PROVE  Steps(t, {"delete_close"}, {"idle"}) /\ task[t].old \in Numbers
    BY <1>2, <1>4, IdlePc DEF DeleteClose, Done, Goto, Types, TasksOK, Steps
  <1> QED BY <1>1, <1>3, <1>4

SameMove(t) == task'[t].dev = task[t].dev /\ task'[t].line = task[t].line

LEMMA MovingGoes ==
  ASSUME Types, NEW t \in Tasks
  PROVE  /\ \A d \in Devices, l \in Lines : MoveCheck(t, d, l) =>
              /\ Steps(t, {"idle"}, {"move_row"})
              /\ task'[t].dev = d /\ task'[t].line = dev[d].line
         /\ task[t].pc \in {"move_row", "move_recheck", "move_close", "move_list",
                            "move_delete"} =>
              /\ task[t].dev \in Devices /\ task[t].line \in Lines /\ task[t].to \in Lines
              /\ task[t].new \in Numbers
         /\ MoveRow(t) => /\ Steps(t, {"move_row"}, {"idle", "move_recheck"})
                          /\ task'[t].pc = "move_recheck" => SameMove(t)
         /\ MoveRecheck(t) => /\ Steps(t, {"move_recheck"}, {"idle", "move_close"})
                              /\ task'[t].pc = "move_close" => SameMove(t)
         /\ MoveClose(t) => Steps(t, {"move_close"}, {"move_list"})
         /\ MoveList(t) => Steps(t, {"move_list"}, {"idle", "move_delete"})
         /\ MoveDelete(t) => Steps(t, {"move_delete"}, {"idle"})
  <1> DEFINE pcs == {"move_row", "move_recheck", "move_close", "move_list", "move_delete"}
  <1>1. ASSUME NEW d \in Devices, NEW l \in Lines, MoveCheck(t, d, l)
        PROVE  /\ Steps(t, {"idle"}, {"move_row"})
               /\ task'[t].dev = d /\ task'[t].line = dev[d].line
    BY <1>1, IdlePc DEF MoveCheck, Goto, Types, TasksOK, Steps
  <1>2. ASSUME task[t].pc \in pcs
        PROVE  /\ task[t].dev \in Devices /\ task[t].line \in Lines /\ task[t].to \in Lines
               /\ task[t].new \in Numbers
               /\ \A p \in pcs : LET r == [task[t] EXCEPT !.pc = p] IN
                    r.pc = p /\ r.dev = task[t].dev /\ r.line = task[t].line
    <2>1. task[t] \in Moves BY <1>2, TaskKinds DEF Types, TasksOK
    <2> QED BY <2>1 DEF Moves
  <1> DEFINE Onward(p) == task' = [task EXCEPT ![t] = [task[t] EXCEPT !.pc = p]]
             Ends == task' = [task EXCEPT ![t] = Idle]
  <1>3. Ends => /\ task'[t].pc = "idle"
                /\ \A u \in Tasks : u # t => task'[u] = task[u]
    BY IdlePc DEF Types, TasksOK
  <1>4. ASSUME task[t].pc \in pcs, NEW p \in pcs, Onward(p)
        PROVE  /\ task'[t].pc = p /\ SameMove(t)
               /\ \A u \in Tasks : u # t => task'[u] = task[u]
    <2> DEFINE r == [task[t] EXCEPT !.pc = p]
    <2>1. r.pc = p /\ r.dev = task[t].dev /\ r.line = task[t].line BY <1>2, <1>4
    <2> HIDE DEF r
    <2>2. task' = [task EXCEPT ![t] = r] BY <1>4 DEF r
    <2> QED BY <2>1, <2>2 DEF SameMove, Types, TasksOK
  <1>5. MoveRow(t) => task[t].pc = "move_row" /\ (Ends \/ Onward("move_recheck"))
    BY DEF MoveRow, Goto, Done
  <1>6. MoveRecheck(t) => task[t].pc = "move_recheck" /\ (Ends \/ Onward("move_close"))
    BY DEF MoveRecheck, Goto, Done
  <1>7. MoveClose(t) => task[t].pc = "move_close" /\ Onward("move_list")
    BY DEF MoveClose, Goto
  <1>8. MoveList(t) => task[t].pc = "move_list" /\ (Ends \/ Onward("move_delete"))
    BY DEF MoveList, Goto, Done
  <1>9. MoveDelete(t) => task[t].pc = "move_delete" /\ Ends
    BY DEF MoveDelete, Goto, Done
  <1> HIDE DEF Onward, Ends
  <1> QED BY <1>1, <1>2, <1>3, <1>4, <1>5, <1>6, <1>7, <1>8, <1>9 DEF Steps

LEMMA CallingGoes ==
  ASSUME Types, NEW t \in Tasks
  PROVE  /\ \A d \in Devices, n \in Numbers :
              CallCheck(t, d, n) => Steps(t, {"idle"}, {"call_enter"})
         /\ CallEnter(t) => Steps(t, {"call_enter"}, {"idle"})
  <1>1. ASSUME NEW d \in Devices, NEW n \in Numbers, CallCheck(t, d, n)
        PROVE  Steps(t, {"idle"}, {"call_enter"})
    BY <1>1, IdlePc DEF CallCheck, Goto, Types, TasksOK, Steps
  <1>2. CallEnter(t) => Steps(t, {"call_enter"}, {"idle"})
    BY IdlePc DEF CallEnter, Done, Goto, Types, TasksOK, Steps
  <1> QED BY <1>1, <1>2

(* The first statement of a request.                                       *)
Begins(t) ==
  \/ \E d \in Devices, l \in Lines, home \in Homes :
       \/ \E n \in Numbers : ClaimDevice(t, d, l, n, home)
       \/ ClaimDeviceToLine(t, d, l, home)
  \/ \E d \in Devices, l \in Lines : MoveCheck(t, d, l)
  \/ \E l \in Lines, n \in Numbers : NumberCheck(t, l, n)
  \/ \E l \in Lines : DeleteCheck(t, l)
  \/ \E d \in Devices, n \in Numbers : CallCheck(t, d, n)
  \/ \E d \in Devices : RegisterAuth(t, d)

LEMMA BeginsQuietly ==
  ASSUME Types, NEW t \in Tasks, Begins(t)
  PROVE  /\ UNCHANGED <<conn, outbox, cfg, active, rows, lost, overlapped, slipped>>
         /\ Steps(t, {"idle"}, {"pair_notify", "pair_number", "move_row", "delete_row",
                                "register_code", "register_bound", "number_update",
                                "call_enter"})
  <1> DEFINE Goal ==
        /\ UNCHANGED <<conn, outbox, cfg, active, rows, lost, overlapped, slipped>>
        /\ Steps(t, {"idle"}, {"pair_notify", "pair_number", "move_row", "delete_row",
                               "register_code", "register_bound", "number_update",
                               "call_enter"})
  <1>1. ASSUME NEW d \in Devices, NEW l \in Lines, NEW home \in Homes,
               \/ \E n \in Numbers : ClaimDevice(t, d, l, n, home)
               \/ ClaimDeviceToLine(t, d, l, home)
        PROVE  Goal
    BY <1>1, PairGoes DEF ClaimDevice, ClaimDeviceToLine, history, Steps
  <1>2. ASSUME NEW d \in Devices, NEW l \in Lines, MoveCheck(t, d, l) PROVE Goal
    BY <1>2, MovingGoes DEF MoveCheck, history, Steps
  <1>3. ASSUME NEW l \in Lines, NEW n \in Numbers, NumberCheck(t, l, n) PROVE Goal
    BY <1>3, NumberGoes DEF NumberCheck, history, Steps
  <1>4. ASSUME NEW l \in Lines, DeleteCheck(t, l) PROVE Goal
    BY <1>4, DeletingGoes DEF DeleteCheck, history, Steps
  <1>5. ASSUME NEW d \in Devices, NEW n \in Numbers, CallCheck(t, d, n) PROVE Goal
    BY <1>5, CallingGoes DEF CallCheck, history, Steps
  <1>6. ASSUME NEW d \in Devices, RegisterAuth(t, d) PROVE Goal
    BY <1>6, RegisterGoes DEF RegisterAuth, history, Steps
  <1> HIDE DEF Goal
  <1>7. Goal BY <1>1, <1>2, <1>3, <1>4, <1>5, <1>6 DEF Begins
  <1> QED BY <1>7 DEF Goal

-----------------------------------------------------------------------------
(* The rows of the call history follow the calls.                          *)

LEMMA RowsQuiet ==
  ASSUME RowsTraced, UNCHANGED <<rows, active, slipped>>,
         \A u \in Tasks : task'[u].pc = "number_rename" => task'[u] = task[u]
  PROVE  RowsTraced'
  BY DEF RowsTraced, Busy

LEMMA RowsRecheck ==
  ASSUME Types, RowsTraced, NEW t \in Tasks, NumberRecheck(t)
  PROVE  RowsTraced'
  <1>1. /\ Steps(t, {"number_recheck"}, {"idle", "number_rename"})
        /\ task'[t].pc = "number_rename" => SameNumbers(t)
    BY NumberGoes
  <1>2. /\ UNCHANGED <<rows, active>> /\ (slipped => slipped')
        /\ slipped' \/ task'[t].pc = "idle" \/ ~Busy(task[t].old)
    <2>1. UNCHANGED <<rows, active>> BY DEF NumberRecheck
    <2>2. CASE ~Busy(task[t].old) BY <2>1, <2>2 DEF NumberRecheck
    <2>3. CASE Done(t) /\ UNCHANGED slipped
      <3>1. task'[t].pc = "idle" BY <2>3, IdlePc DEF Done, Goto, Types, TasksOK
      <3> QED BY <2>1, <2>3, <3>1
    <2>4. CASE slipped' = TRUE BY <2>1, <2>4
    <2> QED BY <2>2, <2>3, <2>4 DEF NumberRecheck
  <1> QED BY <1>1, <1>2 DEF RowsTraced, Busy, Steps, SameNumbers

LEMMA RowsRename ==
  ASSUME Types, RowsTraced, NEW t \in Tasks, RenameNumber(t)
  PROVE  RowsTraced'
  <1>1. Steps(t, {"number_rename"}, {"number_close"}) BY NumberGoes
  <1>2. UNCHANGED <<active, slipped>> BY DEF RenameNumber, history
  <1>3. CASE slipped BY <1>2, <1>3 DEF RowsTraced
  <1>4. CASE ~slipped
    <2>1. rows \subseteq active /\ ~Busy(task[t].old) BY <1>1, <1>4 DEF RowsTraced, Steps
    <2>2. \A c \in rows : c = <<c[1], c[2]>> /\ c[1] # task[t].old /\ c[2] # task[t].old
      BY <2>1, TypeOKIs DEF Busy, Types
    <2>3. rows' \subseteq rows BY <2>2 DEF RenameNumber
    <2> QED BY <1>1, <1>2, <2>1, <2>3 DEF RowsTraced, Busy, Steps
  <1> QED BY <1>3, <1>4

LEMMA RowsCalls ==
  ASSUME Types, RowsTraced,
         (\E t \in Tasks : CallEnter(t)) \/ \E c \in active : CallEnds(c)
  PROVE  RowsTraced'
  <1>1. ASSUME NEW t \in Tasks, CallEnter(t) PROVE RowsTraced'
    <2>1. Steps(t, {"call_enter"}, {"idle"}) BY <1>1, CallingGoes
    <2> DEFINE c == <<task[t].old, task[t].new>>
    <2>2. active' = active \cup {c} /\ rows' = rows \cup {c} BY <1>1 DEF CallEnter
    <2>3. slipped' \/ (~slipped /\ \A u \in Tasks : task[u].pc = "number_rename"
                                     => task[u].old # c[1] /\ task[u].old # c[2])
      BY <1>1, TypeOKIs DEF CallEnter, Types
    <2> HIDE DEF c
    <2> QED BY <2>1, <2>2, <2>3 DEF RowsTraced, Busy, Steps
  <1>2. ASSUME NEW c \in active, CallEnds(c) PROVE RowsTraced'
    <2>1. task' = task /\ UNCHANGED slipped BY <1>2 DEF CallEnds, history
    <2> QED BY <1>2, <2>1 DEF RowsTraced, Busy, CallEnds
  <1> QED BY <1>1, <1>2

LEMMA RowsStep ==
  ASSUME Types, RowsTraced, LinesNext
  PROVE  RowsTraced'
  <1>1. ASSUME UNCHANGED <<rows, active, slipped>>, NEW t \in Tasks,
               NEW from, NEW to, Steps(t, from, to), "number_rename" \notin to
        PROVE  RowsTraced'
    <2>1. \A u \in Tasks : task'[u].pc = "number_rename" => task'[u] = task[u]
      BY <1>1 DEF Steps
    <2> QED BY <1>1, <2>1, RowsQuiet
  <1>2. ASSUME NEW t \in Tasks, Begins(t) PROVE RowsTraced'
    <2>1. UNCHANGED <<rows, active, slipped>> BY <1>2, BeginsQuietly
    <2>2. Steps(t, {"idle"}, {"pair_notify", "pair_number", "move_row", "delete_row",
                              "register_code", "register_bound", "number_update", "call_enter"})
      BY <1>2, BeginsQuietly
    <2> QED BY <1>1, <2>1, <2>2
  <1>3. ASSUME NEW t \in Tasks,
               \/ PairNumber(t) \/ PairNotify(t)
               \/ GenerateCode(t) \/ RegisterBound(t) \/ RegisterHub(t)
               \/ NumberUpdate(t) \/ NumberClose(t) \/ DeleteRow(t) \/ DeleteClose(t)
               \/ MoveRow(t) \/ MoveRecheck(t) \/ MoveClose(t) \/ MoveList(t)
               \/ MoveDelete(t)
        PROVE  RowsTraced'
    <2>1. UNCHANGED <<rows, active, slipped>>
      BY <1>3 DEF PairNumber, PairNotify, GenerateCode, RegisterBound, RegisterHub,
                  NumberUpdate, NumberClose, DeleteRow, DeleteClose, MoveRow,
                  MoveRecheck, MoveClose, MoveList, MoveDelete, history
    <2>2. \/ Steps(t, {"pair_number"}, {"idle", "pair_notify"})
          \/ Steps(t, {"pair_notify"}, {"idle"})
          \/ Steps(t, {"register_code"}, {"register_hub"})
          \/ Steps(t, {"register_bound"}, {"idle", "register_hub"})
          \/ Steps(t, {"register_hub"}, {"idle"})
          \/ Steps(t, {"number_update"}, {"idle", "number_recheck"})
          \/ Steps(t, {"number_close"}, {"idle"})
          \/ Steps(t, {"delete_row"}, {"idle", "delete_close"})
          \/ Steps(t, {"delete_close"}, {"idle"})
          \/ Steps(t, {"move_row"}, {"idle", "move_recheck"})
          \/ Steps(t, {"move_recheck"}, {"idle", "move_close"})
          \/ Steps(t, {"move_close"}, {"move_list"})
          \/ Steps(t, {"move_list"}, {"idle", "move_delete"})
          \/ Steps(t, {"move_delete"}, {"idle"})
      BY <1>3, PairGoes, MovingGoes, DeletingGoes, RegisterGoes, NumberGoes
    <2> QED BY <1>1, <2>1, <2>2
  <1>4. ASSUME \/ \E d \in Devices : \/ Deliver(d) \/ Drop(d) \/ Repair(d)
                                     \/ CodeExpires(d)
               \/ CleanupExpired
        PROVE  RowsTraced'
    <2>1. UNCHANGED <<rows, active, slipped, task>>
      BY <1>4 DEF Deliver, Drop, Repair, CodeExpires, CleanupExpired, history
    <2> QED BY <2>1, RowsQuiet
  <1> QED BY <1>2, <1>3, <1>4, RowsRecheck, RowsRename, RowsCalls DEF LinesNext, Begins

-----------------------------------------------------------------------------
(* A handset registers once at a time.                                     *)

Registering == {"register_code", "register_bound", "register_hub"}

LEMMA OneQuiet ==
  ASSUME OneRegistration,
         \A d \in Devices : conn[d] = Null => conn'[d] = Null,
         \A d \in Devices : conn'[d] = Null => outbox'[d] = <<>>,
         \A u \in Tasks, d \in Devices : Registers(u, d)' => Registers(u, d)
  PROVE  OneRegistration'
  BY DEF OneRegistration

(* A step of a request that has nothing to do with registration.           *)
LEMMA OtherStep ==
  ASSUME NEW t \in Tasks, NEW from, NEW to, Steps(t, from, to), to \cap Registering = {}
  PROVE  \A u \in Tasks, d \in Devices : Registers(u, d)' => Registers(u, d)
  BY DEF Steps, Registers, Registering

LEMMA ClosedConns ==
  ASSUME outbox \in Outboxes, OneRegistration, UNCHANGED conn,
         NEW D, \A d \in D \cap Devices : conn[d] # Null,
         NEW f, CloseConnsOf(D, f)
  PROVE  \A d \in Devices : conn'[d] = Null => outbox'[d] = <<>>
  BY DEF CloseConnsOf, OneRegistration

LEMMA OneStep ==
  ASSUME ConstantsOK, Types, OneRegistration, LinesNext
  PROVE  OneRegistration'
  <1> DEFINE Kept == \A d \in Devices : conn[d] = Null => conn'[d] = Null
             Empty == \A d \in Devices : conn'[d] = Null => outbox'[d] = <<>>
  <1>1. UNCHANGED <<conn, outbox>> => Kept /\ Empty BY DEF OneRegistration
  <1>2. ASSUME Kept, Empty, NEW t \in Tasks, NEW from, NEW to, Steps(t, from, to),
               to \cap Registering = {}
        PROVE  OneRegistration'
    BY <1>2, OneQuiet, OtherStep
  <1>3. ASSUME Kept, Empty, UNCHANGED task PROVE OneRegistration'
    BY <1>3, OneQuiet DEF Registers
  <1>4. ASSUME NEW t \in Tasks, Begins(t), ~ \E d \in Devices : RegisterAuth(t, d)
        PROVE  OneRegistration'
    <2>1. UNCHANGED <<conn, outbox>> BY <1>4, BeginsQuietly
    <2>2. Steps(t, {"idle"}, {"pair_notify", "pair_number", "move_row", "delete_row",
                              "number_update", "call_enter"})
      <3>1. ASSUME NEW d \in Devices, NEW l \in Lines, NEW home \in Homes,
                   \/ \E n \in Numbers : ClaimDevice(t, d, l, n, home)
                   \/ ClaimDeviceToLine(t, d, l, home)
            PROVE  Steps(t, {"idle"}, {"pair_notify", "pair_number"})
        BY <3>1, PairGoes DEF Steps
      <3> QED BY <1>4, <3>1, MovingGoes, NumberGoes, DeletingGoes, CallingGoes
              DEF Begins, Steps
    <2> QED BY <1>1, <1>2, <2>1, <2>2 DEF Registering
  <1>5. ASSUME NEW t \in Tasks, NEW d \in Devices, RegisterAuth(t, d)
        PROVE  OneRegistration'
    <2>1. UNCHANGED <<conn, outbox>> BY <1>5 DEF RegisterAuth
    <2>2. /\ Steps(t, {"idle"}, {"register_code", "register_bound"}) /\ task'[t].dev = d
      BY <1>5, RegisterGoes
    <2>3. conn[d] = Null /\ \A u \in Tasks : ~Registers(u, d)
      BY <1>5 DEF RegisterAuth, Registers
    <2>4. \A u \in Tasks, e \in Devices :
            Registers(u, e)' <=> (u = t /\ e = d) \/ Registers(u, e)
      BY <2>2 DEF Steps, Registers
    <2> QED BY <2>1, <2>3, <2>4 DEF OneRegistration
  <1>6. ASSUME NEW t \in Tasks, GenerateCode(t) \/ RegisterBound(t)
        PROVE  OneRegistration'
    <2>1. UNCHANGED <<conn, outbox>>
      BY <1>6 DEF GenerateCode, RegisterBound
    <2>2. /\ Steps(t, {"register_code", "register_bound"}, {"idle", "register_hub"})
          /\ task'[t].pc = "register_hub" => task'[t].dev = task[t].dev
      BY <1>6, RegisterGoes DEF Steps
    <2>3. \A u \in Tasks, e \in Devices : Registers(u, e)' => Registers(u, e)
      BY <2>2 DEF Steps, Registers
    <2> QED BY <1>1, <2>1, <2>3, OneQuiet
  <1>7. ASSUME NEW t \in Tasks, RegisterHub(t) PROVE OneRegistration'
    <2>1. Steps(t, {"register_hub"}, {"idle"}) /\ task[t].dev \in Devices
          /\ task[t].new \in Numbers \cup {"unpaired"}
      BY <1>7, RegisterGoes
    <2> PICK d \in Devices : d = task[t].dev BY <2>1
    <2>2. Registers(t, d) BY <2>1 DEF Registers, Steps
    <2>3. \A u \in Tasks : ~Registers(u, d)' BY <2>1, <2>2 DEF OneRegistration, Registers, Steps
    <2>4. conn'[d] # Null
      BY <1>7, <2>1, TypeOKIs DEF RegisterHub, ConstantsOK, Connections, Types
    <2>5. \A e \in Devices : e # d => conn'[e] = conn[e] /\ outbox'[e] = outbox[e]
      BY <1>7, TypeOKIs DEF RegisterHub, Connections, Outboxes, Types
    <2>6. \A u \in Tasks, e \in Devices : Registers(u, e)' => Registers(u, e)
      BY <2>1 DEF Registers, Steps
    <2> QED BY <2>3, <2>4, <2>5, <2>6 DEF OneRegistration
  <1>8. ASSUME NEW t \in Tasks, PairNotify(t) PROVE OneRegistration'
    <2>1. UNCHANGED conn /\ Steps(t, {"pair_notify"}, {"idle"}) /\ task[t].dev \in Devices
      BY <1>8, PairGoes DEF PairNotify
    <2>2. \/ outbox' = outbox
          \/ conn[task[t].dev] # Null
             /\ \A e \in Devices : e # task[t].dev => outbox'[e] = outbox[e]
      BY <1>8, TypeOKIs DEF PairNotify, Outboxes, Types
    <2>3. Kept /\ Empty BY <2>1, <2>2 DEF OneRegistration
    <2> QED BY <1>2, <2>1, <2>3 DEF Registering
  <1>9. ASSUME NEW t \in Tasks, NumberClose(t) \/ DeleteClose(t) \/ MoveClose(t)
        PROVE  OneRegistration'
    <2>1. UNCHANGED conn BY <1>9 DEF NumberClose, DeleteClose, MoveClose
    <2>2. Steps(t, {"number_close", "delete_close", "move_close"}, {"idle", "move_list"})
      BY <1>9, NumberGoes, DeletingGoes, MovingGoes DEF Steps
    <2>3. Null \notin Numbers BY DEF ConstantsOK
    <2>4. Empty
      <3>1. ASSUME NumberClose(t) PROVE Empty
        <4> DEFINE D == {d \in Devices : conn[d] = task[t].old}
        <4>1. task[t].old \in Numbers BY <3>1, NumberGoes DEF NumberClose
        <4>2. \A d \in D \cap Devices : conn[d] # Null BY <4>1, <2>3
        <4>3. \E f : CloseConnsOf(D, f) BY <3>1 DEF NumberClose
        <4> HIDE DEF D
        <4> QED BY <4>2, <4>3, <2>1, ClosedConns, TypeOKIs DEF Types
      <3>2. ASSUME DeleteClose(t) PROVE Empty
        <4> DEFINE D == {d \in Devices : conn[d] = task[t].old}
        <4>1. task[t].old \in Numbers BY <3>2, DeletingGoes
        <4>2. \A d \in D \cap Devices : conn[d] # Null BY <4>1, <2>3
        <4>3. \E f : CloseConnsOf(D, f) BY <3>2 DEF DeleteClose
        <4> HIDE DEF D
        <4> QED BY <4>2, <4>3, <2>1, ClosedConns, TypeOKIs DEF Types
      <3>3. ASSUME MoveClose(t) PROVE Empty
        <4> DEFINE D == {d \in {task[t].dev} : conn[d] # Null}
        <4>1. \A d \in D \cap Devices : conn[d] # Null OBVIOUS
        <4>2. \E f : CloseConnsOf(D, f) BY <3>3 DEF MoveClose
        <4> HIDE DEF D
        <4> QED BY <4>1, <4>2, <2>1, ClosedConns, TypeOKIs DEF Types
      <3> QED BY <1>9, <3>1, <3>2, <3>3
    <2>5. Kept BY <2>1
    <2> QED BY <1>2, <2>2, <2>4, <2>5 DEF Registering
  <1>10. ASSUME NEW t \in Tasks,
                \/ PairNumber(t) \/ NumberUpdate(t) \/ NumberRecheck(t)
                \/ RenameNumber(t) \/ DeleteRow(t) \/ MoveRow(t) \/ MoveRecheck(t)
                \/ MoveList(t) \/ MoveDelete(t) \/ CallEnter(t)
         PROVE  OneRegistration'
    <2>1. UNCHANGED <<conn, outbox>>
      BY <1>10 DEF PairNumber, NumberUpdate, NumberRecheck, RenameNumber, DeleteRow,
                   MoveRow, MoveRecheck, MoveList, MoveDelete, CallEnter
    <2>2. Steps(t, {"pair_number", "number_update", "number_recheck", "number_rename",
                    "delete_row", "move_row", "move_recheck", "move_list", "move_delete",
                    "call_enter"},
                   {"idle", "pair_notify", "number_recheck", "number_rename", "number_close",
                    "delete_close", "move_recheck", "move_close", "move_delete"})
      BY <1>10, PairGoes, NumberGoes, DeletingGoes, MovingGoes, CallingGoes DEF Steps
    <2> QED BY <1>1, <1>2, <2>1, <2>2 DEF Registering
  <1>11. ASSUME NEW d \in Devices, Deliver(d) \/ Drop(d) \/ Repair(d)
         PROVE  OneRegistration'
    <2>1. task' = task BY <1>11 DEF Deliver, Drop, Repair
    <2>2. \/ Disconnect(d)
          \/ /\ conn' = conn /\ conn[d] # Null
             /\ outbox' = [outbox EXCEPT ![d] = Tail(outbox[d])]
      BY <1>11 DEF Deliver, Drop, Repair
    <2>3. CASE Disconnect(d)
      BY <1>3, <2>1, <2>3, DisconnectKept, TypeOKIs DEF Types, OneRegistration
    <2>4. CASE /\ conn' = conn /\ conn[d] # Null
               /\ outbox' = [outbox EXCEPT ![d] = Tail(outbox[d])]
      <3>1. \A e \in Devices : e # d => outbox'[e] = outbox[e]
        BY <2>4, TypeOKIs DEF Outboxes, Types
      <3> QED BY <1>3, <2>1, <2>4, <3>1 DEF OneRegistration
    <2> QED BY <2>2, <2>3, <2>4
  <1>12. ASSUME \/ \E d \in Devices : CodeExpires(d)
                \/ CleanupExpired
                \/ \E c \in active : CallEnds(c)
         PROVE  OneRegistration'
    <2>1. UNCHANGED <<conn, outbox, task>>
      BY <1>12 DEF CodeExpires, CleanupExpired, CallEnds
    <2> QED BY <1>1, <1>3, <2>1
  <1> HIDE DEF Kept, Empty
  <1> QED BY <1>4, <1>5, <1>6, <1>7, <1>8, <1>9, <1>10, <1>11, <1>12 DEF LinesNext, Begins

-----------------------------------------------------------------------------
(* What each statement does to the rows of devices.                        *)

(* A row keeps its state of pairing, or goes.                              *)
SameRow(d) == /\ dev[d] # Null => /\ dev'[d].paired = dev[d].paired
                                  /\ dev'[d].token = dev[d].token
                                  /\ dev'[d].line = dev[d].line
              /\ dev'[d] # Null => dev[d] # Null

LEMMA CodeRows ==
  ASSUME Types, CleanupExpired \/ \E d \in Devices : CodeExpires(d)
  PROVE  \A d \in Devices : SameRow(d) /\ (Claimable(d)' => Claimable(d))
  <1> USE TypeOKIs DEF Types
  <1>1. CASE CleanupExpired
    BY <1>1 DEF CleanupExpired, DeviceRows, SameRow, Claimable
  <1>2. ASSUME NEW d \in Devices, CodeExpires(d)
        PROVE  \A e \in Devices : SameRow(e) /\ (Claimable(e)' => Claimable(e))
    <2> DEFINE Row == [line : Lines \cup {Null}, paired : BOOLEAN, token : Nat,
                       code : {"none", "fresh", "expired"}]
               r == [dev[d] EXCEPT !.code = "expired"]
    <2>1. dev[d] \in Row /\ dev[d] # Null BY <1>2 DEF CodeExpires, DeviceRows
    <2>2. /\ r.code = "expired" /\ r.paired = dev[d].paired /\ r.token = dev[d].token
          /\ r.line = dev[d].line
      BY <2>1
    <2>3. dev' = [dev EXCEPT ![d] = r] BY <1>2 DEF CodeExpires
    <2> HIDE DEF r
    <2> QED BY <2>1, <2>2, <2>3 DEF DeviceRows, SameRow, Claimable
  <1> QED BY <1>1, <1>2

LEMMA GenerateRow ==
  ASSUME Types, NEW t \in Tasks, NEW d \in Devices, task[t].dev = d, GenerateCode(t)
  PROVE  /\ \A e \in Devices : e # d => dev'[e] = dev[e]
         /\ dev[d] # Null => SameRow(d)
         /\ dev[d] = Null => dev'[d].line = Null /\ ~dev'[d].paired
         /\ Paired(d) => dev' = dev
  <1> USE TypeOKIs DEF Types
  <1> DEFINE Row == [line : Lines \cup {Null}, paired : BOOLEAN, token : Nat,
                     code : {"none", "fresh", "expired"}]
             r == [line |-> Null, paired |-> FALSE, token |-> NoToken, code |-> "fresh"]
             s == [dev[d] EXCEPT !.code = "fresh"]
  <1>1. r.line = Null /\ ~r.paired OBVIOUS
  <1>2. dev[d] # Null => dev[d] \in Row BY DEF DeviceRows
  <1>3. dev[d] # Null => /\ s.paired = dev[d].paired /\ s.token = dev[d].token
                         /\ s.line = dev[d].line
    BY <1>2
  <1>4. \/ dev' = dev /\ Paired(d)
        \/ dev[d] = Null /\ dev' = [dev EXCEPT ![d] = r]
        \/ ~Paired(d) /\ dev[d] # Null /\ dev' = [dev EXCEPT ![d] = s]
    BY DEF GenerateCode, Paired
  <1> HIDE DEF r, s
  <1> QED BY <1>1, <1>3, <1>4 DEF DeviceRows, SameRow, Paired

LEMMA RepairRow ==
  ASSUME Types, NEW d \in Devices, Repair(d)
  PROVE  /\ \A e \in Devices : e # d => dev'[e] = dev[e]
         /\ dev' = dev \/ (conn[d] # Null /\ dev[d] # Null /\ ~dev'[d].paired
                            /\ dev'[d].line = dev[d].line)
         /\ conn[d] # Null \/ dev' = dev
         /\ Paired(d)' => d \in lost' /\ dev' = dev
  <1> USE TypeOKIs DEF Types
  <1> DEFINE Row == [line : Lines \cup {Null}, paired : BOOLEAN, token : Nat,
                     code : {"none", "fresh", "expired"}]
             r == [dev[d] EXCEPT !.paired = FALSE, !.token = NoToken]
  <1>1. dev[d] # Null => dev[d] \in Row BY DEF DeviceRows
  <1>2. dev[d] # Null => ~r.paired /\ r.line = dev[d].line BY <1>1
  <1>3. \/ dev' = dev /\ d \in lost'
        \/ dev' = dev /\ conn[d] # Null /\ dev[d] = Null
        \/ conn[d] # Null /\ dev[d] # Null /\ dev' = [dev EXCEPT ![d] = r]
    BY DEF Repair
  <1> HIDE DEF r
  <1> QED BY <1>2, <1>3 DEF DeviceRows, Paired

-----------------------------------------------------------------------------
(* A handset whose code can be claimed answers no number.                  *)

LEMMA SilentQuiet ==
  ASSUME ClaimableIsSilent,
         \A d \in Devices : Claimable(d)' => Claimable(d),
         \A d \in Devices : conn'[d] = conn[d] \/ conn'[d] \notin Numbers,
         \A u \in Tasks, d \in Devices : Registers(u, d)' => task'[u] = task[u]
  PROVE  ClaimableIsSilent'
  <1> SUFFICES ASSUME NEW d \in Devices, Claimable(d)'
               PROVE  /\ conn'[d] \notin Numbers
                      /\ \A t \in Tasks : Registers(t, d)' =>
                           /\ task'[t].pc # "register_bound"
                           /\ task'[t].pc = "register_hub" => task'[t].new = "unpaired"
    BY DEF ClaimableIsSilent
  <1> QED BY DEF ClaimableIsSilent, Registers

LEMMA OtherTask ==
  ASSUME NEW t \in Tasks, NEW from, NEW to, Steps(t, from, to), to \cap Registering = {}
  PROVE  \A u \in Tasks, d \in Devices : Registers(u, d)' => task'[u] = task[u]
  BY DEF Steps, Registers, Registering

LEMMA SilentStep ==
  ASSUME ConstantsOK, Types, OneRegistration, ClaimableIsSilent, LinesNext
  PROVE  ClaimableIsSilent'
  <1> USE TypeOKIs DEF Types
  <1> DEFINE NoneNew == \A d \in Devices : Claimable(d)' => Claimable(d)
  <1>1. UNCHANGED dev => NoneNew BY DEF Claimable
  <1>2. ASSUME NoneNew, UNCHANGED conn, NEW t \in Tasks, NEW from, NEW to,
               Steps(t, from, to), to \cap Registering = {}
        PROVE  ClaimableIsSilent'
    BY <1>2, SilentQuiet, OtherTask
  <1>3. ASSUME NEW t \in Tasks, NEW d \in Devices, NEW l \in Lines, NEW home \in Homes,
               \/ \E n \in Numbers : ClaimDevice(t, d, l, n, home)
               \/ ClaimDeviceToLine(t, d, l, home)
        PROVE  ClaimableIsSilent'
    <2>1. Bind(d, l) /\ UNCHANGED conn
      BY <1>3 DEF ClaimDevice, ClaimDeviceToLine
    <2>2. Steps(t, {"idle"}, {"pair_notify", "pair_number"}) BY <1>3, PairGoes DEF Steps
    <2>3. NoneNew BY <2>1, BindKept DEF Claimable
    <2> QED BY <1>2, <2>1, <2>2, <2>3 DEF Registering
  <1>4. ASSUME NEW t \in Tasks, Begins(t),
               \/ \E d \in Devices, l \in Lines : MoveCheck(t, d, l)
               \/ \E l \in Lines, n \in Numbers : NumberCheck(t, l, n)
               \/ \E l \in Lines : DeleteCheck(t, l)
               \/ \E d \in Devices, n \in Numbers : CallCheck(t, d, n)
        PROVE  ClaimableIsSilent'
    <2>1. UNCHANGED <<conn, dev>>
      BY <1>4 DEF MoveCheck, NumberCheck, DeleteCheck, CallCheck
    <2>2. Steps(t, {"idle"}, {"move_row", "delete_row", "number_update", "call_enter"})
      BY <1>4, MovingGoes, NumberGoes, DeletingGoes, CallingGoes DEF Steps
    <2> QED BY <1>1, <1>2, <2>1, <2>2 DEF Registering
  <1>5. ASSUME NEW t \in Tasks, NEW d \in Devices, RegisterAuth(t, d)
        PROVE  ClaimableIsSilent'
    <2>1. UNCHANGED <<conn, dev>> BY <1>5 DEF RegisterAuth
    <2>2. /\ Steps(t, {"idle"}, {"register_code", "register_bound"}) /\ task'[t].dev = d
          /\ task'[t].pc = "register_bound" => TokenValid(d)
      BY <1>5, RegisterGoes
    <2>3. TokenValid(d) => ~Claimable(d) BY DEF TokenValid, Paired, Claimable
    <2>4. \A e \in Devices : Claimable(e)' <=> Claimable(e) BY <2>1 DEF Claimable
    <2> QED BY <2>1, <2>2, <2>3, <2>4 DEF ClaimableIsSilent, Registers, Steps
  <1>6. ASSUME NEW t \in Tasks, GenerateCode(t) PROVE ClaimableIsSilent'
    <2>1. /\ Steps(t, {"register_code"}, {"register_hub"})
          /\ task[t].dev \in Devices /\ task'[t].dev = task[t].dev
          /\ task'[t].new = "unpaired"
      BY <1>6, RegisterGoes
    <2> PICK d \in Devices : d = task[t].dev BY <2>1
    <2>2. UNCHANGED conn BY <1>6 DEF GenerateCode
    <2>3. conn[d] = Null /\ \A u \in Tasks : Registers(u, d) => u = t
      BY <2>1 DEF OneRegistration, Registers, Steps
    <2>4. \A e \in Devices : e # d => (Claimable(e)' <=> Claimable(e))
      BY <1>6, GenerateRow DEF Claimable
    <2>5. Null \notin Numbers BY DEF ConstantsOK
    <2>6. \A u \in Tasks, e \in Devices : Registers(u, e)' <=> Registers(u, e)
      BY <2>1 DEF Registers, Steps
    <2> QED BY <2>1, <2>2, <2>3, <2>4, <2>5, <2>6 DEF ClaimableIsSilent, Registers, Steps
  <1>7. ASSUME NEW t \in Tasks, RegisterBound(t) PROVE ClaimableIsSilent'
    <2>1. /\ Steps(t, {"register_bound"}, {"idle", "register_hub"})
          /\ task[t].dev \in Devices
          /\ task'[t].pc = "register_hub" => task'[t].dev = task[t].dev
      BY <1>7, RegisterGoes
    <2> PICK d \in Devices : d = task[t].dev BY <2>1
    <2>2. UNCHANGED <<conn, dev>> BY <1>7 DEF RegisterBound
    <2>3. ~Claimable(d) BY <2>1 DEF ClaimableIsSilent, Registers, Steps
    <2>4. \A e \in Devices : Claimable(e)' <=> Claimable(e) BY <2>2 DEF Claimable
    <2>5. \A u \in Tasks, e \in Devices :
            Registers(u, e)' => (u = t /\ e = d) \/ (task'[u] = task[u] /\ Registers(u, e))
      BY <2>1 DEF Registers, Steps
    <2> QED BY <2>2, <2>3, <2>4, <2>5 DEF ClaimableIsSilent
  <1>8. ASSUME NEW t \in Tasks, RegisterHub(t) PROVE ClaimableIsSilent'
    <2>1. /\ Steps(t, {"register_hub"}, {"idle"})
          /\ task[t].dev \in Devices /\ task[t].new \in Numbers \cup {"unpaired"}
      BY <1>8, RegisterGoes
    <2> PICK d \in Devices : d = task[t].dev BY <2>1
    <2>2. UNCHANGED dev /\ conn' = [conn EXCEPT ![d] = task[t].new]
      BY <1>8 DEF RegisterHub
    <2>3. Claimable(d) => task[t].new = "unpaired"
      BY <2>1 DEF ClaimableIsSilent, Registers, Steps
    <2>4. "unpaired" \notin Numbers BY DEF ConstantsOK
    <2>5. \A e \in Devices : Claimable(e)' <=> Claimable(e) BY <2>2 DEF Claimable
    <2>6. \A u \in Tasks, e \in Devices :
            Registers(u, e)' => task'[u] = task[u] /\ Registers(u, e)
      BY <2>1 DEF Registers, Steps
    <2>7. conn'[d] = task[t].new /\ \A e \in Devices : e # d => conn'[e] = conn[e]
      BY <2>2 DEF Connections
    <2> QED BY <2>3, <2>4, <2>5, <2>6, <2>7 DEF ClaimableIsSilent
  <1>9. ASSUME NEW t \in Tasks,
               \/ PairNumber(t) \/ PairNotify(t) \/ NumberUpdate(t)
               \/ NumberRecheck(t) \/ RenameNumber(t) \/ NumberClose(t)
               \/ DeleteClose(t) \/ MoveClose(t) \/ MoveList(t) \/ CallEnter(t)
        PROVE  ClaimableIsSilent'
    <2>1. UNCHANGED <<conn, dev>>
      BY <1>9 DEF PairNumber, PairNotify, NumberUpdate, NumberRecheck, RenameNumber,
                  NumberClose, DeleteClose, MoveClose, MoveList, CallEnter
    <2>2. Steps(t, {"pair_number", "pair_notify", "number_update", "number_recheck",
                    "number_rename", "number_close", "delete_close", "move_close", "move_list",
                    "call_enter"},
                   {"idle", "pair_notify", "number_recheck", "number_rename", "number_close",
                    "move_list", "move_delete"})
      BY <1>9, PairGoes, NumberGoes, DeletingGoes, MovingGoes, CallingGoes DEF Steps
    <2> QED BY <1>1, <1>2, <2>1, <2>2 DEF Registering
  <1>10. ASSUME NEW t \in Tasks,
                DeleteRow(t) \/ MoveRow(t) \/ MoveRecheck(t) \/ MoveDelete(t)
         PROVE  ClaimableIsSilent'
    <2>1. UNCHANGED conn
      BY <1>10 DEF DeleteRow, MoveRow, MoveRecheck, MoveDelete
    <2>2. Steps(t, {"delete_row", "move_row", "move_recheck", "move_delete"},
                   {"idle", "delete_close", "move_recheck", "move_close"})
      BY <1>10, DeletingGoes, MovingGoes DEF Steps
    <2>3. NoneNew
      <3>1. CASE \E l \in Lines : DeleteLine(l)
        BY <3>1, DeleteKept DEF Claimable
      <3>2. CASE \E d \in Devices, l \in Lines : dev[d] # Null /\ Reassign(d, l)
        BY <3>2, ReassignKept DEF Claimable
      <3>3. \/ UNCHANGED dev \/ DeleteLine(task[t].line)
            \/ /\ dev[task[t].dev] # Null
               /\ Reassign(task[t].dev, task[t].to) \/ Reassign(task[t].dev, task[t].line)
        BY <1>10 DEF DeleteRow, MoveRow, MoveRecheck, MoveDelete, CanReassign
      <3>4. \/ DeleteRow(t) /\ task[t].line \in Lines
            \/ task[t].dev \in Devices /\ task[t].line \in Lines /\ task[t].to \in Lines
        BY <1>10, DeletingGoes, MovingGoes DEF Steps
      <3>5. DeleteRow(t) => UNCHANGED dev \/ DeleteLine(task[t].line) BY DEF DeleteRow
      <3> QED BY <1>1, <3>1, <3>2, <3>3, <3>4, <3>5
    <2> QED BY <1>2, <2>1, <2>2, <2>3 DEF Registering
  <1>11. ASSUME NEW d \in Devices, Deliver(d) \/ Drop(d) PROVE ClaimableIsSilent'
    <2>1. UNCHANGED <<task, dev>> BY <1>11 DEF Deliver, Drop
    <2>2. UNCHANGED conn \/ Disconnect(d) BY <1>11 DEF Deliver, Drop
    <2>3. Null \notin Numbers BY DEF ConstantsOK
    <2>4. \A e \in Devices : conn'[e] = conn[e] \/ conn'[e] \notin Numbers
      BY <2>2, <2>3, DisconnectKept
    <2> QED BY <1>1, <2>1, <2>4, SilentQuiet
  <1>12. ASSUME NEW d \in Devices, Repair(d) PROVE ClaimableIsSilent'
    <2>1. UNCHANGED task /\ Disconnect(d) BY <1>12 DEF Repair
    <2>2. Null \notin Numbers BY DEF ConstantsOK
    <2>3. conn'[d] = Null /\ \A e \in Devices : e # d => conn'[e] = conn[e]
      BY <2>1, DisconnectKept
    <2>4. \A e \in Devices : e # d \/ conn[d] = Null => (Claimable(e)' <=> Claimable(e))
      BY <1>12, RepairRow DEF Claimable
    <2>5. conn[d] # Null => \A u \in Tasks : ~Registers(u, d) BY DEF OneRegistration
    <2>6. \A u \in Tasks, e \in Devices : Registers(u, e)' <=> Registers(u, e)
      BY <2>1 DEF Registers
    <2> QED BY <2>1, <2>2, <2>3, <2>4, <2>5, <2>6 DEF ClaimableIsSilent
  <1>13. ASSUME CleanupExpired \/ \E d \in Devices : CodeExpires(d)
         PROVE  ClaimableIsSilent'
    <2>1. UNCHANGED <<task, conn>> BY <1>13 DEF CleanupExpired, CodeExpires
    <2> QED BY <1>13, <2>1, CodeRows, SilentQuiet
  <1>14. ASSUME NEW c \in active, CallEnds(c) PROVE ClaimableIsSilent'
    <2>1. UNCHANGED <<task, conn, dev>> BY <1>14 DEF CallEnds
    <2> QED BY <1>1, <2>1, SilentQuiet
  <1> HIDE DEF NoneNew
  <1> QED BY <1>3, <1>4, <1>5, <1>6, <1>7, <1>8, <1>9, <1>10, <1>11, <1>12, <1>13, <1>14
          DEF LinesNext, Begins

-----------------------------------------------------------------------------
(* The rows of devices match the rows of lines.                            *)

RowMatches(d) == dev[d] # Null => /\ dev[d].paired => dev[d].line # Null
                                  /\ dev[d].line # Null => line[dev[d].line] # Null
Movers == {"move_row", "move_recheck"}

LEMMA MatchParts ==
  RowsMatch <=> /\ \A d \in Devices : RowMatches(d)
                /\ \A l \in unused : line[l] = Null
                /\ \A t \in Tasks : task[t].pc \in Movers => task[t].line \notin unused
  BY DEF RowsMatch, RowMatches, Movers

LEMMA MatchPartsNext ==
  /\ \A d \in Devices : RowMatches(d)'
  /\ \A l \in unused' : line'[l] = Null
  /\ \A t \in Tasks : task'[t].pc \in Movers => task'[t].line \notin unused'
  => RowsMatch'
  BY DEF RowsMatch, RowMatches, Movers

(* Rows that stay, lines that stay.                                        *)
LEMMA MatchQuiet ==
  ASSUME Types, RowsMatch, UNCHANGED unused,
         \A d \in Devices : SameRow(d) \/ RowMatches(d)',
         \A l \in Lines : (line[l] = Null) <=> (line'[l] = Null),
         \A u \in Tasks : task'[u].pc \in Movers => task'[u] = task[u]
  PROVE  RowsMatch'
  <1>1. ASSUME NEW d \in Devices, SameRow(d) PROVE RowMatches(d)'
    <2>1. RowMatches(d) BY MatchParts
    <2>2. dev[d] # Null => dev[d].line \in Lines \cup {Null}
      BY TypeOKIs DEF Types, DeviceRows
    <2> QED BY <1>1, <2>1, <2>2 DEF RowMatches, SameRow
  <1>2. unused \subseteq Lines BY TypeOKIs DEF Types
  <1>3. \A l \in unused' : line'[l] = Null BY <1>2, MatchParts
  <1>4. \A t \in Tasks : task'[t].pc \in Movers => task'[t].line \notin unused'
    BY MatchParts
  <1> QED BY <1>1, <1>3, <1>4, MatchPartsNext

LEMMA RowsStay == UNCHANGED dev => \A d \in Devices : SameRow(d)
  BY DEF SameRow

LEMMA MatchClaims ==
  ASSUME ConstantsOK, Types, RowsMatch, NEW t \in Tasks, NEW d \in Devices, NEW l \in Lines,
         NEW home \in Homes,
         \/ \E n \in Numbers : ClaimDevice(t, d, l, n, home)
         \/ ClaimDeviceToLine(t, d, l, home)
  PROVE  RowsMatch'
  <1> USE TypeOKIs DEF Types
  <1>1. Bind(d, l) BY DEF ClaimDevice, ClaimDeviceToLine
  <1>2. /\ dev'[d] # Null => dev'[d].line = l /\ dev'[d].paired
        /\ \A e \in Devices : e # d => dev'[e] = dev[e]
    BY <1>1, BindKept
  <1>3. Null \notin Lines BY DEF ConstantsOK
  <1>4. Steps(t, {"idle"}, {"pair_notify", "pair_number"}) BY PairGoes DEF Steps
  <1>5. \A u \in Tasks : task'[u].pc \in Movers => task'[u] = task[u]
    BY <1>4 DEF Steps, Movers
  <1>6. /\ line'[l] # Null /\ \A k \in Lines : k # l => line'[k] = line[k]
        /\ unused' \subseteq unused /\ (l \notin unused' \/ line[l] # Null)
    <2>1. CASE ClaimDeviceToLine(t, d, l, home) BY <2>1 DEF ClaimDeviceToLine
    <2>2. ASSUME NEW n \in Numbers, ClaimDevice(t, d, l, n, home)
          PROVE  /\ line'[l] # Null /\ \A k \in Lines : k # l => line'[k] = line[k]
                 /\ unused' \subseteq unused /\ l \notin unused'
      <3> DEFINE r == [number |-> n, home |-> home]
      <3>1. r \in [number : Numbers, home : Homes] OBVIOUS
      <3>2. line' = [line EXCEPT ![l] = r] BY <2>2 DEF ClaimDevice
      <3> HIDE DEF r
      <3>3. line'[l] # Null /\ \A k \in Lines : k # l => line'[k] = line[k]
        BY <3>1, <3>2 DEF LineRows, ConstantsOK
      <3> QED BY <2>2, <3>3 DEF ClaimDevice
    <2> QED BY <2>1, <2>2
  <1>7. ASSUME NEW e \in Devices PROVE RowMatches(e)'
    <2>1. RowMatches(e) BY MatchParts
    <2>2. CASE e = d BY <1>2, <1>3, <1>6, <2>2 DEF RowMatches
    <2>3. CASE e # d
      <3>1. dev[e] # Null => dev[e].line \in Lines \cup {Null} BY DEF DeviceRows
      <3> QED BY <1>2, <1>6, <2>1, <2>3, <3>1 DEF RowMatches
    <2> QED BY <2>2, <2>3
  <1>8. \A k \in unused' : line'[k] = Null
    <2>1. \A k \in unused : line[k] = Null /\ k \in Lines BY MatchParts
    <2> QED BY <1>6, <2>1
  <1>9. \A u \in Tasks : task'[u].pc \in Movers => task'[u].line \notin unused'
    <2>1. \A u \in Tasks : task[u].pc \in Movers => task[u].line \notin unused BY MatchParts
    <2> QED BY <1>5, <1>6, <2>1
  <1> QED BY <1>7, <1>8, <1>9, MatchPartsNext

LEMMA MatchDeletion ==
  ASSUME Types, RowsMatch, UNCHANGED unused, NEW l \in Lines, DeleteLine(l),
         \A u \in Tasks : task'[u].pc \in Movers => task'[u] = task[u]
  PROVE  RowsMatch'
  <1> USE TypeOKIs DEF Types
  <1>1. /\ line'[l] = Null /\ \A k \in Lines : k # l => line'[k] = line[k]
        /\ \A d \in Devices : dev'[d] = dev[d] \/ dev'[d] = Null
        /\ \A d \in Devices : dev'[d] # Null => dev[d].line # l
    BY DeleteKept
  <1>2. ASSUME NEW d \in Devices PROVE RowMatches(d)'
    <2>1. RowMatches(d) BY MatchParts
    <2>2. dev[d] # Null => dev[d].line \in Lines \cup {Null} BY DEF DeviceRows
    <2> QED BY <1>1, <2>1, <2>2 DEF RowMatches
  <1>3. \A k \in unused : line[k] = Null /\ k \in Lines BY MatchParts
  <1>4. \A k \in unused' : line'[k] = Null BY <1>1, <1>3
  <1>5. \A u \in Tasks : task'[u].pc \in Movers => task'[u].line \notin unused' BY MatchParts
  <1> QED BY <1>2, <1>4, <1>5, MatchPartsNext

LEMMA MatchReassign ==
  ASSUME ConstantsOK, Types, RowsMatch, UNCHANGED <<line, unused>>,
         NEW d \in Devices, NEW l \in Lines, CanReassign(d, l), Reassign(d, l),
         \A u \in Tasks : task'[u].pc \in Movers => task[u].pc \in Movers /\ task'[u].line = task[u].line
  PROVE  RowsMatch'
  <1> USE TypeOKIs DEF Types
  <1>1. dev[d] # Null /\ line[l] # Null BY DEF CanReassign
  <1>2. /\ \A e \in Devices : e # d => dev'[e] = dev[e]
        /\ dev'[d].line = l
    BY <1>1, ReassignKept
  <1>3. Null \notin Lines BY DEF ConstantsOK
  <1>4. ASSUME NEW e \in Devices PROVE RowMatches(e)'
    <2>1. RowMatches(e) BY MatchParts
    <2>2. CASE e = d BY <1>1, <1>2, <1>3, <2>2 DEF RowMatches
    <2>3. CASE e # d BY <1>2, <2>1, <2>3 DEF RowMatches
    <2> QED BY <2>2, <2>3
  <1>5. \A k \in unused' : line'[k] = Null BY MatchParts
  <1>6. \A u \in Tasks : task'[u].pc \in Movers => task'[u].line \notin unused' BY MatchParts
  <1> QED BY <1>4, <1>5, <1>6, MatchPartsNext

LEMMA NumberSet ==
  ASSUME ConstantsOK, line \in LineRows, NEW l \in Lines, NEW n \in Numbers, line[l] # Null,
         line' = [line EXCEPT ![l].number = n]
  PROVE  \A k \in Lines : (line[k] = Null) <=> (line'[k] = Null)
  BY NumberKept DEF ConstantsOK

LEMMA MatchStep ==
  ASSUME ConstantsOK, Types, RowsMatch, LinesNext
  PROVE  RowsMatch'
  <1> USE TypeOKIs DEF Types
  <1> DEFINE NoMover == \A u \in Tasks : task'[u].pc \in Movers => task'[u] = task[u]
             SameLines == \A l \in Lines : (line[l] = Null) <=> (line'[l] = Null)
  <1>1. ASSUME NEW t \in Tasks, NEW from, NEW to, Steps(t, from, to), to \cap Movers = {}
        PROVE  NoMover
    BY <1>1 DEF Steps
  <1>2. ASSUME NEW t \in Tasks, Begins(t),
               \/ \E l \in Lines, n \in Numbers : NumberCheck(t, l, n)
               \/ \E l \in Lines : DeleteCheck(t, l)
               \/ \E d \in Devices, n \in Numbers : CallCheck(t, d, n)
               \/ \E d \in Devices : RegisterAuth(t, d)
        PROVE  RowsMatch'
    <2>1. UNCHANGED <<line, dev, unused>>
      BY <1>2 DEF NumberCheck, DeleteCheck, CallCheck, RegisterAuth, ids
    <2>2. Steps(t, {"idle"}, {"delete_row", "number_update", "call_enter", "register_code",
                              "register_bound"})
      BY <1>2, NumberGoes, DeletingGoes, CallingGoes, RegisterGoes DEF Steps
    <2>3. NoMover BY <1>1, <2>2 DEF Movers
    <2> QED BY <2>1, <2>3, MatchQuiet, RowsStay
  <1>3. ASSUME NEW t \in Tasks, NEW d \in Devices, NEW l \in Lines, MoveCheck(t, d, l)
        PROVE  RowsMatch'
    <2>1. UNCHANGED <<line, dev, unused>> BY <1>3 DEF MoveCheck, ids
    <2>2. /\ Steps(t, {"idle"}, {"move_row"}) /\ task'[t].line = dev[d].line
      BY <1>3, MovingGoes
    <2>3. line[dev[d].line] # Null BY <1>3 DEF MoveCheck
    <2>4. dev[d].line \notin unused BY <2>3, MatchParts
    <2>5. \A u \in Tasks : task'[u].pc \in Movers => task'[u].line \notin unused'
      BY <2>1, <2>2, <2>4, MatchParts DEF Steps
    <2>6. \A e \in Devices : RowMatches(e)' BY <2>1, MatchParts DEF RowMatches
    <2>7. \A k \in unused' : line'[k] = Null BY <2>1, MatchParts
    <2> QED BY <2>5, <2>6, <2>7, MatchPartsNext
  <1>4. ASSUME NEW t \in Tasks,
               \/ PairNumber(t) \/ PairNotify(t) \/ RegisterBound(t) \/ RegisterHub(t)
               \/ RenameNumber(t) \/ NumberClose(t) \/ DeleteClose(t) \/ MoveClose(t)
               \/ MoveList(t) \/ CallEnter(t)
        PROVE  RowsMatch'
    <2>1. UNCHANGED <<line, dev, unused>>
      BY <1>4 DEF PairNumber, PairNotify, RegisterBound, RegisterHub, RenameNumber,
                  NumberClose, DeleteClose, MoveClose, MoveList, CallEnter, ids
    <2>2. Steps(t, {"pair_number", "pair_notify", "register_bound", "register_hub",
                    "number_rename", "number_close", "delete_close", "move_close", "move_list",
                    "call_enter"},
                   {"idle", "pair_notify", "register_hub", "number_close", "move_list",
                    "move_delete"})
      BY <1>4, PairGoes, RegisterGoes, NumberGoes, DeletingGoes, MovingGoes, CallingGoes
         DEF Steps
    <2>3. NoMover BY <1>1, <2>2 DEF Movers
    <2> QED BY <2>1, <2>3, MatchQuiet, RowsStay
  <1>5. ASSUME NEW t \in Tasks, GenerateCode(t) PROVE RowsMatch'
    <2>1. UNCHANGED <<line, unused>> BY <1>5 DEF GenerateCode, ids
    <2>2. Steps(t, {"register_code"}, {"register_hub"}) /\ task[t].dev \in Devices
      BY <1>5, RegisterGoes
    <2> PICK d \in Devices : d = task[t].dev BY <2>2
    <2>3. NoMover BY <1>1, <2>2 DEF Movers
    <2>4. \A e \in Devices : SameRow(e) \/ RowMatches(e)'
      BY <1>5, GenerateRow DEF SameRow, RowMatches
    <2> QED BY <2>1, <2>3, <2>4, MatchQuiet
  <1>6. ASSUME NEW t \in Tasks, NumberUpdate(t) \/ NumberRecheck(t) PROVE RowsMatch'
    <2>1. UNCHANGED <<dev, unused>> BY <1>6 DEF NumberUpdate, NumberRecheck, ids
    <2>2. Steps(t, {"number_update", "number_recheck"}, {"idle", "number_recheck",
                                                         "number_rename"})
      BY <1>6, NumberGoes DEF Steps
    <2>3. task[t].line \in Lines /\ task[t].old \in Numbers /\ task[t].new \in Numbers
      BY <2>2, NumberGoes DEF Steps
    <2>4. \/ UNCHANGED line
          \/ /\ line[task[t].line] # Null
             /\ \/ line' = [line EXCEPT ![task[t].line].number = task[t].new]
                \/ line' = [line EXCEPT ![task[t].line].number = task[t].old]
      BY <1>6 DEF NumberUpdate, NumberRecheck
    <2>5. SameLines BY <2>3, <2>4, NumberSet
    <2>6. NoMover BY <1>1, <2>2 DEF Movers
    <2> QED BY <2>1, <2>5, <2>6, MatchQuiet, RowsStay
  <1>7. ASSUME NEW t \in Tasks, DeleteRow(t) PROVE RowsMatch'
    <2>1. UNCHANGED unused BY <1>7 DEF DeleteRow, ids
    <2>2. Steps(t, {"delete_row"}, {"idle", "delete_close"}) /\ task[t].line \in Lines
      BY <1>7, DeletingGoes
    <2>3. NoMover BY <1>1, <2>2 DEF Movers
    <2>4. UNCHANGED <<line, dev>> \/ DeleteLine(task[t].line) BY <1>7 DEF DeleteRow
    <2> QED BY <2>1, <2>2, <2>3, <2>4, MatchQuiet, MatchDeletion, RowsStay
  <1>8. ASSUME NEW t \in Tasks, MoveDelete(t) PROVE RowsMatch'
    <2>1. UNCHANGED unused /\ DeleteLine(task[t].line) BY <1>8 DEF MoveDelete, ids
    <2>2. Steps(t, {"move_delete"}, {"idle"}) BY <1>8, MovingGoes
    <2>3. task[t].line \in Lines BY <2>2, MovingGoes DEF Steps
    <2>4. NoMover BY <1>1, <2>2 DEF Movers
    <2> QED BY <2>1, <2>3, <2>4, MatchDeletion
  <1>9. ASSUME NEW t \in Tasks, MoveRow(t) \/ MoveRecheck(t) PROVE RowsMatch'
    <2>1. UNCHANGED <<line, unused>> BY <1>9 DEF MoveRow, MoveRecheck, ids
    <2>2. /\ Steps(t, Movers, {"idle", "move_recheck", "move_close"})
          /\ task'[t].pc = "move_recheck" => SameMove(t)
      BY <1>9, MovingGoes DEF Steps, Movers
    <2>3. task[t].dev \in Devices /\ task[t].line \in Lines /\ task[t].to \in Lines
      BY <2>2, MovingGoes DEF Steps, Movers
    <2>4. \A u \in Tasks : task'[u].pc \in Movers
                             => task[u].pc \in Movers /\ task'[u].line = task[u].line
      BY <2>2 DEF Steps, Movers, SameMove
    <2>5. \/ UNCHANGED dev
          \/ \E l \in Lines : CanReassign(task[t].dev, l) /\ Reassign(task[t].dev, l)
      BY <1>9, <2>3 DEF MoveRow, MoveRecheck
    <2>6. CASE UNCHANGED dev
      <3>1. \A e \in Devices : RowMatches(e)' BY <2>1, <2>6, MatchParts DEF RowMatches
      <3>2. \A k \in unused' : line'[k] = Null BY <2>1, MatchParts
      <3>3. \A u \in Tasks : task'[u].pc \in Movers => task'[u].line \notin unused'
        BY <2>1, <2>4, MatchParts
      <3> QED BY <3>1, <3>2, <3>3, MatchPartsNext
    <2>7. CASE \E l \in Lines : CanReassign(task[t].dev, l) /\ Reassign(task[t].dev, l)
      BY <2>1, <2>3, <2>4, <2>7, MatchReassign
    <2> QED BY <2>5, <2>6, <2>7
  <1>10. ASSUME \/ \E d \in Devices : \/ Deliver(d) \/ Drop(d) \/ Repair(d)
                                      \/ CodeExpires(d)
                \/ CleanupExpired
                \/ \E c \in active : CallEnds(c)
         PROVE  RowsMatch'
    <2>1. UNCHANGED <<line, unused, task>>
      BY <1>10 DEF Deliver, Drop, Repair, CodeExpires, CleanupExpired, CallEnds,
                   ids
    <2>2. \A e \in Devices : SameRow(e) \/ RowMatches(e)'
      <3>1. CASE (\E d \in Devices : Deliver(d) \/ Drop(d)) \/ \E c \in active : CallEnds(c)
        BY <3>1, RowsStay DEF Deliver, Drop, CallEnds
      <3>2. CASE CleanupExpired \/ \E d \in Devices : CodeExpires(d)
        BY <3>2, CodeRows
      <3>3. ASSUME NEW d \in Devices, Repair(d)
            PROVE  \A e \in Devices : SameRow(e) \/ RowMatches(e)'
        <4>1. RowMatches(d) BY MatchParts
        <4> QED BY <2>1, <3>3, <4>1, RepairRow DEF SameRow, RowMatches
      <3> QED BY <1>10, <3>1, <3>2, <3>3
    <2> QED BY <2>1, <2>2, MatchQuiet
  <1> HIDE DEF NoMover, SameLines
  <1> QED BY <1>2, <1>3, <1>4, <1>5, <1>6, <1>7, <1>8, <1>9, <1>10, MatchClaims
          DEF LinesNext, Begins

-----------------------------------------------------------------------------
(* Where the token of a paired row is.                                     *)

Traced(d) == (Paired(d) /\ ~Pending(d) /\ d \notin lost)
               => Carries(d) \/ (cfg[d].token = dev[d].token /\ ~Undelivered(outbox[d]))
TokenRow(d) == Paired(d)' => Paired(d) /\ dev'[d].token = dev[d].token
(* The queue of d keeps what it holds, and no token joins it.              *)
SameTokens(d) ==
  /\ \A i \in DOMAIN outbox[d] : i \in DOMAIN outbox'[d] /\ outbox'[d][i] = outbox[d][i]
  /\ \A i \in DOMAIN outbox'[d] : outbox'[d][i].type = "paired" => i \in DOMAIN outbox[d]

LEMMA TracedAll == TokenTraced <=> \A d \in Devices : Traced(d)
  BY DEF TokenTraced, Traced

LEMMA TracedNext == (\A d \in Devices : Traced(d)') => TokenTraced'
  BY DEF TokenTraced, Traced

LEMMA TracedKept ==
  ASSUME NEW d \in Devices, Traced(d), TokenRow(d), SameTokens(d),
         cfg'[d].token = cfg[d].token, d \in lost => d \in lost', Pending(d) => Pending(d)'
  PROVE  Traced(d)'
  <1> SUFFICES ASSUME Paired(d)', ~Pending(d)', d \notin lost'
               PROVE  \/ Carries(d)'
                      \/ cfg'[d].token = dev'[d].token /\ ~Undelivered(outbox'[d])
    BY DEF Traced
  <1>1. \/ Carries(d) \/ (cfg[d].token = dev[d].token /\ ~Undelivered(outbox[d]))
    BY DEF Traced, TokenRow
  <1>2. dev'[d].token = dev[d].token BY DEF TokenRow
  <1>3. CASE Carries(d) BY <1>2, <1>3 DEF Carries, SameTokens
  <1>4. CASE cfg[d].token = dev[d].token /\ ~Undelivered(outbox[d])
    BY <1>2, <1>4 DEF Undelivered, SameTokens
  <1> QED BY <1>1, <1>3, <1>4

LEMMA QueueStays == UNCHANGED outbox => \A d \in Devices : SameTokens(d)
  BY DEF SameTokens

LEMMA RowStays == UNCHANGED dev => \A d \in Devices : TokenRow(d)
  BY DEF TokenRow, Paired

LEMMA SameRowToken == \A d \in Devices : SameRow(d) => TokenRow(d)
  BY DEF SameRow, TokenRow, Paired

(* A request that notifies nobody keeps what is pending.                   *)
LEMMA PendingStays ==
  ASSUME NEW t \in Tasks, NEW from, NEW to, Steps(t, from, to),
         from \cap {"pair_number", "pair_notify"} = {}
  PROVE  \A d \in Devices : Pending(d) => Pending(d)'
  BY DEF Steps, Pending

LEMMA TokenQuiet ==
  ASSUME TokenTraced, UNCHANGED cfg, lost \subseteq lost',
         \A d \in Devices : TokenRow(d) /\ SameTokens(d) /\ (Pending(d) => Pending(d)')
  PROVE  TokenTraced'
  <1>1. ASSUME NEW d \in Devices PROVE Traced(d)'
    <2>1. Traced(d) BY TracedAll
    <2> QED BY <2>1, TracedKept
  <1> QED BY <1>1, TracedNext

LEMMA TokenBegins ==
  ASSUME Types, TokenTraced, NEW t \in Tasks, Begins(t)
  PROVE  TokenTraced'
  <1> USE TypeOKIs DEF Types
  <1>1. UNCHANGED <<outbox, cfg, lost>> BY BeginsQuietly
  <1>2. \A d \in Devices : Pending(d) => Pending(d)' BY BeginsQuietly, PendingStays
  <1>3. ASSUME NEW d \in Devices, NEW l \in Lines, NEW home \in Homes,
               \/ \E n \in Numbers : ClaimDevice(t, d, l, n, home)
               \/ ClaimDeviceToLine(t, d, l, home)
        PROVE  TokenTraced'
    <2>1. Bind(d, l) BY <1>3 DEF ClaimDevice, ClaimDeviceToLine
    <2>2. \A e \in Devices : e # d => dev'[e] = dev[e] BY <2>1, BindKept
    <2>3. Pending(d)' BY <1>3, PairGoes DEF Pending, Steps
    <2>4. ASSUME NEW e \in Devices, e # d PROVE Traced(e)'
      <3>1. Traced(e) /\ SameTokens(e) BY <1>1, TracedAll, QueueStays
      <3>2. TokenRow(e) BY <2>2, <2>4 DEF TokenRow, Paired
      <3> QED BY <1>1, <1>2, <3>1, <3>2, TracedKept
    <2>5. Traced(d)' BY <2>3 DEF Traced
    <2> QED BY <2>4, <2>5, TracedNext
  <1>4. ASSUME \/ \E d \in Devices, l \in Lines : MoveCheck(t, d, l)
               \/ \E l \in Lines, n \in Numbers : NumberCheck(t, l, n)
               \/ \E l \in Lines : DeleteCheck(t, l)
               \/ \E d \in Devices, n \in Numbers : CallCheck(t, d, n)
               \/ \E d \in Devices : RegisterAuth(t, d)
        PROVE  TokenTraced'
    <2>1. UNCHANGED dev
      BY <1>4 DEF MoveCheck, NumberCheck, DeleteCheck, CallCheck, RegisterAuth
    <2> QED BY <1>1, <1>2, <2>1, TokenQuiet, QueueStays, RowStays
  <1> QED BY <1>3, <1>4 DEF Begins

LEMMA TokenPairing ==
  ASSUME Types, TokenTraced, NEW t \in Tasks, PairNumber(t) \/ PairNotify(t)
  PROVE  TokenTraced'
  <1> USE TypeOKIs DEF Types
  <1>1. CASE PairNumber(t)
    <2>1. /\ Steps(t, {"pair_number"}, {"idle", "pair_notify"}) /\ task[t].dev \in Devices
          /\ task'[t].pc = "pair_notify" => task'[t].dev = task[t].dev
      BY <1>1, PairGoes
    <2> PICK d \in Devices : d = task[t].dev BY <2>1
    <2>2. UNCHANGED <<dev, cfg, outbox>> /\ lost \subseteq lost'
      BY <1>1 DEF PairNumber
    <2>3. task'[t].pc = "idle" => d \in lost'
      <3>1. CASE line[task[t].line] = Null BY <1>1, <3>1 DEF PairNumber
      <3>2. CASE line[task[t].line] # Null
        <4>1. task'[t].pc = "pair_notify"
          BY <1>1, <3>2 DEF PairNumber, Goto, TasksOK
        <4> QED BY <4>1
      <3> QED BY <3>1, <3>2
    <2>4. \A e \in Devices : Pending(e) => Pending(e)' \/ e \in lost'
      BY <2>1, <2>3 DEF Pending, Steps
    <2>5. ASSUME NEW e \in Devices PROVE Traced(e)'
      <3>1. Traced(e) /\ TokenRow(e) /\ SameTokens(e)
        BY <2>2, TracedAll, RowStays, QueueStays
      <3>2. CASE e \in lost' BY <3>2 DEF Traced
      <3> QED BY <2>2, <2>4, <3>1, <3>2, TracedKept
    <2> QED BY <2>5, TracedNext
  <1>2. CASE PairNotify(t)
    <2>1. /\ Steps(t, {"pair_notify"}, {"idle"}) /\ task[t].dev \in Devices
          /\ task[t].token \in Nat /\ task[t].new \in Numbers
      BY <1>2, PairGoes
    <2> PICK d \in Devices : d = task[t].dev BY <2>1
    <2> DEFINE m == [type |-> "paired", token |-> task[t].token, number |-> task[t].new]
    <2>2. UNCHANGED <<dev, cfg>> /\ lost \subseteq lost' BY <1>2 DEF PairNotify
    <2>3. ASSUME NEW e \in Devices, e # d PROVE Traced(e)'
      <3>1. outbox'[e] = outbox[e] BY <1>2, <2>3 DEF PairNotify, Outboxes
      <3>2. SameTokens(e) BY <3>1 DEF SameTokens
      <3>3. Traced(e) /\ TokenRow(e) BY <2>2, TracedAll, RowStays
      <3>4. Pending(e) => Pending(e)' BY <2>1, <2>3 DEF Pending, Steps
      <3> QED BY <2>2, <3>2, <3>3, <3>4, TracedKept
    <2>4. Traced(d)'
      <3>1. CASE d \in lost' BY <3>1 DEF Traced
      <3>2. CASE ~Paired(d) BY <2>2, <3>2 DEF Traced, Paired
      <3>3. CASE Paired(d) /\ d \notin lost'
        <4>1. dev[d].token = task[t].token /\ outbox' = [outbox EXCEPT ![d] = Append(@, m)]
          BY <1>2, <3>3 DEF PairNotify
        <4>2. m.type = "paired" /\ m.token = task[t].token OBVIOUS
        <4> HIDE DEF m
        <4>3. outbox[d] \in Seq(Messages) BY DEF Outboxes
        <4>4. outbox'[d] = Append(outbox[d], m) BY <4>1 DEF Outboxes
        <4>5. /\ Len(outbox[d]) + 1 \in DOMAIN Append(outbox[d], m)
              /\ Append(outbox[d], m)[Len(outbox[d]) + 1] = m
          BY <4>3
        <4>6. Carries(d)' BY <2>2, <4>1, <4>2, <4>4, <4>5 DEF Carries
        <4> QED BY <4>6 DEF Traced
      <3> QED BY <3>1, <3>2, <3>3
    <2> QED BY <2>3, <2>4, TracedNext
  <1> QED BY <1>1, <1>2

LEMMA TokenRegisters ==
  ASSUME Types, OneRegistration, TokenTraced, NEW t \in Tasks,
         GenerateCode(t) \/ RegisterBound(t) \/ RegisterHub(t)
  PROVE  TokenTraced'
  <1> USE TypeOKIs DEF Types
  <1>1. UNCHANGED <<cfg, lost>>
    BY DEF GenerateCode, RegisterBound, RegisterHub, history
  <1>2. Steps(t, {"register_code", "register_bound", "register_hub"}, {"idle", "register_hub"})
    BY RegisterGoes DEF Steps
  <1>3. \A d \in Devices : Pending(d) => Pending(d)' BY <1>2, PendingStays
  <1>4. CASE GenerateCode(t)
    <2>1. UNCHANGED outbox BY <1>4 DEF GenerateCode
    <2>2. task[t].dev \in Devices BY <1>4, RegisterGoes
    <2> PICK d \in Devices : d = task[t].dev BY <2>2
    <2>3. \A e \in Devices : TokenRow(e)
      <3>1. \A e \in Devices : e # d => TokenRow(e)
        BY <1>4, GenerateRow DEF TokenRow, Paired
      <3>2. TokenRow(d)
        BY <1>4, GenerateRow, SameRowToken DEF TokenRow, Paired
      <3> QED BY <3>1, <3>2
    <2> QED BY <1>1, <1>3, <2>1, <2>3, QueueStays, TokenQuiet
  <1>5. CASE RegisterBound(t)
    <2>1. UNCHANGED <<outbox, dev>> BY <1>5 DEF RegisterBound
    <2> QED BY <1>1, <1>3, <2>1, QueueStays, RowStays, TokenQuiet
  <1>6. CASE RegisterHub(t)
    <2>1. /\ Steps(t, {"register_hub"}, {"idle"})
          /\ task[t].dev \in Devices /\ task[t].new \in Numbers \cup {"unpaired"}
      BY <1>6, RegisterGoes
    <2> PICK d \in Devices : d = task[t].dev BY <2>1
    <2> DEFINE f == <<[type |-> "renumber", number |-> task[t].new]>>
    <2>2. conn[d] = Null /\ outbox[d] = <<>>
      BY <2>1 DEF OneRegistration, Registers, Steps
    <2>3. /\ UNCHANGED dev
          /\ \A e \in Devices : e # d => outbox'[e] = outbox[e]
          /\ outbox'[d] = <<>> \/ (outbox'[d] = f /\ task[t].new \in Numbers)
      BY <1>6, <2>1 DEF RegisterHub, Outboxes
    <2>4. task[t].new \in Numbers => \A i \in DOMAIN f : f[i].type # "paired" BY Farewell
    <2> HIDE DEF f
    <2>5. SameTokens(d) BY <2>2, <2>3, <2>4 DEF SameTokens
    <2>6. \A e \in Devices : SameTokens(e) BY <2>3, <2>5 DEF SameTokens
    <2> QED BY <1>1, <1>3, <2>3, <2>6, RowStays, TokenQuiet
  <1> QED BY <1>4, <1>5, <1>6

LEMMA TokenCloses ==
  ASSUME Types, NEW D, NEW n \in Numbers,
         \/ CloseConnsOf(D, <<[type |-> "renumber", number |-> n]>>)
         \/ CloseConnsOf(D, <<>>)
  PROVE  \A d \in Devices : SameTokens(d)
  <1> USE TypeOKIs DEF Types
  <1> DEFINE f == <<[type |-> "renumber", number |-> n]>>
  <1>1. f \in Seq(Messages) /\ \A i \in DOMAIN f : f[i].type # "paired" BY Farewell
  <1>2. <<>> \in Seq(Messages) /\ \A i \in DOMAIN <<>> : <<>>[i].type # "paired" OBVIOUS
  <1> HIDE DEF f
  <1>3. CASE CloseConnsOf(D, f) BY <1>1, <1>3, CloseKept DEF SameTokens
  <1>4. CASE CloseConnsOf(D, <<>>) BY <1>2, <1>4, CloseKept DEF SameTokens
  <1> QED BY <1>3, <1>4 DEF f

LEMMA TokenRequests ==
  ASSUME Types, TokenTraced, NEW t \in Tasks,
         \/ NumberUpdate(t) \/ NumberRecheck(t) \/ RenameNumber(t) \/ NumberClose(t)
         \/ DeleteRow(t) \/ DeleteClose(t)
         \/ MoveRow(t) \/ MoveRecheck(t) \/ MoveClose(t) \/ MoveList(t)
         \/ MoveDelete(t) \/ CallEnter(t)
  PROVE  TokenTraced'
  <1> USE TypeOKIs DEF Types
  <1>1. UNCHANGED <<cfg, lost>>
    BY DEF NumberUpdate, NumberRecheck, RenameNumber, NumberClose, DeleteRow,
           DeleteClose, MoveRow, MoveRecheck, MoveClose, MoveList, MoveDelete,
           CallEnter, history
  <1> DEFINE Froms == {"number_update", "number_recheck", "number_rename", "number_close",
                       "delete_row", "delete_close", "move_row", "move_recheck", "move_close",
                       "move_list", "move_delete", "call_enter"}
             Tos == {"idle", "number_recheck", "number_rename", "number_close", "delete_close",
                     "move_recheck", "move_close", "move_list", "move_delete"}
  <1>2. Steps(t, Froms, Tos)
    BY NumberGoes, DeletingGoes, MovingGoes, CallingGoes DEF Steps
  <1>3. \A d \in Devices : Pending(d) => Pending(d)' BY <1>2, PendingStays
  <1>4. CASE \/ NumberUpdate(t) \/ NumberRecheck(t) \/ RenameNumber(t)
             \/ MoveList(t) \/ CallEnter(t)
    <2>1. UNCHANGED <<outbox, dev>>
      BY <1>4 DEF NumberUpdate, NumberRecheck, RenameNumber, MoveList, CallEnter
    <2> QED BY <1>1, <1>3, <2>1, QueueStays, RowStays, TokenQuiet
  <1>5. CASE NumberClose(t) \/ DeleteClose(t) \/ MoveClose(t)
    <2>1. UNCHANGED dev BY <1>5 DEF NumberClose, DeleteClose, MoveClose
    <2>2. \/ task[t].old \in Numbers /\ DeleteClose(t)
          \/ task[t].new \in Numbers /\ (NumberClose(t) \/ MoveClose(t))
      BY <1>5, NumberGoes, DeletingGoes, MovingGoes DEF NumberClose, MoveClose
    <2>3. \A d \in Devices : SameTokens(d)
      BY <2>2, TokenCloses DEF NumberClose, DeleteClose, MoveClose
    <2> QED BY <1>1, <1>3, <2>1, <2>3, RowStays, TokenQuiet
  <1>6. CASE DeleteRow(t) \/ MoveDelete(t)
    <2>1. UNCHANGED outbox BY <1>6 DEF DeleteRow, MoveDelete
    <2>2. task[t].line \in Lines BY <1>6, DeletingGoes, MovingGoes DEF MoveDelete
    <2>3. UNCHANGED dev \/ DeleteLine(task[t].line) BY <1>6 DEF DeleteRow, MoveDelete
    <2>4. \A d \in Devices : TokenRow(d)
      BY <2>2, <2>3, RowStays, DeleteKept DEF TokenRow, Paired
    <2> QED BY <1>1, <1>3, <2>1, <2>4, QueueStays, TokenQuiet
  <1>7. CASE MoveRow(t) \/ MoveRecheck(t)
    <2>1. UNCHANGED outbox BY <1>7 DEF MoveRow, MoveRecheck
    <2>2. task[t].dev \in Devices /\ task[t].line \in Lines /\ task[t].to \in Lines
      BY <1>7, MovingGoes DEF MoveRow, MoveRecheck
    <2>3. \/ UNCHANGED dev
          \/ \E l \in Lines : CanReassign(task[t].dev, l) /\ Reassign(task[t].dev, l)
      BY <1>7, <2>2 DEF MoveRow, MoveRecheck
    <2>4. \A d \in Devices : TokenRow(d)
      BY <2>2, <2>3, RowStays, ReassignKept DEF TokenRow, Paired, CanReassign
    <2> QED BY <1>1, <1>3, <2>1, <2>4, QueueStays, TokenQuiet
  <1> QED BY <1>4, <1>5, <1>6, <1>7

(* A queue without its first message.                                      *)
LEMMA TailOf ==
  ASSUME NEW q \in Seq(Messages), q # <<>>
  PROVE  /\ Tail(q) \in Seq(Messages) /\ Head(q) = q[1] /\ 1 \in DOMAIN q
         /\ Head(q) \in Messages
         /\ \A i \in DOMAIN q : i # 1 => \E j \in DOMAIN Tail(q) : Tail(q)[j] = q[i]
         /\ \A j \in DOMAIN Tail(q) : \E i \in DOMAIN q : q[i] = Tail(q)[j]
  <1>1. Len(q) \in Nat \ {0} /\ DOMAIN q = 1..Len(q) /\ Len(Tail(q)) = Len(q) - 1
        /\ DOMAIN Tail(q) = 1..Len(q) - 1
    OBVIOUS
  <1>2. \A i \in DOMAIN q : i # 1 => i - 1 \in DOMAIN Tail(q) /\ Tail(q)[i - 1] = q[i]
    BY <1>1
  <1>3. \A j \in DOMAIN Tail(q) : j + 1 \in DOMAIN q /\ q[j + 1] = Tail(q)[j]
    BY <1>1
  <1> QED BY <1>1, <1>2, <1>3

LEMMA TokenDelivers ==
  ASSUME Types, TokenTraced, NEW d \in Devices, Deliver(d)
  PROVE  TokenTraced'
  <1> USE TypeOKIs DEF Types
  <1> DEFINE q == outbox[d]
             m == Head(q)
             skip == m.type = "renumber" /\ m.number = cfg[d].number
  <1>1. q \in Seq(Messages) /\ q # <<>> BY DEF Deliver, Outboxes
  <1>2. UNCHANGED <<dev, task>> BY DEF Deliver
  <1>3. \A e \in Devices : Traced(e) /\ TokenRow(e) /\ (Pending(e) <=> Pending(e)')
    BY <1>2, TracedAll, RowStays DEF Pending
  <1>4. \A e \in Devices : e # d => /\ outbox'[e] = outbox[e] /\ cfg'[e] = cfg[e]
                                    /\ (e \in lost => e \in lost')
    BY DEF Deliver, Disconnect, Outboxes
  <1>5. \A e \in Devices : e # d => Traced(e)' BY <1>3, <1>4, TracedKept DEF SameTokens
  <1>6. CASE skip
    <2>1. outbox'[d] = Tail(q) /\ UNCHANGED <<cfg, lost>>
      BY <1>6 DEF Deliver, Outboxes
    <2>2. ASSUME Carries(d) PROVE Carries(d)'
      <3>1. PICK i \in DOMAIN q : q[i].type = "paired" /\ q[i].token = dev[d].token
        BY <2>2 DEF Carries
      <3>2. q[1].type # "paired" BY <1>1, <1>6, TailOf
      <3>3. PICK j \in DOMAIN Tail(q) : Tail(q)[j] = q[i] BY <1>1, <3>1, <3>2, TailOf
      <3> QED BY <1>2, <2>1, <3>1, <3>3 DEF Carries
    <2>3. Undelivered(outbox'[d]) => Undelivered(outbox[d])
      BY <1>1, <2>1, TailOf DEF Undelivered
    <2>4. Traced(d)' BY <1>2, <1>3, <2>1, <2>2, <2>3 DEF Traced, Paired
    <2> QED BY <1>5, <2>4, TracedNext
  <1>7. CASE ~skip
    <2> DEFINE r == [cfg[d] EXCEPT !.number = m.number]
               s == [number |-> m.number, token |-> m.token]
    <2>1. r.token = cfg[d].token /\ s.token = m.token OBVIOUS
    <2>2. cfg' = [cfg EXCEPT ![d] = CASE m.type = "paired" -> s
                                      [] m.type = "renumber" -> r [] OTHER -> cfg[d]]
      BY <1>7 DEF Deliver
    <2> HIDE DEF r, s
    <2>3. cfg'[d].token = IF m.type = "paired" THEN m.token ELSE cfg[d].token
      BY <2>1, <2>2
    <2>4. /\ outbox'[d] = <<>>
          /\ Undelivered(Tail(q)) => d \in lost'
          /\ d \in lost /\ d \notin lost' => m.type = "paired" /\ m.token = dev[d].token
      BY <1>7, DisconnectKept DEF Deliver
    <2>5. Traced(d)'
      <3> SUFFICES ASSUME Paired(d)', ~Pending(d)', d \notin lost'
                   PROVE  cfg'[d].token = dev'[d].token /\ ~Undelivered(outbox'[d])
        BY DEF Traced
      <3>1. ~Undelivered(outbox'[d]) BY <2>4 DEF Undelivered
      <3>2. Paired(d) /\ ~Pending(d) /\ ~Undelivered(Tail(q)) /\ dev'[d] = dev[d]
        BY <1>2, <1>3, <2>4 DEF Paired
      <3>3. CASE d \in lost BY <2>3, <2>4, <3>1, <3>2, <3>3
      <3>4. CASE d \notin lost
        <4>1. Carries(d) \/ (cfg[d].token = dev[d].token /\ ~Undelivered(q))
          BY <1>3, <3>2, <3>4 DEF Traced
        <4>2. CASE Carries(d)
          <5>1. PICK i \in DOMAIN q : q[i].type = "paired" /\ q[i].token = dev[d].token
            BY <4>2 DEF Carries
          <5>2. ASSUME i # 1 PROVE FALSE
            <6>1. PICK j \in DOMAIN Tail(q) : Tail(q)[j] = q[i] BY <1>1, <5>1, <5>2, TailOf
            <6> QED BY <3>2, <5>1, <6>1 DEF Undelivered
          <5>3. m = q[1] BY <1>1, TailOf
          <5>4. m.type = "paired" /\ m.token = dev[d].token BY <5>1, <5>2, <5>3
          <5> QED BY <2>3, <3>1, <3>2, <5>4
        <4>3. CASE cfg[d].token = dev[d].token /\ ~Undelivered(q)
          <5>1. m.type # "paired" BY <1>1, <4>3, TailOf DEF Undelivered
          <5> QED BY <2>3, <3>1, <3>2, <4>3, <5>1
        <4> QED BY <4>1, <4>2, <4>3
      <3> QED BY <3>3, <3>4
    <2> QED BY <1>5, <2>5, TracedNext
  <1> QED BY <1>6, <1>7

LEMMA TokenHandsets ==
  ASSUME Types, TokenTraced,
         \/ \E d \in Devices : Drop(d) \/ Repair(d) \/ CodeExpires(d)
         \/ CleanupExpired \/ \E c \in active : CallEnds(c)
  PROVE  TokenTraced'
  <1> USE TypeOKIs DEF Types
  <1>1. UNCHANGED task
    BY DEF Drop, Repair, CodeExpires, CleanupExpired, CallEnds
  <1>2. \A e \in Devices : Pending(e) <=> Pending(e)' BY <1>1 DEF Pending
  <1>3. ASSUME NEW d \in Devices, Drop(d) PROVE TokenTraced'
    <2>1. UNCHANGED <<dev, cfg>> /\ lost \subseteq lost' BY <1>3 DEF Drop
    <2>2. /\ outbox'[d] = <<>> /\ \A e \in Devices : e # d => outbox'[e] = outbox[e]
          /\ Undelivered(outbox[d]) => d \in lost'
      BY <1>3, DisconnectKept DEF Drop
    <2>3. \A e \in Devices : e # d => Traced(e)'
      BY <1>2, <2>1, <2>2, TracedAll, RowStays, TracedKept DEF SameTokens
    <2>4. Traced(d)'
      BY <1>2, <2>1, <2>2, TracedAll DEF Traced, Carries, Undelivered, Paired
    <2> QED BY <2>3, <2>4, TracedNext
  <1>4. ASSUME NEW d \in Devices, Repair(d) PROVE TokenTraced'
    <2>1. Disconnect(d) /\ \A e \in Devices : e # d => cfg'[e] = cfg[e]
      BY <1>4 DEF Repair
    <2>2. \A e \in Devices : e # d => outbox'[e] = outbox[e] BY <2>1, DisconnectKept
    <2>3. \A e \in Devices : e # d => TokenRow(e)
      BY <1>4, RepairRow DEF TokenRow, Paired
    <2>4. \A e \in Devices : e # d => (e \in lost => e \in lost') BY <1>4 DEF Repair
    <2>5. \A e \in Devices : e # d => Traced(e)'
      BY <1>2, <2>1, <2>2, <2>3, <2>4, TracedAll, TracedKept DEF SameTokens
    <2>6. Traced(d)' BY <1>4, RepairRow DEF Traced
    <2> QED BY <2>5, <2>6, TracedNext
  <1>5. CASE CleanupExpired \/ \E d \in Devices : CodeExpires(d)
    <2>1. UNCHANGED <<outbox, cfg, lost>>
      BY <1>5 DEF CodeExpires, CleanupExpired, history
    <2> QED BY <1>2, <1>5, <2>1, CodeRows, SameRowToken, QueueStays, TokenQuiet
  <1>6. CASE \E c \in active : CallEnds(c)
    <2>1. UNCHANGED <<outbox, cfg, lost, dev>> BY <1>6 DEF CallEnds, history
    <2> QED BY <1>2, <2>1, RowStays, QueueStays, TokenQuiet
  <1> QED BY <1>3, <1>4, <1>5, <1>6

LEMMA TokenStep ==
  ASSUME Types, OneRegistration, TokenTraced, LinesNext
  PROVE  TokenTraced'
  BY TokenBegins, TokenPairing, TokenRegisters, TokenRequests, TokenDelivers, TokenHandsets
     DEF LinesNext, Begins

-----------------------------------------------------------------------------
(* Why a connected handset answers its number, or will stop answering it.  *)

(* The handset is left alone: if it is live now it was live before.        *)
Steady(d) ==
  /\ conn'[d] = conn[d]
  /\ Paired(d)' => Paired(d) /\ dev'[d].line = dev[d].line
  /\ d \in overlapped => d \in overlapped'
  /\ Told(d) => Told(d)'

(* No request that bears on an answer moves on or comes up to such a step. *)
CalmTasks == \A u \in Tasks :
  \/ task[u].pc \in {"number_recheck", "number_rename", "number_close", "move_recheck",
                     "move_close"}
  \/ task'[u].pc \in {"number_update", "number_recheck", "move_row", "move_recheck"}
  => task'[u] = task[u]

LEMMA LiveBefore ==
  ASSUME NEW d \in Devices, Steady(d), Live(d)'
  PROVE  Live(d) /\ Paired(d) /\ dev'[d].line = dev[d].line
  BY DEF Steady, Live

LEMMA LinesUsed ==
  ASSUME Types, RowsMatch
  PROVE  /\ \A d \in Devices : Paired(d) => dev[d].line \in Lines \ unused
         /\ \A t \in Tasks : task[t].pc \in Movers => task[t].line \in Lines \ unused
  <1>1. ASSUME NEW d \in Devices, Paired(d) PROVE dev[d].line \in Lines \ unused
    <2>1. dev[d] # Null /\ dev[d].paired BY <1>1 DEF Paired
    <2>2. dev[d].line \in Lines \cup {Null} BY <2>1, TypeOKIs DEF Types, DeviceRows
    <2>3. dev[d].line # Null /\ line[dev[d].line] # Null BY <2>1, MatchParts DEF RowMatches
    <2> QED BY <2>2, <2>3, MatchParts
  <1>2. ASSUME NEW t \in Tasks, task[t].pc \in Movers PROVE task[t].line \in Lines \ unused
    BY <1>2, MatchParts, MovingGoes DEF Movers
  <1> QED BY <1>1, <1>2

LEMMA CoveredKept ==
  ASSUME NEW d \in Devices, NEW l \in Lines, Covered(d, l), conn'[d] = conn[d],
         line'[l] = line[l] \/ line'[l] = Null,
         \A u \in Tasks : Renumbering(u, l)' =>
           task'[u] = task[u] \/ (line[l] # Null /\ task'[u].old = line[l].number),
         \A u \in Tasks : Restores(u, d, l) => task'[u] = task[u]
  PROVE  Covered(d, l)'
  <1>1. CASE line'[l] = Null BY <1>1 DEF Covered
  <1>2. CASE line[l] = Null BY <1>2 DEF Covered
  <1>3. CASE line'[l] = line[l] /\ Sound(d, l)
    <2>1. \A u \in Tasks : Renumbering(u, l)' => task'[u].old = conn[d]
      BY <1>3 DEF Sound, Renumbering
    <2> QED BY <1>3, <2>1 DEF Covered, Sound
  <1>4. CASE \E u \in Tasks : Restores(u, d, l) BY <1>4 DEF Covered, Restores
  <1> QED BY <1>1, <1>2, <1>3, <1>4 DEF Covered

LEMMA AccountedKept ==
  ASSUME Types, RowsMatch, NEW d \in Devices, Paired(d), Accounted(d),
         dev'[d].line = dev[d].line,
         \A l \in Lines \ unused : Covered(d, l) => Covered(d, l)',
         \A u \in Tasks : Leaving(u, d) => Leaving(u, d)',
         \A u \in Tasks : Rechecks(u, d) <=> Rechecks(u, d)',
         \A u \in Tasks : Rechecks(u, d) => task'[u] = task[u],
         \A u \in Tasks : task'[u].pc = "move_row" /\ task'[u].dev = d =>
           task'[u] = task[u] \/ task'[u].line = dev[d].line
  PROVE  Accounted(d)'
  <1>1. CASE \E t \in Tasks : Leaving(t, d) BY <1>1 DEF Accounted
  <1>2. ASSUME NEW m \in Tasks, Rechecks(m, d), Covered(d, task[m].line)
        PROVE  Accounted(d)'
    <2>1. task[m].line \in Lines \ unused BY <1>2, LinesUsed DEF Rechecks, Movers
    <2> PICK l \in Lines \ unused : l = task[m].line BY <2>1
    <2>2. Covered(d, l)' BY <1>2
    <2>3. Rechecks(m, d)' /\ task'[m].line = l BY <1>2
    <2> QED BY <2>2, <2>3 DEF Accounted, Covered, Sound, Restores
  <1>3. CASE Stays(d)
    <2>1. dev[d].line \in Lines \ unused BY LinesUsed
    <2> PICK l \in Lines \ unused : l = dev[d].line BY <2>1
    <2>2. Covered(d, l)' BY <1>3 DEF Stays
    <2>3. \A u \in Tasks : task'[u].pc = "move_row" /\ task'[u].dev = d
                             => task'[u].line = dev'[d].line
      BY <1>3 DEF Stays
    <2>4. \A m \in Tasks : ~Rechecks(m, d)' BY <1>3 DEF Stays
    <2>5. dev'[d].line = l OBVIOUS
    <2>6. Stays(d)' BY <2>2, <2>3, <2>4, <2>5 DEF Stays, Covered, Sound, Restores
    <2> QED BY <2>6 DEF Accounted
  <1> QED BY <1>1, <1>2, <1>3 DEF Accounted

LEMMA CalmKeeps ==
  ASSUME NEW d \in Devices, CalmTasks, conn'[d] = conn[d]
  PROVE  /\ \A u \in Tasks : Leaving(u, d) => Leaving(u, d)'
         /\ \A u \in Tasks : Rechecks(u, d) <=> Rechecks(u, d)'
         /\ \A u \in Tasks : Rechecks(u, d) => task'[u] = task[u]
         /\ \A u \in Tasks : task'[u].pc = "move_row" => task'[u] = task[u]
         /\ \A u \in Tasks, l \in Lines :
              /\ Renumbering(u, l)' => task'[u] = task[u]
              /\ Restores(u, d, l) => task'[u] = task[u]
  BY DEF CalmTasks, Leaving, Rechecks, Restores, Renumbering

LEMMA AnsweringQuiet ==
  ASSUME Types, RowsMatch, Answering, CalmTasks, NEW d \in Devices, Steady(d), Live(d)',
         \A l \in Lines \ unused : line'[l] = line[l] \/ line'[l] = Null
  PROVE  Accounted(d)'
  <1>1. Accounted(d) /\ Paired(d) /\ dev'[d].line = dev[d].line
    BY LiveBefore DEF Answering
  <1>2. conn'[d] = conn[d] BY DEF Steady
  <1>3. \A l \in Lines \ unused : Covered(d, l) => Covered(d, l)'
    BY <1>2, CalmKeeps, CoveredKept
  <1> QED BY <1>1, <1>2, <1>3, CalmKeeps, AccountedKept

LEMMA CalmStep ==
  ASSUME NEW t \in Tasks, NEW from, NEW to, Steps(t, from, to),
         from \cap {"number_recheck", "number_rename", "number_close", "move_recheck",
                    "move_close"} = {},
         to \cap {"number_update", "number_recheck", "move_row", "move_recheck"} = {}
  PROVE  CalmTasks
  BY DEF Steps, CalmTasks

LEMMA AnsweringNext == (\A d \in Devices : Live(d)' => Accounted(d)') => Answering'
  BY DEF Answering

LEMMA SteadyRow ==
  ASSUME NEW d \in Devices, conn'[d] = conn[d], outbox'[d] = outbox[d],
         d \in overlapped => d \in overlapped',
         \/ SameRow(d) \/ dev'[d] = dev[d] \/ ~Paired(d)'
  PROVE  Steady(d)
  BY DEF Steady, SameRow, Told, Paired

LEMMA AnswersClaim ==
  ASSUME ConstantsOK, Types, RowsMatch, ClaimableIsSilent, Answering, NEW t \in Tasks,
         \E d \in Devices, l \in Lines, home \in Homes :
           \/ \E n \in Numbers : ClaimDevice(t, d, l, n, home)
           \/ ClaimDeviceToLine(t, d, l, home)
  PROVE  Answering'
  <1> USE TypeOKIs DEF Types
  <1> PICK d \in Devices, l \in Lines, home \in Homes :
             \/ \E n \in Numbers : ClaimDevice(t, d, l, n, home)
             \/ ClaimDeviceToLine(t, d, l, home)
    OBVIOUS
  <1>1. /\ UNCHANGED <<conn, outbox, overlapped>> /\ Bind(d, l) /\ Claimable(d)
        /\ \A k \in Lines \ unused : line'[k] = line[k]
    BY DEF ClaimDevice, ClaimDeviceToLine, history, LineRows
  <1>2. Steps(t, {"idle"}, {"pair_notify", "pair_number"}) BY PairGoes DEF Steps
  <1>3. CalmTasks BY <1>2, CalmStep
  <1>4. \A e \in Devices : e # d => dev'[e] = dev[e] BY <1>1, BindKept
  <1>5. ASSUME NEW e \in Devices, e # d, Live(e)' PROVE Accounted(e)'
    <2>1. Steady(e) BY <1>1, <1>4, <1>5, SteadyRow
    <2> QED BY <1>1, <1>3, <1>5, <2>1, AnsweringQuiet
  <1>6. ~Live(d)' BY <1>1 DEF Live, ClaimableIsSilent
  <1> QED BY <1>5, <1>6, AnsweringNext

LEMMA AnswersQuietly ==
  ASSUME Types, RowsMatch, Answering, NEW t \in Tasks,
         \/ \E l \in Lines : DeleteCheck(t, l)
         \/ \E d \in Devices, n \in Numbers : CallCheck(t, d, n)
         \/ \E d \in Devices : RegisterAuth(t, d)
         \/ PairNumber(t) \/ RegisterBound(t) \/ MoveList(t) \/ CallEnter(t)
  PROVE  Answering'
  <1>1. UNCHANGED <<line, dev, conn, outbox, overlapped>>
    BY DEF DeleteCheck, CallCheck, RegisterAuth, PairNumber, RegisterBound,
           MoveList, CallEnter, history
  <1>2. Steps(t, {"idle", "pair_number", "register_bound", "move_list", "call_enter"},
                 {"delete_row", "call_enter", "register_code", "register_bound", "idle",
                  "pair_notify", "register_hub", "move_delete"})
    BY DeletingGoes, CallingGoes, RegisterGoes, PairGoes, MovingGoes DEF Steps
  <1>3. CalmTasks BY <1>2, CalmStep
  <1>4. \A d \in Devices : Steady(d) BY <1>1, SteadyRow
  <1> QED BY <1>1, <1>3, <1>4, AnsweringQuiet, AnsweringNext

LEMMA AnswersRows ==
  ASSUME Types, RowsMatch, Answering, NEW t \in Tasks,
         GenerateCode(t) \/ DeleteRow(t) \/ MoveDelete(t)
  PROVE  Answering'
  <1> USE TypeOKIs DEF Types
  <1>1. UNCHANGED <<conn, outbox, overlapped>>
    BY DEF GenerateCode, DeleteRow, MoveDelete, history
  <1>2. Steps(t, {"register_code", "delete_row", "move_delete"},
                 {"register_hub", "idle", "delete_close"})
    BY RegisterGoes, DeletingGoes, MovingGoes DEF Steps
  <1>3. CalmTasks BY <1>2, CalmStep
  <1>4. (\A d \in Devices : Steady(d)) /\ \A l \in Lines : line'[l] = line[l] \/ line'[l] = Null
    <2>1. CASE GenerateCode(t)
      <3>1. task[t].dev \in Devices BY <2>1, RegisterGoes
      <3> PICK d \in Devices : d = task[t].dev BY <3>1
      <3>2. \A e \in Devices : e # d => Steady(e) BY <1>1, <2>1, GenerateRow, SteadyRow
      <3>3. SameRow(d) \/ ~Paired(d)' BY <2>1, GenerateRow DEF Paired
      <3>4. Steady(d) BY <1>1, <3>3, SteadyRow
      <3> QED BY <2>1, <3>2, <3>4 DEF GenerateCode
    <2>2. CASE DeleteRow(t) \/ MoveDelete(t)
      <3>1. task[t].line \in Lines BY <2>2, DeletingGoes, MovingGoes DEF MoveDelete
      <3>2. UNCHANGED <<line, dev>> \/ DeleteLine(task[t].line)
        BY <2>2 DEF DeleteRow, MoveDelete
      <3>3. /\ \A d \in Devices : dev'[d] = dev[d] \/ dev'[d] = Null
            /\ \A l \in Lines : line'[l] = line[l] \/ line'[l] = Null
        BY <3>1, <3>2, DeleteKept
      <3>4. \A d \in Devices : dev'[d] = dev[d] \/ ~Paired(d)' BY <3>3 DEF Paired
      <3> QED BY <1>1, <3>3, <3>4, SteadyRow
    <2> QED BY <2>1, <2>2
  <1> QED BY <1>1, <1>3, <1>4, AnsweringQuiet, AnsweringNext

(* What is queued behind a farewell does not make a handset live.          *)
LEMMA SteadyQueue ==
  ASSUME UNCHANGED <<conn, dev, overlapped>>, NEW d \in Devices, SameTokens(d)
  PROVE  Steady(d)
  BY DEF Steady, SameTokens, Told, Paired

LEMMA ClosesTold ==
  ASSUME Types, UNCHANGED <<conn, dev, overlapped>>, NEW D, NEW n \in Numbers,
         \/ CloseConnsOf(D, <<[type |-> "renumber", number |-> n]>>)
         \/ CloseConnsOf(D, <<>>)
  PROVE  \A d \in Devices : Steady(d) /\ (d \in D => Told(d)')
  <1> USE TypeOKIs DEF Types
  <1> DEFINE f == <<[type |-> "renumber", number |-> n]>>
             g == <<>>
  <1>1. \A d \in Devices : Steady(d) BY TokenCloses, SteadyQueue
  <1>2. f \in Seq(Messages) /\ \A i \in DOMAIN f : f[i].type # "paired" BY Farewell
  <1>3. g \in Seq(Messages) /\ \A i \in DOMAIN g : g[i].type # "paired" OBVIOUS
  <1> HIDE DEF f, g
  <1>4. ASSUME NEW h \in Seq(Messages), \A i \in DOMAIN h : h[i].type # "paired",
               CloseConnsOf(D, h)
        PROVE  \A d \in Devices : d \in D => Told(d)'
    <2>1. outbox \in Outboxes OBVIOUS
    <2>2. \A d \in Devices :
            d \in D => \E i \in DOMAIN outbox'[d] : outbox'[d][i].type = "close"
      BY ONLY <2>1, <1>4, CloseKept
    <2> QED BY <2>2 DEF Told
  <1>5. CloseConnsOf(D, f) \/ CloseConnsOf(D, g) BY DEF f, g
  <1> QED BY <1>1, <1>2, <1>3, <1>4, <1>5

LEMMA AnswersDeleteClose ==
  ASSUME Types, RowsMatch, Answering, NEW t \in Tasks, DeleteClose(t)
  PROVE  Answering'
  <1>1. UNCHANGED <<line, dev, conn, overlapped>> BY DEF DeleteClose, history
  <1>2. Steps(t, {"delete_close"}, {"idle"}) /\ task[t].old \in Numbers BY DeletingGoes
  <1>3. CalmTasks BY <1>2, CalmStep
  <1>4. \A d \in Devices : Steady(d) BY <1>1, <1>2, ClosesTold DEF DeleteClose
  <1> QED BY <1>1, <1>3, <1>4, AnsweringQuiet, AnsweringNext

LEMMA AnswersNotify ==
  ASSUME Types, RowsMatch, Answering, NEW t \in Tasks, PairNotify(t)
  PROVE  Answering'
  <1> USE TypeOKIs DEF Types
  <1>1. UNCHANGED <<line, dev, conn, overlapped>> BY DEF PairNotify
  <1>2. /\ Steps(t, {"pair_notify"}, {"idle"}) /\ task[t].dev \in Devices
        /\ task[t].token \in Nat /\ task[t].new \in Numbers
    BY PairGoes
  <1>3. CalmTasks BY <1>2, CalmStep
  <1> PICK d \in Devices : d = task[t].dev BY <1>2
  <1> DEFINE m == [type |-> "paired", token |-> task[t].token, number |-> task[t].new]
  <1>4. outbox' = outbox \/ outbox' = [outbox EXCEPT ![d] = Append(@, m)]
    BY DEF PairNotify
  <1> HIDE DEF m
  <1>5. outbox[d] \in Seq(Messages) BY DEF Outboxes
  <1>6. \A i \in DOMAIN outbox[d] : /\ i \in DOMAIN Append(outbox[d], m)
                                    /\ Append(outbox[d], m)[i] = outbox[d][i]
    BY <1>5
  <1>7. ASSUME NEW e \in Devices, Told(e) PROVE Told(e)'
    <2>1. PICK i \in DOMAIN outbox[e] : outbox[e][i].type = "close" BY <1>7 DEF Told
    <2>2. i \in DOMAIN outbox'[e] /\ outbox'[e][i] = outbox[e][i]
      BY <1>4, <1>6, <2>1 DEF Outboxes
    <2> QED BY <2>1, <2>2 DEF Told
  <1>8. \A e \in Devices : Steady(e) BY <1>1, <1>7 DEF Steady, Paired
  <1> QED BY <1>1, <1>3, <1>8, AnsweringQuiet, AnsweringNext

LEMMA AnswersHandsets ==
  ASSUME ConstantsOK, Types, RowsMatch, Answering,
         \/ \E d \in Devices : Deliver(d) \/ Drop(d) \/ Repair(d) \/ CodeExpires(d)
         \/ CleanupExpired \/ \E c \in active : CallEnds(c)
  PROVE  Answering'
  <1> USE TypeOKIs DEF Types
  <1>1. UNCHANGED <<task, line, overlapped>>
    BY DEF Deliver, Drop, Repair, CodeExpires, CleanupExpired, CallEnds, history
  <1>2. CalmTasks BY <1>1 DEF CalmTasks
  <1>3. ASSUME NEW d \in Devices, Deliver(d) \/ Drop(d) \/ Repair(d) PROVE Answering'
    <2>1. /\ \A e \in Devices : e # d => dev'[e] = dev[e]
          /\ Repair(d) \/ dev' = dev
      BY <1>3, RepairRow DEF Deliver, Drop
    <2>2. /\ \A e \in Devices : e # d => conn'[e] = conn[e] /\ outbox'[e] = outbox[e]
          /\ conn'[d] = Null
             \/ (conn' = conn /\ Deliver(d) /\ outbox'[d] = Tail(outbox[d])
                  /\ Head(outbox[d]).type = "renumber")
      <3>1. CASE Disconnect(d) BY <3>1, DisconnectKept
      <3>2. CASE ~Disconnect(d)
        BY <1>3, <3>2 DEF Deliver, Drop, Repair, Outboxes
      <3> QED BY <3>1, <3>2
    <2>3. \A e \in Devices : e # d => Steady(e) BY <1>1, <2>1, <2>2, SteadyRow
    <2>4. Live(d)' => Steady(d)
      <3>1. Null \notin Numbers BY DEF ConstantsOK
      <3>2. CASE conn'[d] = Null BY <3>1, <3>2 DEF Live
      <3>3. CASE conn' = conn /\ Deliver(d) /\ outbox'[d] = Tail(outbox[d])
                   /\ Head(outbox[d]).type = "renumber"
        <4>1. outbox[d] \in Seq(Messages) /\ outbox[d] # <<>> /\ dev' = dev
          BY <3>3 DEF Deliver, Outboxes
        <4>2. ASSUME Told(d) PROVE Told(d)'
          <5>1. PICK i \in DOMAIN outbox[d] : outbox[d][i].type = "close" BY <4>2 DEF Told
          <5>2. outbox[d][1].type # "close" BY <3>3, <4>1, TailOf
          <5>3. PICK j \in DOMAIN Tail(outbox[d]) : Tail(outbox[d])[j] = outbox[d][i]
            BY <4>1, <5>1, <5>2, TailOf
          <5> QED BY <3>3, <5>1, <5>3 DEF Told
        <4> QED BY <1>1, <3>3, <4>1, <4>2 DEF Steady, Paired
      <3> QED BY <2>2, <3>2, <3>3
    <2>5. \A e \in Devices : Live(e)' => Steady(e) BY <2>3, <2>4
    <2> QED BY <1>1, <1>2, <2>5, AnsweringQuiet, AnsweringNext
  <1>4. CASE CleanupExpired \/ \E d \in Devices : CodeExpires(d)
    <2>1. UNCHANGED <<conn, outbox>> BY <1>4 DEF CodeExpires, CleanupExpired
    <2>2. \A d \in Devices : Steady(d) BY <1>1, <1>4, <2>1, CodeRows, SteadyRow
    <2> QED BY <1>1, <1>2, <2>2, AnsweringQuiet, AnsweringNext
  <1>5. CASE \E c \in active : CallEnds(c)
    <2>1. UNCHANGED <<conn, outbox, dev>> BY <1>5 DEF CallEnds
    <2>2. \A d \in Devices : Steady(d) BY <1>1, <2>1, SteadyRow
    <2> QED BY <1>1, <1>2, <2>2, AnsweringQuiet, AnsweringNext
  <1> QED BY <1>3, <1>4, <1>5

(* A request that bears on answers, as far as one handset goes.            *)
LEMMA KeptByOthers ==
  ASSUME Types, RowsMatch, Answering, NEW t \in Tasks, NEW from, NEW to, Steps(t, from, to),
         NEW d \in Devices, Steady(d), Live(d)',
         \A l \in Lines \ unused : Covered(d, l) => Covered(d, l)',
         Leaving(t, d) => Leaving(t, d)',
         ~Rechecks(t, d), ~Rechecks(t, d)',
         task'[t].pc = "move_row" /\ task'[t].dev = d => task'[t].line = dev[d].line
  PROVE  Accounted(d)'
  <1>1. Accounted(d) /\ Paired(d) /\ dev'[d].line = dev[d].line
    BY LiveBefore DEF Answering
  <1>2. conn'[d] = conn[d] /\ \A u \in Tasks : u # t => task'[u] = task[u]
    BY DEF Steady, Steps
  <1>3. \A u \in Tasks : Leaving(u, d) => Leaving(u, d)' BY <1>2 DEF Leaving
  <1>4. \A u \in Tasks : /\ Rechecks(u, d) <=> Rechecks(u, d)'
                         /\ Rechecks(u, d) => task'[u] = task[u]
    BY <1>2 DEF Rechecks
  <1>5. \A u \in Tasks : task'[u].pc = "move_row" /\ task'[u].dev = d =>
           task'[u] = task[u] \/ task'[u].line = dev[d].line
    BY <1>2
  <1> QED BY <1>1, <1>3, <1>4, <1>5, AccountedKept

LEMMA KeptCovered ==
  ASSUME NEW t \in Tasks, NEW from, NEW to, Steps(t, from, to),
         NEW d \in Devices, NEW l \in Lines, Covered(d, l), conn'[d] = conn[d],
         line'[l] = line[l] \/ line'[l] = Null,
         Renumbering(t, l)' => line[l] # Null /\ task'[t].old = line[l].number,
         ~Restores(t, d, l)
  PROVE  Covered(d, l)'
  <1>1. \A u \in Tasks : u # t => task'[u] = task[u] BY DEF Steps
  <1> QED BY <1>1, CoveredKept

LEMMA AnswersChecks ==
  ASSUME Types, RowsMatch, Answering, NEW t \in Tasks,
         \/ \E d \in Devices, l \in Lines : MoveCheck(t, d, l)
         \/ \E l \in Lines, n \in Numbers : NumberCheck(t, l, n)
  PROVE  Answering'
  <1>1. UNCHANGED <<line, dev, conn, outbox, overlapped>>
    BY DEF MoveCheck, NumberCheck, history
  <1>2. \A e \in Devices : Steady(e) /\ conn'[e] = conn[e] BY <1>1, SteadyRow
  <1>3. ASSUME NEW d \in Devices, NEW l \in Lines, MoveCheck(t, d, l),
               NEW e \in Devices, Live(e)'
        PROVE  Accounted(e)'
    <2>1. /\ Steps(t, {"idle"}, {"move_row"})
          /\ task'[t].dev = d /\ task'[t].line = dev[d].line
      BY <1>3, MovingGoes
    <2>2. \A k \in Lines : /\ Renumbering(t, k)' => FALSE
                           /\ ~Restores(t, e, k)
      BY <2>1 DEF Steps, Restores, Renumbering
    <2>3. \A k \in Lines : Covered(e, k) => Covered(e, k)'
      BY <1>1, <1>2, <2>1, <2>2, KeptCovered
    <2>4. ~Leaving(t, e) /\ ~Rechecks(t, e) /\ ~Rechecks(t, e)'
      BY <2>1 DEF Steps, Leaving, Rechecks
    <2> QED BY <1>2, <1>3, <2>1, <2>3, <2>4, KeptByOthers
  <1>4. ASSUME NEW l \in Lines, NEW n \in Numbers, NumberCheck(t, l, n),
               NEW e \in Devices, Live(e)'
        PROVE  Accounted(e)'
    <2>1. /\ Steps(t, {"idle"}, {"number_update"})
          /\ task'[t].line = l /\ task'[t].old = line[l].number
      BY <1>4, NumberGoes
    <2>2. line[l] # Null BY <1>4 DEF NumberCheck
    <2>3. \A k \in Lines : /\ Renumbering(t, k)' => k = l
                           /\ ~Restores(t, e, k)
      BY <2>1 DEF Steps, Restores, Renumbering
    <2>4. \A k \in Lines : Covered(e, k) => Covered(e, k)'
      BY <1>1, <1>2, <2>1, <2>2, <2>3, KeptCovered
    <2>5. ~Leaving(t, e) /\ ~Rechecks(t, e) /\ ~Rechecks(t, e)' /\ task'[t].pc # "move_row"
      BY <2>1 DEF Steps, Leaving, Rechecks
    <2> QED BY <1>2, <1>4, <2>1, <2>4, <2>5, KeptByOthers
  <1> QED BY <1>3, <1>4, AnsweringNext

LEMMA AnswersUpdate ==
  ASSUME ConstantsOK, Types, RowsMatch, Answering, NEW t \in Tasks, NumberUpdate(t)
  PROVE  Answering'
  <1> USE TypeOKIs DEF Types
  <1>1. UNCHANGED <<dev, conn, outbox, overlapped>> BY DEF NumberUpdate, history
  <1>2. \A d \in Devices : Steady(d) /\ conn'[d] = conn[d] BY <1>1, SteadyRow
  <1>3. /\ Steps(t, {"number_update"}, {"idle", "number_recheck"})
        /\ task'[t].pc = "number_recheck" => SameNumbers(t)
    BY NumberGoes
  <1>4. task[t].line \in Lines /\ task[t].old \in Numbers /\ task[t].new \in Numbers
    BY <1>3, NumberGoes DEF Steps
  <1> PICK l \in Lines : l = task[t].line BY <1>4
  <1>5. \/ UNCHANGED line /\ task'[t].pc = "idle"
        \/ /\ line[l] # Null /\ task'[t].pc = "number_recheck"
           /\ line' = [line EXCEPT ![l].number = task[t].new]
    <2>1. CASE line[l] = Null \/ NumberTaken(task[t].new)
      BY <2>1, IdlePc DEF NumberUpdate, Done, Goto, TasksOK
    <2>2. CASE ~(line[l] = Null \/ NumberTaken(task[t].new))
      <3>1. line' = [line EXCEPT ![l].number = task[t].new]
            /\ Goto(t, [task[t] EXCEPT !.pc = "number_recheck"])
        BY <2>2 DEF NumberUpdate
      <3>2. task[t] \in Renumbers BY <1>3, TaskKinds DEF Steps, TasksOK
      <3> DEFINE r == [task[t] EXCEPT !.pc = "number_recheck"]
      <3>3. r.pc = "number_recheck" BY <3>2, RenumberGoes
      <3> HIDE DEF r
      <3>4. task' = [task EXCEPT ![t] = r] BY <3>1 DEF r, Goto
      <3> QED BY <2>2, <3>1, <3>3, <3>4 DEF TasksOK
    <2> QED BY <2>1, <2>2
  <1>6. ASSUME NEW d \in Devices, NEW k \in Lines, Covered(d, k) PROVE Covered(d, k)'
    <2>1. ~Restores(t, d, k) BY <1>3 DEF Steps, Restores
    <2>2. CASE UNCHANGED line /\ task'[t].pc = "idle"
      <3>1. ~Renumbering(t, k)' BY <2>2 DEF Renumbering
      <3> QED BY <1>2, <1>3, <1>6, <2>1, <2>2, <3>1, KeptCovered
    <2>3. CASE /\ line[l] # Null /\ task'[t].pc = "number_recheck"
               /\ line' = [line EXCEPT ![l].number = task[t].new]
      <3>1. \A j \in Lines : j # l => line'[j] = line[j] BY <1>4, <2>3, NumberKept
      <3>2. CASE k # l
        <4>1. ~Renumbering(t, k)' BY <1>3, <2>3, <3>2 DEF Renumbering, SameNumbers
        <4> QED BY <1>2, <1>3, <1>6, <2>1, <3>1, <3>2, <4>1, KeptCovered
      <3>3. CASE k = l
        <4>1. CASE \E u \in Tasks : Restores(u, d, l)
          BY <1>2, <1>3, <2>1, <3>3, <4>1 DEF Covered, Restores, Steps
        <4>2. CASE Sound(d, l)
          <5>1. task[t].old = conn[d] BY <1>3, <4>2 DEF Sound, Renumbering, Steps
          <5>2. Restores(t, d, k)'
            BY <1>2, <1>3, <2>3, <3>3, <5>1 DEF Restores, SameNumbers
          <5> QED BY <5>2 DEF Covered
        <4> QED BY <1>6, <2>3, <3>3, <4>1, <4>2 DEF Covered
      <3> QED BY <3>2, <3>3
    <2> QED BY <1>5, <2>2, <2>3
  <1>7. \A d \in Devices : ~Leaving(t, d) /\ ~Rechecks(t, d) /\ ~Rechecks(t, d)'
    BY <1>3 DEF Steps, Leaving, Rechecks
  <1>8. task'[t].pc # "move_row" BY <1>3 DEF Steps
  <1> QED BY <1>2, <1>3, <1>6, <1>7, <1>8, KeptByOthers, AnsweringNext

LEMMA AnswersRecheck ==
  ASSUME ConstantsOK, Types, RowsMatch, Answering, NEW t \in Tasks, NumberRecheck(t)
  PROVE  Answering'
  <1> USE TypeOKIs DEF Types
  <1>1. /\ UNCHANGED <<dev, conn, outbox>>
        /\ \A d \in Devices : d \in overlapped => d \in overlapped'
    BY DEF NumberRecheck
  <1>2. \A d \in Devices : Steady(d) /\ conn'[d] = conn[d] BY <1>1, SteadyRow
  <1>3. /\ Steps(t, {"number_recheck"}, {"idle", "number_rename"})
        /\ task'[t].pc = "number_rename" => SameNumbers(t)
    BY NumberGoes
  <1>4. task[t].line \in Lines /\ task[t].old \in Numbers BY <1>3, NumberGoes DEF Steps
  <1> PICK l \in Lines : l = task[t].line BY <1>4
  <1> DEFINE other == \E u \in Tasks \ {t} : Renumbering(u, l)
  <1>5. \/ UNCHANGED line /\ task'[t].pc = "number_rename"
        \/ /\ line[l] # Null /\ task'[t].pc = "idle"
           /\ line' = [line EXCEPT ![l].number = task[t].old]
           /\ other => \A d \in Devices : conn[d] = task[t].old => d \in overlapped'
    <2>1. CASE Goto(t, [task[t] EXCEPT !.pc = "number_rename"]) /\ UNCHANGED line
      <3>1. task[t] \in Renumbers BY <1>3, TaskKinds DEF Steps, TasksOK
      <3> DEFINE r == [task[t] EXCEPT !.pc = "number_rename"]
      <3>2. r.pc = "number_rename" BY <3>1, RenumberGoes
      <3> HIDE DEF r
      <3>3. task' = [task EXCEPT ![t] = r] BY <2>1 DEF r, Goto
      <3> QED BY <2>1, <3>2, <3>3 DEF TasksOK
    <2>2. CASE /\ line[l] # Null /\ Done(t)
               /\ line' = [line EXCEPT ![l].number = task[t].old]
               /\ other => \A d \in Devices : conn[d] = task[t].old => d \in overlapped'
      BY <2>2, IdlePc DEF Done, Goto, TasksOK
    <2> QED BY <2>1, <2>2 DEF NumberRecheck
  <1>6. \A d \in Devices : ~Leaving(t, d) /\ ~Rechecks(t, d) /\ ~Rechecks(t, d)'
    BY <1>3 DEF Steps, Leaving, Rechecks
  <1>7. task'[t].pc # "move_row" BY <1>3 DEF Steps
  <1>8. CASE UNCHANGED line /\ task'[t].pc = "number_rename"
    <2>1. ASSUME NEW d \in Devices, Live(d)', task[t].old = conn[d] PROVE Accounted(d)'
      BY <1>2, <1>3, <1>8, <2>1 DEF Accounted, Leaving, SameNumbers
    <2>2. ASSUME NEW d \in Devices, Live(d)', task[t].old # conn[d] PROVE Accounted(d)'
      <3>1. \A k \in Lines : ~Restores(t, d, k) /\ ~Renumbering(t, k)'
        BY <1>8, <2>2 DEF Restores, Renumbering
      <3>2. \A k \in Lines : Covered(d, k) => Covered(d, k)'
        BY <1>2, <1>3, <1>8, <3>1, KeptCovered
      <3> QED BY <1>2, <1>3, <1>6, <1>7, <2>2, <3>2, KeptByOthers
    <2> QED BY <2>1, <2>2, AnsweringNext
  <1>9. CASE /\ line[l] # Null /\ task'[t].pc = "idle"
             /\ line' = [line EXCEPT ![l].number = task[t].old]
             /\ other => \A d \in Devices : conn[d] = task[t].old => d \in overlapped'
    <2> PICK n \in Numbers : n = task[t].old BY <1>4
    <2>0. line' = [line EXCEPT ![l].number = n] /\ line[l] # Null BY <1>9
    <2>1. /\ \A k \in Lines : k # l => line'[k] = line[k]
          /\ line'[l].number = task[t].old /\ line'[l] # Null
      <3>1. Null \notin [number : Numbers, home : Homes] BY DEF ConstantsOK
      <3>2. line \in LineRows OBVIOUS
      <3>3. /\ \A k \in Lines : k # l => line'[k] = line[k]
            /\ line'[l].number = n /\ line'[l] \in [number : Numbers, home : Homes]
        BY <2>0, <3>2, NumberKept
      <3> QED BY <3>1, <3>3
    <2>2. \A k \in Lines : ~Renumbering(t, k)' BY <1>9 DEF Renumbering
    <2>3. ASSUME NEW d \in Devices, Live(d)', NEW k \in Lines, Covered(d, k)
          PROVE  Covered(d, k)'
      <3>1. CASE k # l
        <4>1. ~Restores(t, d, k) BY <3>1 DEF Restores
        <4> QED BY <1>2, <1>3, <2>1, <2>2, <2>3, <3>1, <4>1, KeptCovered
      <3>2. CASE k = l /\ task[t].old = conn[d]
        <4>1. ~other BY <1>9, <2>3, <3>2 DEF Live
        <4>2. \A u \in Tasks : ~Renumbering(u, l)'
          BY <1>3, <2>2, <4>1 DEF Steps, Renumbering
        <4> QED BY <1>2, <2>1, <3>2, <4>2 DEF Covered, Sound
      <3>3. CASE k = l /\ task[t].old # conn[d]
        <4>1. ~Sound(d, l) /\ ~Restores(t, d, l)
          BY <1>3, <3>3 DEF Sound, Restores, Renumbering, Steps
        <4>2. \E u \in Tasks : u # t /\ Restores(u, d, l)
          BY <1>9, <2>3, <3>3, <4>1 DEF Covered
        <4> QED BY <1>2, <1>3, <3>3, <4>2 DEF Covered, Restores, Steps
      <3> QED BY <3>1, <3>2, <3>3
    <2> QED BY <1>2, <1>3, <1>6, <1>7, <2>3, KeptByOthers, AnsweringNext
  <1> QED BY <1>5, <1>8, <1>9

LEMMA AnswersRename ==
  ASSUME ConstantsOK, Types, RowsMatch, Answering, NEW t \in Tasks,
         RenameNumber(t) \/ NumberClose(t) \/ MoveClose(t)
  PROVE  Answering'
  <1>1. UNCHANGED <<line, dev, conn, overlapped>>
    BY DEF RenameNumber, NumberClose, MoveClose, history
  <1>2. Steps(t, {"number_rename", "number_close", "move_close"},
                 {"number_close", "idle", "move_list"})
    BY NumberGoes, MovingGoes DEF Steps
  <1>3. /\ task'[t].pc # "move_row"
        /\ \A l \in Lines : ~Renumbering(t, l)'
        /\ \A d \in Devices, l \in Lines : ~Restores(t, d, l)
        /\ \A d \in Devices : ~Rechecks(t, d) /\ ~Rechecks(t, d)'
    BY <1>2 DEF Steps, Restores, Rechecks, Renumbering
  <1>4. \A d \in Devices, l \in Lines : Covered(d, l) => Covered(d, l)'
    BY <1>1, <1>2, <1>3, KeptCovered
  <1>5. ASSUME NEW d \in Devices, Steady(d), Live(d)', Leaving(t, d) => Leaving(t, d)'
        PROVE  Accounted(d)'
    BY <1>2, <1>3, <1>4, <1>5, KeptByOthers
  <1>6. CASE RenameNumber(t)
    <2>1. UNCHANGED outbox BY <1>6 DEF RenameNumber
    <2>2. \A d \in Devices : Steady(d) BY <1>1, <2>1, SteadyRow
    <2>3. Steps(t, {"number_rename"}, {"number_close"}) /\ SameNumbers(t) BY <1>6, NumberGoes
    <2>4. \A d \in Devices : Leaving(t, d) => Leaving(t, d)'
      BY <1>1, <2>3 DEF Leaving, Steps, SameNumbers
    <2> QED BY <1>5, <2>2, <2>4, AnsweringNext
  <1>7. CASE NumberClose(t)
    <2>1. task[t].new \in Numbers /\ task[t].pc = "number_close"
      BY <1>7, NumberGoes DEF NumberClose
    <2>2. \A d \in Devices : Steady(d) /\ (conn[d] = task[t].old => Told(d)')
      BY <1>1, <1>7, <2>1, ClosesTold DEF NumberClose
    <2>3. \A d \in Devices : Live(d)' => ~Leaving(t, d)
      BY <2>1, <2>2 DEF Live, Leaving
    <2> QED BY <1>5, <2>2, <2>3, AnsweringNext
  <1>8. CASE MoveClose(t)
    <2>1. task[t].new \in Numbers /\ task[t].pc = "move_close"
      BY <1>8, MovingGoes DEF MoveClose
    <2>2. \A d \in Devices :
            Steady(d) /\ (task[t].dev = d /\ conn[d] # Null => Told(d)')
      BY <1>1, <1>8, <2>1, ClosesTold DEF MoveClose
    <2>3. Null \notin Numbers BY DEF ConstantsOK
    <2>4. \A d \in Devices : Live(d)' => ~Leaving(t, d)
      BY <1>1, <2>1, <2>2, <2>3 DEF Live, Leaving
    <2> QED BY <1>5, <2>2, <2>4, AnsweringNext
  <1> QED BY <1>6, <1>7, <1>8

LEMMA AnswersMove ==
  ASSUME Types, RowsMatch, Answering, NEW t \in Tasks, MoveRow(t) \/ MoveRecheck(t)
  PROVE  Answering'
  <1> USE TypeOKIs DEF Types
  <1>1. /\ UNCHANGED <<line, conn, outbox>>
        /\ \A e \in Devices : e \in overlapped => e \in overlapped'
    BY DEF MoveRow, MoveRecheck, history
  <1>2. /\ Steps(t, Movers, {"idle", "move_recheck", "move_close"})
        /\ task'[t].pc \in {"move_recheck", "move_close"} => SameMove(t)
    BY MovingGoes DEF Steps, Movers
  <1>3. task[t].dev \in Devices /\ task[t].line \in Lines /\ task[t].to \in Lines
    BY <1>2, MovingGoes DEF Steps, Movers
  <1> PICK d \in Devices : d = task[t].dev BY <1>3
  <1>4. \/ UNCHANGED dev
        \/ dev[d] # Null /\ (Reassign(d, task[t].to) \/ Reassign(d, task[t].line))
    BY DEF MoveRow, MoveRecheck, CanReassign
  <1>5. /\ \A e \in Devices : e # d => dev'[e] = dev[e]
        /\ Paired(d)' => Paired(d)
    BY <1>3, <1>4, ReassignKept DEF Paired
  <1>6. \A e \in Devices : e # d => Steady(e) BY <1>1, <1>5, SteadyRow
  <1>7. \A e \in Devices, k \in Lines :
          ~Restores(t, e, k) /\ ~Renumbering(t, k)' /\ (Covered(e, k) => Covered(e, k)')
    <2>1. \A e \in Devices, k \in Lines : ~Restores(t, e, k) /\ ~Renumbering(t, k)'
      BY <1>2 DEF Steps, Movers, Restores, Renumbering
    <2> QED BY <1>1, <1>2, <2>1, KeptCovered
  <1>8. /\ task'[t].pc # "move_row"
        /\ \A e \in Devices : ~Leaving(t, e) /\ (e # d => ~Rechecks(t, e) /\ ~Rechecks(t, e)')
    BY <1>2 DEF Steps, Movers, Leaving, Rechecks, SameMove
  <1>9. ASSUME NEW e \in Devices, e # d, Live(e)' PROVE Accounted(e)'
    BY <1>2, <1>6, <1>7, <1>8, <1>9, KeptByOthers
  <1>10. Live(d)' => Live(d) /\ Accounted(d) BY <1>1, <1>5 DEF Live, Told, Answering
  <1>11. (\E u \in Tasks : Leaving(u, d)) => Accounted(d)'
    BY <1>1, <1>2, <1>8 DEF Accounted, Leaving, Steps
  <1>12. ASSUME NEW m \in Tasks, m # t, Rechecks(m, d), Covered(d, task[m].line)
         PROVE  Accounted(d)'
    <2>1. task'[m] = task[m] /\ task[m].line \in Lines
      BY <1>2, <1>12, MovingGoes DEF Steps, Rechecks
    <2> PICK k \in Lines : k = task[m].line BY <2>1
    <2>2. Covered(d, k)' BY <1>7, <1>12
    <2>3. Rechecks(m, d)' /\ task'[m].line = k BY <1>12, <2>1 DEF Rechecks
    <2> QED BY <2>2, <2>3 DEF Accounted, Covered, Sound, Restores
  <1>13. ASSUME MoveRow(t), Live(d)' PROVE Accounted(d)'
    <2>1. task[t].pc = "move_row" BY <1>13 DEF MoveRow
    <2>2. CASE Stays(d)
      <3>1. task[t].line = dev[d].line /\ Covered(d, task[t].line) BY <2>1, <2>2 DEF Stays
      <3> PICK k \in Lines : k = task[t].line BY <1>3
      <3>2. Covered(d, k)' BY <1>7, <3>1
      <3>3. CASE task'[t].pc = "move_recheck"
        <4>1. Rechecks(t, d)' /\ task'[t].line = k BY <1>2, <3>3 DEF Rechecks, SameMove
        <4> QED BY <3>2, <4>1 DEF Accounted, Covered, Sound, Restores
      <3>4. CASE task'[t].pc # "move_recheck"
        <4>1. UNCHANGED dev
          <5>1. CASE CanReassign(task[t].dev, task[t].to)
            <6>1. task[t] \in Moves BY <2>1, TaskKinds DEF TasksOK
            <6> DEFINE r == [task[t] EXCEPT !.pc = "move_recheck"]
            <6>2. r.pc = "move_recheck" BY <6>1, MoveGoes
            <6> HIDE DEF r
            <6>3. task' = [task EXCEPT ![t] = r] BY <1>13, <5>1 DEF MoveRow, Goto, r
            <6> QED BY <3>4, <6>2, <6>3 DEF TasksOK
          <5> QED BY <1>13, <5>1 DEF MoveRow
        <4>2. \A m \in Tasks : ~Rechecks(m, d)'
          BY <1>2, <2>2, <3>4 DEF Stays, Rechecks, Steps
        <4>3. \A u \in Tasks : task'[u].pc = "move_row" /\ task'[u].dev = d
                                 => task'[u].line = dev'[d].line
          BY <1>2, <1>8, <2>2, <4>1 DEF Stays, Steps
        <4>4. dev'[d].line = k BY <3>1, <4>1
        <4>5. Stays(d)' BY <3>2, <4>2, <4>3, <4>4 DEF Stays, Covered, Sound, Restores
        <4> QED BY <4>5 DEF Accounted
      <3> QED BY <3>3, <3>4
    <2>3. \A m \in Tasks : Rechecks(m, d) => m # t BY <2>1 DEF Rechecks
    <2> QED BY <1>10, <1>11, <1>12, <1>13, <2>2, <2>3 DEF Accounted
  <1>14. ASSUME MoveRecheck(t), Live(d)' PROVE Accounted(d)'
    <2>1. task[t].pc = "move_recheck" /\ Rechecks(t, d)
      BY <1>14 DEF MoveRecheck, Rechecks
    <2>2. CASE task'[t].pc = "move_close"
      BY <1>2, <2>2 DEF Accounted, Leaving, SameMove
    <2>3. CASE task'[t].pc # "move_close"
      <3> DEFINE other == \E u \in Tasks \ {t} : Moving(u, d)
      <3>1. Reassign(d, task[t].line) /\ dev[d] # Null /\ Done(t)
            /\ (other => d \in overlapped')
        <4>1. task[t] \in Moves BY <2>1, TaskKinds DEF TasksOK
        <4> DEFINE r == [task[t] EXCEPT !.pc = "move_close"]
        <4>2. r.pc = "move_close" BY <4>1, MoveGoes
        <4>3. ~Goto(t, r)
          <5> HIDE DEF r
          <5> QED BY <2>3, <4>2 DEF Goto, TasksOK
        <4> QED BY <1>14, <4>3 DEF MoveRecheck, CanReassign
      <3>2. ~other BY <1>14, <3>1 DEF Live
      <3>3. task'[t].pc = "idle" BY <3>1, IdlePc DEF Done, Goto, TasksOK
      <3>4. \A u \in Tasks : ~Moving(u, d)'
        BY <1>2, <3>2, <3>3 DEF Steps, Moving
      <3>5. CASE Covered(d, task[t].line)
        <4> PICK k \in Lines : k = task[t].line BY <1>3
        <4>1. Covered(d, k)' BY <1>7, <3>5
        <4>2. dev'[d].line = k BY <3>1, ReassignKept
        <4>3. Stays(d)'
          BY <3>4, <4>1, <4>2 DEF Stays, Covered, Sound, Restores, Rechecks, Moving
        <4> QED BY <4>3 DEF Accounted
      <3>6. ~Stays(d) BY <2>1 DEF Stays
      <3> QED BY <1>10, <1>11, <1>12, <1>14, <3>5, <3>6 DEF Accounted
    <2> QED BY <2>2, <2>3
  <1> QED BY <1>9, <1>13, <1>14, AnsweringNext

LEMMA AnswersRegister ==
  ASSUME ConstantsOK, Types, RowsMatch, Answering, NEW t \in Tasks, RegisterHub(t)
  PROVE  Answering'
  <1> USE TypeOKIs DEF Types
  <1>1. /\ Steps(t, {"register_hub"}, {"idle"})
        /\ task[t].dev \in Devices /\ task[t].new \in Numbers \cup {"unpaired"}
    BY RegisterGoes
  <1> PICK d \in Devices : d = task[t].dev BY <1>1
  <1>2. /\ UNCHANGED <<line, dev>>
        /\ \A e \in Devices : e # d => /\ conn'[e] = conn[e] /\ outbox'[e] = outbox[e]
                                       /\ (e \in overlapped => e \in overlapped')
    BY DEF RegisterHub, Connections, Outboxes
  <1>3. CalmTasks BY <1>1, CalmStep
  <1>4. ASSUME NEW e \in Devices, e # d, Live(e)' PROVE Accounted(e)'
    BY <1>2, <1>3, <1>4, SteadyRow, AnsweringQuiet
  <1>5. ASSUME Live(d)' PROVE Accounted(d)'
    <2>1. conn'[d] = task[t].new /\ conn'[d] \in Numbers /\ Paired(d)
      BY <1>2, <1>5 DEF Live, RegisterHub, Connections, Paired
    <2>2. "unpaired" \notin Numbers /\ Null \notin Numbers BY DEF ConstantsOK
    <2>3. task[t].new = BoundLineNumber(d) /\ \A u \in Tasks : ~Changing(u)
      BY <1>5, <2>1, <2>2 DEF Live, RegisterHub
    <2>4. dev[d].line \in Lines BY <2>1, LinesUsed
    <2> PICK l \in Lines : l = dev[d].line BY <2>4
    <2>5. line[l] # Null /\ line[l].number = conn'[d]
      BY <2>1, <2>2, <2>3 DEF BoundLineNumber, Paired
    <2>6. \A u \in Tasks : task'[u].pc \notin {"number_update", "number_recheck", "move_row",
                                               "move_recheck"}
      BY <1>1, <2>3 DEF Steps, Changing
    <2>7. \A u \in Tasks : ~Renumbering(u, l)' BY <2>6 DEF Renumbering
    <2>8. dev'[d].line = l BY <1>2
    <2>9. Covered(d, l)' BY <1>2, <2>5, <2>7 DEF Covered, Sound
    <2>10. Stays(d)'
      BY <2>6, <2>8, <2>9 DEF Stays, Covered, Sound, Restores, Rechecks
    <2> QED BY <2>10 DEF Accounted
  <1> QED BY <1>4, <1>5, AnsweringNext

LEMMA AnsweringStep ==
  ASSUME ConstantsOK, Types, RowsMatch, ClaimableIsSilent, Answering, LinesNext
  PROVE  Answering'
  BY AnswersClaim, AnswersQuietly, AnswersRows, AnswersDeleteClose, AnswersNotify,
     AnswersHandsets, AnswersChecks, AnswersUpdate, AnswersRecheck, AnswersRename, AnswersMove,
     AnswersRegister
     DEF LinesNext

-----------------------------------------------------------------------------
(* Together                                                                *)

LEMMA LinesStart ==
  ASSUME ConstantsOK, LinesInit
  PROVE  LinesInv
  <1> PICK P \in FirstPaired :
        LET first(d) == FirstLine[d]
            existing == {first(d) : d \in P}
        IN /\ line = [l \in Lines |-> IF l \in existing
                       THEN [number |-> FirstNumber[l], home |-> FirstHome] ELSE Null]
           /\ dev = [d \in Devices |-> IF d \in P
                      THEN [line |-> first(d), paired |-> TRUE, token |-> 1, code |-> "none"]
                      ELSE Null]
           /\ cfg = [d \in Devices |-> IF d \in P
                      THEN [number |-> FirstNumber[first(d)], token |-> 1]
                      ELSE [number |-> Null, token |-> NoToken]]
           /\ unused = Lines \ existing
    BY DEF LinesInit
  <1> DEFINE existing == {FirstLine[d] : d \in P}
  <1>1. /\ P \subseteq Devices /\ existing \subseteq Lines /\ unused = Lines \ existing
        /\ \A d \in P : FirstLine[d] \in existing
        /\ Null \notin Lines \cup Numbers /\ Null \notin [number : Numbers, home : Homes]
    BY DEF ConstantsOK
  <1>2. \A l \in Lines : IF l \in existing
          THEN line[l] \in [number : Numbers, home : Homes] ELSE line[l] = Null
    BY DEF ConstantsOK
  <1>3. \A d \in Devices : IF d \in P
          THEN /\ dev[d] \in [line : Lines \cup {Null}, paired : BOOLEAN, token : Nat,
                              code : {"none", "fresh", "expired"}]
               /\ dev[d].line = FirstLine[d] /\ dev[d].paired /\ dev[d].token = 1
               /\ cfg[d] \in [number : Numbers \cup {Null}, token : Nat] /\ cfg[d].token = 1
          ELSE dev[d] = Null /\ cfg[d] \in [number : Numbers \cup {Null}, token : Nat]
    BY DEF ConstantsOK, NoToken
  <1>4. line = [l \in Lines |-> line[l]] /\ dev = [d \in Devices |-> dev[d]]
        /\ cfg = [d \in Devices |-> cfg[d]]
    OBVIOUS
  <1> HIDE DEF existing
  <1>5. /\ line \in LineRows /\ dev \in DeviceRows
        /\ cfg \in [Devices -> [number : Numbers \cup {Null}, token : Nat]]
    BY <1>2, <1>3, <1>4 DEF LineRows, DeviceRows
  <1>6. /\ conn = [d \in Devices |-> Null] /\ outbox = [d \in Devices |-> <<>>]
        /\ active = {} /\ rows = {} /\ task = [t \in Tasks |-> Idle]
        /\ minted = 1 /\ spent = 0 /\ faults = 0
        /\ lost = {} /\ overlapped = {} /\ slipped = FALSE
    BY DEF LinesInit
  <1>7. Types
    <2>1. TasksOK BY <1>6, StatesOfTasks DEF TasksOK
    <2>2. MaxRequests \in Nat /\ MaxFaults \in Nat BY BoundsAreNumbers
    <2>3. conn \in Connections /\ outbox \in Outboxes BY <1>6 DEF Connections, Outboxes
    <2>4. unused \subseteq Lines BY <1>1
    <2>5. minted \in Nat /\ spent \in 0..MaxRequests /\ faults \in 0..MaxFaults BY <1>6, <2>2
    <2>6. active \subseteq Numbers \X Numbers /\ rows \subseteq Numbers \X Numbers BY <1>6
    <2>7. lost \subseteq Devices /\ overlapped \subseteq Devices /\ slipped \in BOOLEAN
      BY <1>6
    <2> HIDE DEF LinesTypeOK
    <2>8. LinesTypeOK BY <1>5, <2>3, <2>4, <2>5, <2>6, <2>7, TypeOKIs
    <2> QED BY <2>1, <2>8 DEF Types
  <1>8. \A t \in Tasks : task[t].pc = "idle" BY <1>6, IdlePc
  <1>9. RowsMatch BY <1>1, <1>2, <1>3, <1>8 DEF RowsMatch
  <1>10. OneRegistration BY <1>6, <1>8 DEF OneRegistration, Registers
  <1>11. ClaimableIsSilent BY <1>3 DEF ClaimableIsSilent, Claimable
  <1>12. Answering BY <1>1, <1>6 DEF Answering, Live
  <1>13. TokenTraced
    BY <1>3, <1>6 DEF TokenTraced, Undelivered, Paired
  <1>14. RowsTraced BY <1>6, <1>8 DEF RowsTraced
  <1> QED BY <1>7, <1>9, <1>10, <1>11, <1>12, <1>13, <1>14 DEF LinesInv

LEMMA LinesStep ==
  ASSUME ConstantsOK
  PROVE  LinesInv /\ [LinesNext]_(linesVars) => LinesInv'
  <1> SUFFICES ASSUME LinesInv, [LinesNext]_(linesVars) PROVE LinesInv'
    OBVIOUS
  <1>1. CASE LinesNext
    BY <1>1, TypesStep, MatchStep, OneStep, SilentStep, AnsweringStep, TokenStep, RowsStep
       DEF LinesInv
  <1>2. CASE UNCHANGED linesVars
    <2>1. /\ UNCHANGED <<line, dev, conn, outbox, cfg, active, rows, task>>
          /\ UNCHANGED <<minted, unused, spent, faults, lost, overlapped, slipped>>
      BY <1>2 DEF linesVars
    <2>2. Types' BY <2>1 DEF LinesInv, Types, LinesTypeOK, TasksOK
    <2>3. RowsMatch' /\ OneRegistration' /\ ClaimableIsSilent'
      BY <2>1 DEF LinesInv, RowsMatch, OneRegistration, ClaimableIsSilent, Registers,
                  Claimable
    <2>4. Answering'
      BY <2>1 DEF LinesInv, Answering, Live, Told, Accounted, Leaving, Rechecks, Stays, Covered,
                  Sound, Restores, Renumbering, Paired
    <2>5. TokenTraced' /\ RowsTraced'
      BY <2>1 DEF LinesInv, TokenTraced, RowsTraced, Pending, Carries, Undelivered, Paired,
                  Busy
    <2> QED BY <2>2, <2>3, <2>4, <2>5 DEF LinesInv
  <1> QED BY <1>1, <1>2

LEMMA LinesInvariant ==
  ASSUME ConstantsOK
  PROVE  LinesSpec => []LinesInv
  <1>1. LinesInit => LinesInv BY LinesStart
  <1>2. LinesInv /\ [LinesNext]_(linesVars) => LinesInv' BY LinesStep
  <1> QED BY <1>1, <1>2, PTL DEF LinesSpec

(* Once nothing is under way and nothing is queued for it, a paired        *)
(* handset answers the number of its line, however renumbering, moving,    *)
(* deleting, pairing and registering overlapped, unless it entered the hub *)
(* during a change or a change of its line was given back while another    *)
(* one was under way (handlePhoneNumberPost, handlePhoneConvert, handleWS).*)
THEOREM HandsetAnswersItsLine == LinesSpec => []RegisteredWhereBound
  <1>1. LinesInv => RegisteredWhereBound
    <2> SUFFICES ASSUME LinesInv, NEW d \in Devices, Settled(d), conn[d] \in Numbers,
                        Paired(d), d \notin overlapped
                 PROVE  conn[d] = BoundLineNumber(d)
      BY DEF RegisteredWhereBound
    <2>1. (\A t \in Tasks : task[t].pc = "idle") /\ ~Told(d)
      BY IdlePc DEF Settled, Told
    <2>2. Accounted(d) BY <2>1 DEF LinesInv, Answering, Live
    <2>3. Covered(d, dev[d].line) /\ ~\E u \in Tasks : Restores(u, d, dev[d].line)
      BY <2>1, <2>2 DEF Accounted, Leaving, Rechecks, Stays, Restores
    <2>4. dev[d] # Null /\ dev[d].paired /\ dev[d].line # Null /\ line[dev[d].line] # Null
      BY DEF LinesInv, RowsMatch, Paired
    <2>5. line[dev[d].line].number = conn[d] BY <2>3, <2>4 DEF Covered, Sound
    <2> QED BY <2>4, <2>5 DEF BoundLineNumber
  <1>2. LinesSpec => []LinesInv BY LinesInvariant, LinesAssumption
  <1> QED BY <1>1, <1>2, PTL

(* A handset that is paired in the table holds the token stored there or   *)
(* is about to receive it, unless a pairing or reset message to it was     *)
(* lost or overtaken (handlePhonesPairPost, TypeRepair).                   *)
THEOREM TokenFindsItsHandset == LinesSpec => []TokenReachesDevice
  <1>1. LinesInv => TokenReachesDevice
    BY DEF TokenReachesDevice, LinesInv, TokenTraced, Pending, Carries
  <1>2. LinesSpec => []LinesInv BY LinesInvariant, LinesAssumption
  <1> QED BY <1>1, <1>2, PTL

(* An open row of the call history belongs to a call that is still active: *)
(* the rewriting of old numbers leaves none behind that no hangup can      *)
(* find, unless a call came between the second busy check and the rename   *)
(* or the number could not be given back (RenameNumber).                   *)
THEOREM HistoryFollowsNumbers == LinesSpec => []RowsFollowRename
  <1>1. LinesInv => RowsFollowRename
    BY DEF RowsFollowRename, LinesInv, RowsTraced
  <1>2. LinesSpec => []LinesInv BY LinesInvariant, LinesAssumption
  <1> QED BY <1>1, <1>2, PTL
=============================================================================
