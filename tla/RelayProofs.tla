----------------------------- MODULE RelayProofs -----------------------------
(***************************************************************************)
(* Proofs about Relay, for every number of lines, devices and connections: *)
(* a device that came back keeps its call, and no call is left without a   *)
(* caller, however the read loops and the grace timers overlap.            *)
(* And about ThreeWay, for every number of phones, conferences and         *)
(* messages: no recovery and no mute is forgotten.                         *)
(***************************************************************************)
EXTENDS Relay, RelayThreeWay, SequenceTheorems, TLAPS

(***************************************************************************)
(* The inductive invariant.  A device's connections begin in order, and    *)
(* the hub has the newest until that one unregisters (ConnIsNewest).  A    *)
(* handler still at work, even of an older connection, means that the      *)
(* device is connected and has not been disconnected since                 *)
(* (HandlersConnected).  A call is held by what will end it: a device of   *)
(* its caller that is connected and has still to pass OnDisconnect, an     *)
(* armed timer, or a callback that will find nobody (CallsHeld).           *)
(***************************************************************************)
Receiving == {"registered", "open", "dialing", "pickup"}

ConnIsNewest ==
  \A d \in Devices, e \in Epochs :
    conn[d] = e <=> IsNewest(d, e) /\ loop[d][e].pc \notin {"none", "done"}

EpochsInOrder ==
  \A d \in Devices, e, f \in Epochs : e < f /\ At(d, e, "none") => At(d, f, "none")

HandlersConnected ==
  \A d \in Devices, e \in Epochs :
    Handling(d, e) => conn[d] # 0 /\ loop[d][conn[d]].pc \in Receiving

Holds(d) ==
  Stays(d) \/ timer[d] \/ (firing[d] = "recheck" /\ conn[d] = 0) \/ firing[d] = "end"

Held(n) == \E d \in DevicesOn(n) : Holds(d)

CallsHeld == \A c \in calls : c[1] \in vanished \/ Held(c[1])

SeatsTaken == \A d \in Devices : seated[d] => conn[d] # 0

DialsALine == \A d \in Devices, e \in Epochs : At(d, e, "dialing") => loop[d][e].to \in Lines

IInv ==
  /\ TypeOK /\ ConnIsNewest /\ EpochsInOrder /\ HandlersConnected /\ CallsHeld
  /\ SeatsTaken /\ DialsALine /\ ReconnectKeepsCall

USE LinesAssumption, MaxConnsAssumption
-----------------------------------------------------------------------------
(* One loop moves.                                                         *)

LEMMA EpochTypes ==
  /\ \A e \in Epochs : e \in Nat /\ e # 0 /\ e \in 0 .. MaxConns
  /\ \A n \in 0 .. MaxConns : n # 0 => n \in Epochs
  BY DEF Epochs

LEMMA Moves ==
  ASSUME TypeOK, NEW d \in Devices, NEW e \in Epochs, NEW pc \in LoopPCs,
         NEW line \in Lines \cup {NoLine}, GoWith(d, e, pc, line)
  PROVE  /\ loop' \in [Devices -> [Epochs -> Loop]]
         /\ loop'[d][e].pc = pc /\ loop'[d][e].to = line
         /\ \A x \in Devices, f \in Epochs : x # d \/ f # e => loop'[x][f] = loop[x][f]
  <1> DEFINE r == [pc |-> pc, to |-> line]
             row == [loop[d] EXCEPT ![e] = r]
  <1>1. r \in Loop /\ r.pc = pc /\ r.to = line BY DEF Loop
  <1>2. loop \in [Devices -> [Epochs -> Loop]] BY DEF TypeOK
  <1>3. loop' = [loop EXCEPT ![d] = row] BY <1>2 DEF GoWith
  <1> HIDE DEF r
  <1>4. row \in [Epochs -> Loop] /\ row[e] = r /\ \A f \in Epochs : f # e => row[f] = loop[d][f]
    BY <1>1, <1>2
  <1> HIDE DEF row
  <1>5. loop'[d] = row /\ \A x \in Devices : x # d => loop'[x] = loop[x] BY <1>2, <1>3
  <1>6. loop' \in [Devices -> [Epochs -> Loop]] BY <1>2, <1>3, <1>4
  <1> QED BY <1>1, <1>4, <1>5, <1>6

LEMMA GoIsGoWith ==
  ASSUME NEW d, NEW e, NEW pc, Go(d, e, pc) PROVE GoWith(d, e, pc, NoLine)
  BY DEF Go, GoWith

(* A loop that goes on, neither beginning nor ending.                      *)
LEMMA LoopGoesOn ==
  ASSUME IInv, NEW d \in Devices, NEW e \in Epochs, NEW pc \in LoopPCs \ {"none", "done"},
         NEW line \in Lines \cup {NoLine}, GoWith(d, e, pc, line),
         loop[d][e].pc \notin {"none", "done"},
         pc \in {"registered", "dialing", "pickup"} => conn[d] = e,
         pc \notin Receiving /\ loop[d][e].pc \in Receiving =>
           ~ Handling(d, e) /\ \A f \in Epochs : f < e => ~ Handling(d, f),
         pc = "dialing" => line \in Lines, UNCHANGED conn
  PROVE  /\ loop' \in [Devices -> [Epochs -> Loop]]
         /\ ConnIsNewest' /\ EpochsInOrder' /\ HandlersConnected' /\ DialsALine'
  <1>1. TypeOK BY DEF IInv
  <1>2. /\ loop' \in [Devices -> [Epochs -> Loop]]
        /\ loop'[d][e].pc = pc /\ loop'[d][e].to = line
        /\ \A x \in Devices, f \in Epochs : x # d \/ f # e => loop'[x][f] = loop[x][f]
    BY <1>1, Moves
  <1>3. /\ \A x \in Devices, f \in Epochs : At(x, f, "none")' <=> At(x, f, "none")
        /\ \A x \in Devices, f \in Epochs :
             loop'[x][f].pc \in {"none", "done"} <=> loop[x][f].pc \in {"none", "done"}
    BY <1>2 DEF At
  <1>4. ConnIsNewest'
    <2>1. \A x \in Devices, f \in Epochs : IsNewest(x, f)' <=> IsNewest(x, f)
      BY <1>3 DEF IsNewest
    <2> QED BY <1>3, <2>1 DEF IInv, ConnIsNewest
  <1>5. EpochsInOrder' BY <1>3 DEF IInv, EpochsInOrder
  <1>6. HandlersConnected'
    <2> SUFFICES ASSUME NEW x \in Devices, NEW f \in Epochs, Handling(x, f)'
                 PROVE  conn[x] # 0 /\ loop'[x][conn[x]].pc \in Receiving
      BY DEF HandlersConnected
    <2>1. CASE x # d
      <3>1. Handling(x, f) /\ conn[x] # 0 /\ loop[x][conn[x]].pc \in Receiving
        BY <1>2, <2>1 DEF Handling, IInv, HandlersConnected
      <3>2. conn[x] \in Epochs BY <1>1, <3>1, EpochTypes DEF TypeOK
      <3> QED BY <1>2, <2>1, <3>1, <3>2
    <2>2. CASE x = d /\ f = e
      <3>1. pc \in {"registered", "dialing", "pickup"} BY <1>2, <2>2 DEF Handling
      <3>2. conn[d] = e /\ conn[d] # 0 BY <3>1, EpochTypes
      <3> QED BY <1>2, <2>2, <3>1, <3>2 DEF Receiving
    <2>3. CASE x = d /\ f # e
      <3>1. Handling(d, f) /\ conn[d] # 0 /\ loop[d][conn[d]].pc \in Receiving
        BY <1>2, <2>3 DEF Handling, IInv, HandlersConnected
      <3>2. conn[d] \in Epochs BY <1>1, <3>1, EpochTypes DEF TypeOK
      <3>3. CASE conn[d] # e BY <1>2, <2>3, <3>1, <3>2, <3>3
      <3>4. CASE conn[d] = e
        <4>1. f < e
          <5>1. IsNewest(d, e) BY <3>4 DEF IInv, ConnIsNewest
          <5>2. ~ At(d, f, "none") BY <3>1 DEF Handling, At
          <5>3. ~ (f > e) BY <5>1, <5>2 DEF IsNewest
          <5> QED BY <2>3, <5>3, EpochTypes
        <4>2. pc \in Receiving BY <3>1, <3>4, <4>1
        <4> QED BY <1>2, <2>3, <3>1, <3>4, <4>2
      <3> QED BY <3>3, <3>4
    <2> QED BY <2>1, <2>2, <2>3
  <1>7. DialsALine' BY <1>2 DEF IInv, DialsALine, At
  <1> QED BY <1>2, <1>4, <1>5, <1>6, <1>7

-----------------------------------------------------------------------------
(* What holds a call.                                                      *)

LEMMA StaysOn ==
  ASSUME IInv, NEW d \in Devices, NEW e \in Epochs, NEW pc \in LoopPCs,
         NEW line \in Lines \cup {NoLine}, GoWith(d, e, pc, line),
         pc # "unregister" \/ conn[d] # e, UNCHANGED conn,
         NEW x \in Devices, Stays(x)
  PROVE  Stays(x)'
  <1>1. TypeOK BY DEF IInv
  <1>2. /\ loop'[d][e].pc = pc
        /\ \A y \in Devices, f \in Epochs : y # d \/ f # e => loop'[y][f] = loop[y][f]
    BY <1>1, Moves
  <1>3. conn[x] \in Epochs /\ conn[x] # 0 /\ ~ At(x, conn[x], "unregister")
    BY <1>1, EpochTypes DEF Stays, TypeOK
  <1>4. CASE x = d /\ conn[x] = e BY <1>2, <1>3, <1>4 DEF Stays, At
  <1>5. CASE x # d \/ conn[x] # e BY <1>2, <1>3, <1>5 DEF Stays, At
  <1> QED BY <1>4, <1>5

LEMMA OthersStay ==
  ASSUME IInv, NEW d \in Devices, NEW e \in Epochs, NEW pc \in LoopPCs,
         NEW line \in Lines \cup {NoLine}, GoWith(d, e, pc, line), UNCHANGED conn,
         NEW x \in Devices, x # d, Stays(x)
  PROVE  Stays(x)'
  <1>1. conn[x] \in Epochs BY EpochTypes DEF Stays, IInv, TypeOK
  <1>2. loop'[x][conn[x]] = loop[x][conn[x]] BY <1>1, Moves DEF IInv
  <1> QED BY <1>2 DEF Stays, At

(* Without a step of a loop or of the hub, the loops are as they were.     *)
LEMMA LoopsAtRest ==
  ASSUME IInv, UNCHANGED <<conn, loop>>
  PROVE  ConnIsNewest' /\ EpochsInOrder' /\ HandlersConnected' /\ DialsALine'
  BY DEF IInv, ConnIsNewest, EpochsInOrder, HandlersConnected, DialsALine, IsNewest, At, Handling

(* A loop goes on from the end of its connection.                          *)
LEMMA LoopLeaves ==
  ASSUME IInv, NEW d \in Devices, NEW e \in Epochs, NEW pc \in {"holding", "unregister"},
         GoWith(d, e, pc, NoLine), loop[d][e].pc \in {"current", "arm", "clear"},
         calls' \in SUBSET (Lines \X Lines), ext' \in [Devices -> Lines \cup {NoLine}],
         timer' \in [Devices -> BOOLEAN], vanished' \subseteq Lines, CallsHeld',
         UNCHANGED <<conn, firing, seated>>
  PROVE  IInv'
  <1>1. /\ loop' \in [Devices -> [Epochs -> Loop]]
        /\ ConnIsNewest' /\ EpochsInOrder' /\ HandlersConnected' /\ DialsALine'
    BY LoopGoesOn DEF LoopPCs, Receiving
  <1>2. TypeOK' BY <1>1 DEF IInv, TypeOK
  <1>3. SeatsTaken' /\ ReconnectKeepsCall' BY DEF IInv, SeatsTaken, ReconnectKeepsCall
  <1> QED BY <1>1, <1>2, <1>3 DEF IInv

LEMMA CallsStayHeld ==
  ASSUME CallsHeld, calls' \subseteq calls, vanished \subseteq vanished',
         \A c \in calls' : \A x \in DevicesOn(c[1]) : Holds(x) => Held(c[1])' \/ c[1] \in vanished'
  PROVE  CallsHeld'
  BY DEF CallsHeld, Held

LEMMA ExtensionTypes ==
  ASSUME TypeOK, NEW S, ClearExtensions(S)
  PROVE  ext' \in [Devices -> Lines \cup {NoLine}]
  BY DEF TypeOK, ClearExtensions

(* A loop that goes on and that neither leaves the line nor calls.         *)
LEMMA QuietStep ==
  ASSUME IInv, NEW d \in Devices, NEW e \in Epochs, NEW pc \in LoopPCs \ {"none", "done"},
         NEW line \in Lines \cup {NoLine}, GoWith(d, e, pc, line),
         loop[d][e].pc \notin {"none", "done"},
         pc \in {"registered", "dialing", "pickup"} => conn[d] = e,
         pc \notin Receiving /\ loop[d][e].pc \in Receiving =>
           ~ Handling(d, e) /\ \A f \in Epochs : f < e => ~ Handling(d, f),
         pc # "unregister" \/ conn[d] # e, pc = "dialing" => line \in Lines,
         calls' \subseteq calls, ext' \in [Devices -> Lines \cup {NoLine}],
         UNCHANGED <<conn, timer, firing, seated, vanished>>
  PROVE  IInv'
  <1>1. TypeOK BY DEF IInv
  <1>2. /\ loop' \in [Devices -> [Epochs -> Loop]]
        /\ ConnIsNewest' /\ EpochsInOrder' /\ HandlersConnected' /\ DialsALine'
    BY LoopGoesOn
  <1>3. TypeOK' BY <1>1, <1>2 DEF TypeOK
  <1>4. CallsHeld'
    <2> SUFFICES ASSUME NEW c \in calls', NEW x \in DevicesOn(c[1]), Holds(x) PROVE Held(c[1])'
      BY CallsStayHeld DEF IInv
    <2>1. x \in Devices BY DEF DevicesOn
    <2>2. Stays(x) => Stays(x)' BY <2>1, StaysOn
    <2>3. Holds(x)' BY <2>2 DEF Holds
    <2> QED BY <2>3 DEF Held
  <1>5. SeatsTaken' /\ ReconnectKeepsCall' BY DEF IInv, SeatsTaken, ReconnectKeepsCall
  <1> QED BY <1>2, <1>3, <1>4, <1>5 DEF IInv

(* The newest loop of a device that is at work has the hub's connection.   *)
LEMMA NewestIsConn ==
  ASSUME IInv, NEW d \in Devices, NEW e \in Epochs, IsNewest(d, e),
         loop[d][e].pc \notin {"none", "done"}
  PROVE  conn[d] = e /\ conn[d] # 0
  BY EpochTypes DEF IInv, ConnIsNewest

(* A device whose handler is at work has not left.                         *)
LEMMA HandlerStays ==
  ASSUME IInv, NEW d \in Devices, NEW e \in Epochs, Handling(d, e)
  PROVE  Stays(d)
  BY DEF IInv, HandlersConnected, Stays, At, Receiving

-----------------------------------------------------------------------------
(* The steps of the read loops.                                            *)

LEMMA RegisterInv ==
  ASSUME IInv, NEW d \in Devices, NEW e \in Epochs, HubRegister(d, e)
  PROVE  IInv'
  <1>1. TypeOK BY DEF IInv
  <1>2. /\ At(d, e, "none") /\ \A f \in Epochs : f < e => ~ At(d, f, "none")
        /\ conn' = [conn EXCEPT ![d] = e] /\ GoWith(d, e, "registered", NoLine)
        /\ vanished' = vanished \ {LineOf[d]}
        /\ UNCHANGED <<calls, ext, timer, firing, seated>>
    BY GoIsGoWith DEF HubRegister
  <1>3. /\ loop' \in [Devices -> [Epochs -> Loop]] /\ loop'[d][e].pc = "registered"
        /\ \A x \in Devices, f \in Epochs : x # d \/ f # e => loop'[x][f] = loop[x][f]
    BY <1>1, <1>2, Moves DEF LoopPCs
  <1>4. conn'[d] = e /\ e # 0 /\ e \in 0 .. MaxConns /\ \A x \in Devices : x # d => conn'[x] = conn[x]
    BY <1>1, <1>2, EpochTypes DEF TypeOK
  <1>5. TypeOK' BY <1>1, <1>2, <1>3, <1>4 DEF TypeOK
  <1>6. \A f \in Epochs : f > e => At(d, f, "none")'
    <2> SUFFICES ASSUME NEW f \in Epochs, f > e PROVE At(d, f, "none")' OBVIOUS
    <2>1. f # e /\ e < f BY EpochTypes
    <2>2. At(d, f, "none") BY <1>2, <2>1 DEF IInv, EpochsInOrder
    <2> QED BY <1>3, <2>1, <2>2 DEF At
  <1>7. EpochsInOrder'
    <2> SUFFICES ASSUME NEW x \in Devices, NEW f \in Epochs, NEW g \in Epochs,
                        f < g, At(x, f, "none")'
                 PROVE  At(x, g, "none")'
      BY DEF EpochsInOrder
    <2>1. CASE x = d
      <3>1. f # e BY <1>3, <2>1 DEF At
      <3>2. At(d, f, "none") BY <1>3, <2>1, <3>1 DEF At
      <3>3. ~ (f < e) BY <1>2, <3>2
      <3>4. g > e BY <3>1, <3>3, EpochTypes
      <3> QED BY <1>6, <2>1, <3>4
    <2>2. CASE x # d
      <3>1. At(x, f, "none") BY <1>3, <2>2 DEF At
      <3>2. At(x, g, "none") BY <3>1 DEF IInv, EpochsInOrder
      <3> QED BY <1>3, <2>2, <3>2 DEF At
    <2> QED BY <2>1, <2>2
  <1>8. ConnIsNewest'
    <2> SUFFICES ASSUME NEW x \in Devices, NEW f \in Epochs
                 PROVE  conn'[x] = f <=> IsNewest(x, f)' /\ loop'[x][f].pc \notin {"none", "done"}
      BY DEF ConnIsNewest
    <2>1. CASE x # d
      <3>1. IsNewest(x, f)' <=> IsNewest(x, f) BY <1>3, <2>1 DEF IsNewest, At
      <3> QED BY <1>3, <1>4, <2>1, <3>1 DEF IInv, ConnIsNewest
    <2>2. CASE x = d /\ f = e
      <3>1. IsNewest(d, e)' BY <1>6 DEF IsNewest
      <3> QED BY <1>3, <1>4, <2>2, <3>1
    <2>3. CASE x = d /\ f > e
      <3>1. loop'[d][f].pc = "none" BY <1>6, <2>3 DEF At
      <3> QED BY <1>4, <2>3, <3>1, EpochTypes
    <2>4. CASE x = d /\ f < e
      <3>1. ~ At(d, e, "none")' /\ e > f BY <1>3, <2>4, EpochTypes DEF At
      <3>2. ~ IsNewest(d, f)' BY <3>1 DEF IsNewest
      <3> QED BY <1>4, <2>4, <3>2, EpochTypes
    <2> QED BY <2>1, <2>2, <2>3, <2>4, EpochTypes
  <1>9. HandlersConnected'
    <2> SUFFICES ASSUME NEW x \in Devices, NEW f \in Epochs, Handling(x, f)'
                 PROVE  conn'[x] # 0 /\ loop'[x][conn'[x]].pc \in Receiving
      BY DEF HandlersConnected
    <2>1. CASE x = d BY <1>3, <1>4, <2>1 DEF Receiving
    <2>2. CASE x # d
      <3>1. Handling(x, f) BY <1>3, <2>2 DEF Handling
      <3>2. conn[x] # 0 /\ loop[x][conn[x]].pc \in Receiving BY <3>1 DEF IInv, HandlersConnected
      <3>3. conn[x] \in Epochs BY <1>1, <3>2, EpochTypes DEF TypeOK
      <3> QED BY <1>3, <1>4, <2>2, <3>2, <3>3
    <2> QED BY <2>1, <2>2
  <1>10. CallsHeld'
    <2> SUFFICES ASSUME NEW c \in calls, c[1] \notin vanished' PROVE Held(c[1])'
      BY <1>2 DEF CallsHeld
    <2>1. Stays(d)' BY <1>3, <1>4 DEF Stays, At
    <2>2. CASE c[1] = LineOf[d]
      <3>1. d \in DevicesOn(c[1]) BY <2>2 DEF DevicesOn
      <3> QED BY <2>1, <3>1 DEF Held, Holds
    <2>3. CASE c[1] # LineOf[d]
      <3>1. c[1] \notin vanished BY <1>2, <2>3
      <3>2. PICK x \in DevicesOn(c[1]) : Holds(x) BY <3>1 DEF IInv, CallsHeld, Held
      <3>3. x \in Devices /\ x # d BY <2>3 DEF DevicesOn
      <3>4. Stays(x) => Stays(x)'
        <4> SUFFICES ASSUME Stays(x) PROVE Stays(x)' OBVIOUS
        <4>1. conn[x] \in Epochs /\ conn[x] # 0 /\ loop[x][conn[x]].pc # "unregister"
          BY <1>1, <3>3, EpochTypes DEF Stays, TypeOK, At
        <4>2. conn'[x] = conn[x] /\ loop'[x][conn[x]] = loop[x][conn[x]] BY <1>3, <1>4, <3>3, <4>1
        <4> QED BY <4>1, <4>2 DEF Stays, At
      <3>5. Holds(x)' BY <1>2, <1>4, <3>2, <3>3, <3>4 DEF Holds
      <3> QED BY <3>5 DEF Held
    <2> QED BY <2>2, <2>3
  <1>11. SeatsTaken' BY <1>2, <1>4 DEF IInv, SeatsTaken
  <1>12. DialsALine' BY <1>3 DEF IInv, DialsALine, At
  <1>13. ReconnectKeepsCall' BY <1>2 DEF IInv, ReconnectKeepsCall
  <1> QED BY <1>5, <1>7, <1>8, <1>9, <1>10, <1>11, <1>12, <1>13 DEF IInv

LEMMA OnReconnectInv ==
  ASSUME IInv, NEW d \in Devices, NEW e \in Epochs, OnReconnect(d, e)
  PROVE  IInv'
  <1>1. TypeOK BY DEF IInv
  <1>2. /\ At(d, e, "registered") /\ GoWith(d, e, "open", NoLine)
        /\ timer' = [timer EXCEPT ![d] = FALSE]
        /\ UNCHANGED <<conn, calls, ext, firing, seated, vanished>>
    BY GoIsGoWith DEF OnReconnect
  <1>3. loop[d][e].pc = "registered" /\ Handling(d, e) BY <1>2 DEF At, Handling
  <1>4. /\ loop' \in [Devices -> [Epochs -> Loop]]
        /\ ConnIsNewest' /\ EpochsInOrder' /\ HandlersConnected' /\ DialsALine'
    BY <1>2, <1>3, LoopGoesOn DEF LoopPCs, Receiving
  <1>5. TypeOK' BY <1>1, <1>2, <1>4 DEF TypeOK
  <1>6. CallsHeld'
    <2> SUFFICES ASSUME NEW c \in calls', NEW x \in DevicesOn(c[1]), Holds(x) PROVE Held(c[1])'
      BY <1>2, CallsStayHeld DEF IInv
    <2>1. x \in Devices BY DEF DevicesOn
    <2>2. Stays(x) => Stays(x)' BY <1>2, <2>1, StaysOn DEF LoopPCs
    <2>3. Stays(d) BY <1>3, HandlerStays
    <2>4. Holds(x)' BY <1>1, <1>2, <2>1, <2>2, <2>3 DEF Holds, TypeOK
    <2> QED BY <2>4 DEF Held
  <1>7. SeatsTaken' /\ ReconnectKeepsCall' BY <1>2 DEF IInv, SeatsTaken, ReconnectKeepsCall
  <1> QED BY <1>4, <1>5, <1>6, <1>7 DEF IInv

LEMMA DialCheckInv ==
  ASSUME IInv, NEW d \in Devices, NEW e \in Epochs, NEW to \in Lines,
         DialCheck(d, e, to) \/ PickupCheck(d, e, to)
  PROVE  IInv'
  <1>1. PICK pc \in {"dialing", "pickup"} :
          /\ At(d, e, "open") /\ IsNewest(d, e) /\ GoWith(d, e, pc, to)
          /\ UNCHANGED <<conn, calls, ext, timer, firing, seated, vanished>>
    BY DEF DialCheck, PickupCheck
  <1>2. loop[d][e].pc = "open" BY <1>1 DEF At
  <1>3. conn[d] = e BY <1>1, <1>2, NewestIsConn
  <1>4. ext' \in [Devices -> Lines \cup {NoLine}] BY <1>1 DEF IInv, TypeOK
  <1> QED BY <1>1, <1>2, <1>3, <1>4, QuietStep DEF LoopPCs, Receiving

LEMMA DialInitiateInv ==
  ASSUME IInv, NEW d \in Devices, NEW e \in Epochs, DialInitiate(d, e)
  PROVE  IInv'
  <1> DEFINE call == <<LineOf[d], loop[d][e].to>>
  <1>1. TypeOK BY DEF IInv
  <1>2. /\ At(d, e, "dialing") /\ GoWith(d, e, "open", NoLine) /\ calls' = calls \cup {call}
        /\ UNCHANGED <<conn, ext, timer, firing, seated, vanished>>
    BY GoIsGoWith DEF DialInitiate
  <1>3. loop[d][e].pc = "dialing" /\ Handling(d, e) BY <1>2 DEF At, Handling
  <1>4. /\ loop' \in [Devices -> [Epochs -> Loop]]
        /\ ConnIsNewest' /\ EpochsInOrder' /\ HandlersConnected' /\ DialsALine'
    BY <1>2, <1>3, LoopGoesOn DEF LoopPCs, Receiving
  <1>5. call \in Lines \X Lines
    <2>1. loop[d][e] \in Loop BY <1>1 DEF TypeOK
    <2>2. loop[d][e].to \in Lines BY <1>2 DEF IInv, DialsALine
    <2>3. LineOf[d] \in Lines OBVIOUS
    <2> QED BY <2>2, <2>3
  <1>6. TypeOK' BY <1>1, <1>2, <1>4, <1>5 DEF TypeOK
  <1>7. CallsHeld'
    <2>1. \A x \in Devices : Stays(x) => Stays(x)' BY <1>2, StaysOn DEF LoopPCs
    <2>2. \A x \in Devices : Holds(x) => Holds(x)' BY <1>2, <2>1 DEF Holds
    <2>3. \A n : Held(n) => Held(n)' BY <2>2 DEF Held, DevicesOn
    <2>4. Held(call[1])
      <3>1. d \in DevicesOn(call[1]) BY DEF DevicesOn
      <3>2. Holds(d) BY <1>3, HandlerStays DEF Holds
      <3> QED BY <3>1, <3>2 DEF Held
    <2> HIDE DEF call
    <2> QED BY <1>2, <2>3, <2>4 DEF IInv, CallsHeld
  <1>8. SeatsTaken' /\ ReconnectKeepsCall' BY <1>2 DEF IInv, SeatsTaken, ReconnectKeepsCall
  <1> QED BY <1>4, <1>6, <1>7, <1>8 DEF IInv

LEMMA HangupInv ==
  ASSUME IInv, NEW d \in Devices, NEW e \in Epochs, handleHangup(d, e)
  PROVE  IInv'
  <1>1. /\ calls' \subseteq calls /\ UNCHANGED <<conn, loop, timer, firing, seated, vanished>>
        /\ ext' \in [Devices -> Lines \cup {NoLine}]
    BY ExtensionTypes DEF handleHangup, endActiveCallsAsHangup, IInv, TypeOK
  <1>2. TypeOK' BY <1>1 DEF IInv, TypeOK
  <1>3. CallsHeld'
    <2>1. \A x \in Devices : Holds(x) => Holds(x)' BY <1>1 DEF Holds, Stays, At
    <2> QED BY <1>1, <2>1 DEF IInv, CallsHeld, Held, DevicesOn
  <1>4. SeatsTaken' /\ ReconnectKeepsCall' BY <1>1 DEF IInv, SeatsTaken, ReconnectKeepsCall
  <1> QED BY <1>1, <1>2, <1>3, <1>4, LoopsAtRest DEF IInv

LEMMA PickupStoreInv ==
  ASSUME IInv, NEW d \in Devices, NEW e \in Epochs, PickupStore(d, e)
  PROVE  IInv'
  <1>1. /\ At(d, e, "pickup") /\ GoWith(d, e, "open", NoLine)
        /\ ext' = [ext EXCEPT ![d] = IF @ = NoLine THEN loop[d][e].to ELSE @]
        /\ UNCHANGED <<conn, calls, timer, firing, seated, vanished>>
    BY GoIsGoWith DEF PickupStore
  <1>2. loop[d][e] \in Loop BY DEF IInv, TypeOK
  <1>3. ext' \in [Devices -> Lines \cup {NoLine}] BY <1>1, <1>2 DEF Loop, IInv, TypeOK
  <1>4. loop[d][e].pc = "pickup" BY <1>1 DEF At
  <1> QED BY <1>1, <1>3, <1>4, QuietStep DEF LoopPCs, Receiving

LEMMA SocketClosesInv ==
  ASSUME IInv, NEW d \in Devices, NEW e \in Epochs, SocketCloses(d, e)
  PROVE  IInv'
  <1>1. /\ At(d, e, "open") /\ GoWith(d, e, "closed", NoLine)
        /\ \A f \in Epochs : f < e => ~ Handling(d, f)
        /\ UNCHANGED <<conn, calls, ext, timer, firing, seated, vanished>>
    BY GoIsGoWith DEF SocketCloses
  <1>2. loop[d][e].pc = "open" /\ ~ Handling(d, e) BY <1>1 DEF At, Handling
  <1>3. ext' \in [Devices -> Lines \cup {NoLine}] BY <1>1 DEF IInv, TypeOK
  <1> QED BY <1>1, <1>2, <1>3, QuietStep DEF LoopPCs, Receiving

LEMMA OnConnClosedInv ==
  ASSUME IInv, NEW d \in Devices, NEW e \in Epochs, OnConnClosed(d, e)
  PROVE  IInv'
  <1>1. PICK pc \in {"current", "unregister"} :
          /\ At(d, e, "closed") /\ GoWith(d, e, pc, NoLine)
          /\ pc = "unregister" => conn[d] # e
          /\ UNCHANGED <<conn, calls, ext, timer, firing, seated, vanished>>
    BY GoIsGoWith DEF OnConnClosed
  <1>2. loop[d][e].pc = "closed" BY <1>1 DEF At
  <1>3. ext' \in [Devices -> Lines \cup {NoLine}] BY <1>1 DEF IInv, TypeOK
  <1> QED BY <1>1, <1>2, <1>3, QuietStep DEF LoopPCs, Receiving

LEMMA OnDisconnectPeerInv ==
  ASSUME IInv, NEW d \in Devices, NEW e \in Epochs, OnDisconnectPeer(d, e)
  PROVE  IInv'
  <1>1. PICK pc \in {"arm", "clear"} :
          /\ At(d, e, "holding") /\ GoWith(d, e, pc, NoLine)
          /\ UNCHANGED <<conn, calls, ext, timer, firing, seated, vanished>>
    BY GoIsGoWith DEF OnDisconnectPeer
  <1>2. loop[d][e].pc = "holding" BY <1>1 DEF At
  <1>3. ext' \in [Devices -> Lines \cup {NoLine}] BY <1>1 DEF IInv, TypeOK
  <1> QED BY <1>1, <1>2, <1>3, QuietStep DEF LoopPCs, Receiving

LEMMA startGraceTimerInv ==
  ASSUME IInv, NEW d \in Devices, NEW e \in Epochs, startGraceTimer(d, e)
  PROVE  IInv'
  <1>1. /\ At(d, e, "arm") /\ GoWith(d, e, "unregister", NoLine)
        /\ timer' = [timer EXCEPT ![d] = TRUE]
        /\ UNCHANGED <<conn, calls, ext, firing, seated, vanished>>
    BY GoIsGoWith DEF startGraceTimer
  <1>2. timer'[d] /\ \A x \in Devices : timer[x] => timer'[x] BY <1>1 DEF IInv, TypeOK
  <1>3. \A x \in Devices : Holds(x) => Holds(x)'
    <2> SUFFICES ASSUME NEW x \in Devices, Holds(x) PROVE Holds(x)' OBVIOUS
    <2>1. CASE x = d BY <1>2, <2>1 DEF Holds
    <2>2. CASE x # d
      <3>1. Stays(x) => Stays(x)' BY <1>1, <2>2, OthersStay DEF LoopPCs
      <3> QED BY <1>1, <1>2, <3>1 DEF Holds
    <2> QED BY <2>1, <2>2
  <1>4. timer' \in [Devices -> BOOLEAN] BY <1>1 DEF IInv, TypeOK
  <1>5. loop[d][e].pc = "arm" BY <1>1 DEF At
  <1>6. CallsHeld' BY <1>1, <1>3 DEF IInv, CallsHeld, Held, DevicesOn
  <1> QED BY <1>1, <1>4, <1>5, <1>6, LoopLeaves DEF IInv, TypeOK

LEMMA ClearLineInv ==
  ASSUME IInv, NEW d \in Devices, NEW e \in Epochs, ClearLine(d, e)
  PROVE  IInv'
  <1>1. /\ At(d, e, "clear") /\ GoWith(d, e, "unregister", NoLine)
        /\ calls' = calls \ CallsOf(LineOf[d]) /\ ClearExtensions(ExtensionsOn(LineOf[d]))
        /\ UNCHANGED <<conn, timer, firing, seated, vanished>>
    BY GoIsGoWith DEF ClearLine
  <1>2. \A c \in calls' : c \in calls /\ c[1] # LineOf[d] BY <1>1 DEF CallsOf
  <1>3. ASSUME NEW c \in calls', NEW x \in DevicesOn(c[1]), Holds(x) PROVE Holds(x)'
    <2>1. x \in Devices /\ x # d BY <1>2, <1>3 DEF DevicesOn
    <2>2. Stays(x) => Stays(x)' BY <1>1, <2>1, OthersStay DEF LoopPCs
    <2> QED BY <1>1, <1>3, <2>2 DEF Holds
  <1>4. CallsHeld'
    <2> SUFFICES ASSUME NEW c \in calls', NEW x \in DevicesOn(c[1]), Holds(x) PROVE Held(c[1])'
      BY <1>1, <1>2, CallsStayHeld DEF IInv
    <2> QED BY <1>3 DEF Held, DevicesOn
  <1>5. ext' \in [Devices -> Lines \cup {NoLine}] BY <1>1, ExtensionTypes DEF IInv
  <1>6. loop[d][e].pc = "clear" BY <1>1 DEF At
  <1>7. timer' \in [Devices -> BOOLEAN] /\ calls' \in SUBSET (Lines \X Lines)
    BY <1>1 DEF IInv, TypeOK
  <1> QED BY <1>1, <1>4, <1>5, <1>6, <1>7, LoopLeaves DEF IInv, TypeOK

LEMMA OnDisconnectInv ==
  ASSUME IInv, NEW d \in Devices, NEW e \in Epochs, OnDisconnect(d, e)
  PROVE  IInv'
  <1> DEFINE siblings == ConnectionCount(LineOf[d]) > 1
             staying == \E x \in DevicesOn(LineOf[d]) : Stays(x) /\ <<x, conn[x]>> # <<d, e>>
             pc == IF siblings THEN "unregister" ELSE "holding"
  <1>1. /\ At(d, e, "current") /\ ClearExtensions({d}) /\ GoWith(d, e, pc, NoLine)
        /\ vanished' = IF siblings /\ ~ staying THEN vanished \cup {LineOf[d]} ELSE vanished
        /\ UNCHANGED <<conn, calls, timer, firing, seated>>
    BY GoIsGoWith DEF OnDisconnect
  <1>2. pc \in {"holding", "unregister"} /\ (pc = "unregister" => siblings) OBVIOUS
  <1> HIDE DEF pc, siblings
  <1>3. CallsHeld'
    <2> SUFFICES ASSUME NEW c \in calls', NEW x \in DevicesOn(c[1]), Holds(x)
                 PROVE  Held(c[1])' \/ c[1] \in vanished'
      <3>1. vanished \subseteq vanished' BY <1>1
      <3> QED BY <1>1, <3>1, CallsStayHeld DEF IInv
    <2>1. x \in Devices /\ LineOf[x] = c[1] BY DEF DevicesOn
    <2>2. Holds(x)' => Held(c[1])' BY DEF Held, DevicesOn
    <2>3. (Stays(x) => Stays(x)') => Holds(x)' BY <1>1 DEF Holds
    <2>4. CASE x # d BY <1>1, <1>2, <2>1, <2>2, <2>3, <2>4, OthersStay DEF LoopPCs
    <2>5. CASE pc = "holding" \/ conn[d] # e
      BY <1>1, <1>2, <2>1, <2>2, <2>3, <2>5, StaysOn DEF LoopPCs
    <2>6. CASE x = d /\ pc = "unregister" /\ conn[d] = e /\ staying
      <3>1. PICK y \in DevicesOn(LineOf[d]) : Stays(y) /\ <<y, conn[y]>> # <<d, e>> BY <2>6
      <3>2. y \in Devices /\ y # d /\ LineOf[y] = c[1] BY <2>1, <2>6, <3>1 DEF DevicesOn
      <3>3. Stays(y)' BY <1>1, <1>2, <3>1, <3>2, OthersStay DEF LoopPCs
      <3> QED BY <3>2, <3>3 DEF Held, Holds, DevicesOn
    <2>7. CASE x = d /\ pc = "unregister" /\ ~ staying BY <1>1, <1>2, <2>1, <2>7
    <2> QED BY <1>2, <2>4, <2>5, <2>6, <2>7
  <1>4. ext' \in [Devices -> Lines \cup {NoLine}] BY <1>1, ExtensionTypes DEF IInv
  <1>5. vanished' \subseteq Lines
    <2>1. LineOf[d] \in Lines OBVIOUS
    <2> QED BY <1>1, <2>1 DEF IInv, TypeOK
  <1>6. loop[d][e].pc = "current" BY <1>1 DEF At
  <1>7. timer' \in [Devices -> BOOLEAN] /\ calls' \in SUBSET (Lines \X Lines)
    BY <1>1 DEF IInv, TypeOK
  <1> QED BY <1>1, <1>2, <1>3, <1>4, <1>5, <1>6, <1>7, LoopLeaves

LEMMA UnregisterInv ==
  ASSUME IInv, NEW d \in Devices, NEW e \in Epochs, HubUnregister(d, e)
  PROVE  IInv'
  <1>1. TypeOK BY DEF IInv
  <1>2. /\ At(d, e, "unregister") /\ GoWith(d, e, "done", NoLine)
        /\ conn' = [conn EXCEPT ![d] = IF @ = e THEN 0 ELSE @]
        /\ seated' = [seated EXCEPT ![d] = @ /\ conn[d] # e]
        /\ UNCHANGED <<calls, ext, timer, firing, vanished>>
    BY GoIsGoWith DEF HubUnregister
  <1>3. /\ loop' \in [Devices -> [Epochs -> Loop]] /\ loop'[d][e].pc = "done"
        /\ \A x \in Devices, f \in Epochs : x # d \/ f # e => loop'[x][f] = loop[x][f]
    BY <1>1, <1>2, Moves DEF LoopPCs
  <1>4. /\ conn' \in [Devices -> 0 .. MaxConns]
        /\ conn'[d] = IF conn[d] = e THEN 0 ELSE conn[d]
        /\ \A x \in Devices : x # d => conn'[x] = conn[x]
    BY <1>1, <1>2 DEF TypeOK
  <1>5. /\ seated' \in [Devices -> BOOLEAN] /\ (seated'[d] => seated[d] /\ conn[d] # e)
        /\ \A x \in Devices : x # d => seated'[x] = seated[x]
    BY <1>1, <1>2 DEF TypeOK
  <1>6. TypeOK' BY <1>1, <1>2, <1>3, <1>4, <1>5 DEF TypeOK
  <1>7. loop[d][e].pc = "unregister" BY <1>2 DEF At
  <1>8. \A x \in Devices, f \in Epochs : At(x, f, "none")' <=> At(x, f, "none")
    BY <1>3, <1>7 DEF At
  <1>9. ConnIsNewest'
    <2> SUFFICES ASSUME NEW x \in Devices, NEW f \in Epochs
                 PROVE  conn'[x] = f <=> IsNewest(x, f)' /\ loop'[x][f].pc \notin {"none", "done"}
      BY DEF ConnIsNewest
    <2>1. IsNewest(x, f)' <=> IsNewest(x, f) BY <1>8 DEF IsNewest
    <2>2. conn[x] = f <=> IsNewest(x, f) /\ loop[x][f].pc \notin {"none", "done"}
      BY DEF IInv, ConnIsNewest
    <2>3. CASE x # d BY <1>3, <1>4, <2>1, <2>2, <2>3
    <2>4. CASE x = d /\ f = e BY <1>3, <1>4, <2>4, EpochTypes
    <2>5. CASE x = d /\ f # e BY <1>3, <1>4, <2>1, <2>2, <2>5, EpochTypes
    <2> QED BY <2>3, <2>4, <2>5
  <1>10. EpochsInOrder' BY <1>8 DEF IInv, EpochsInOrder
  <1>11. HandlersConnected'
    <2> SUFFICES ASSUME NEW x \in Devices, NEW f \in Epochs, Handling(x, f)'
                 PROVE  conn'[x] # 0 /\ loop'[x][conn'[x]].pc \in Receiving
      BY DEF HandlersConnected
    <2>1. x # d \/ f # e BY <1>3 DEF Handling
    <2>2. Handling(x, f) BY <1>3, <2>1 DEF Handling
    <2>3. conn[x] # 0 /\ loop[x][conn[x]].pc \in Receiving BY <2>2 DEF IInv, HandlersConnected
    <2>4. conn[x] \in Epochs BY <1>1, <2>3, EpochTypes DEF TypeOK
    <2>5. x # d \/ conn[x] # e BY <1>7, <2>3 DEF Receiving
    <2>6. conn'[x] = conn[x] BY <1>4, <2>5
    <2>7. loop'[x][conn[x]] = loop[x][conn[x]] BY <1>3, <2>4, <2>5
    <2> QED BY <2>3, <2>6, <2>7
  <1>12. CallsHeld'
    <2> SUFFICES ASSUME NEW x \in Devices, Holds(x) PROVE Holds(x)'
      BY <1>2 DEF IInv, CallsHeld, Held, DevicesOn
    <2>1. CASE Stays(x)
      <3>1. conn[x] \in Epochs /\ conn[x] # 0 /\ loop[x][conn[x]].pc # "unregister"
        BY <1>1, <2>1, EpochTypes DEF Stays, TypeOK, At
      <3>2. x # d \/ conn[x] # e BY <1>7, <3>1
      <3>3. conn'[x] = conn[x] /\ loop'[x][conn[x]] = loop[x][conn[x]] BY <1>3, <1>4, <3>1, <3>2
      <3> QED BY <3>1, <3>3 DEF Holds, Stays, At
    <2>2. CASE ~ Stays(x)
      <3>1. conn[x] = 0 => conn'[x] = 0 BY <1>4
      <3> QED BY <1>2, <2>2, <3>1 DEF Holds
    <2> QED BY <2>1, <2>2
  <1>13. SeatsTaken' BY <1>4, <1>5 DEF IInv, SeatsTaken
  <1>14. DialsALine' BY <1>3 DEF IInv, DialsALine, At
  <1>15. ReconnectKeepsCall' BY <1>2, <1>5 DEF IInv, ReconnectKeepsCall
  <1> QED BY <1>6, <1>9, <1>10, <1>11, <1>12, <1>13, <1>14, <1>15 DEF IInv

-----------------------------------------------------------------------------
(* The callback of a grace timer.                                          *)

LEMMA GraceFiresInv ==
  ASSUME IInv, NEW d \in Devices, GraceFires(d)
  PROVE  IInv'
  <1>1. /\ \A e \in Epochs : ~ At(d, e, "unregister")
        /\ timer' = [timer EXCEPT ![d] = FALSE]
        /\ firing' = [firing EXCEPT ![d] = "recheck"]
        /\ seated' = [seated EXCEPT ![d] = conn[d] # 0]
        /\ UNCHANGED <<conn, loop, calls, ext, vanished>>
    BY DEF GraceFires
  <1>2. /\ firing' \in [Devices -> {"none", "recheck", "end"}] /\ firing'[d] = "recheck"
        /\ \A x \in Devices : x # d => firing'[x] = firing[x]
    BY <1>1 DEF IInv, TypeOK
  <1>3. /\ seated' \in [Devices -> BOOLEAN] /\ seated'[d] = (conn[d] # 0)
        /\ \A x \in Devices : x # d => seated'[x] = seated[x]
    BY <1>1 DEF IInv, TypeOK
  <1>4. timer' \in [Devices -> BOOLEAN] /\ \A x \in Devices : x # d => timer'[x] = timer[x]
    BY <1>1 DEF IInv, TypeOK
  <1>5. TypeOK' BY <1>1, <1>2, <1>3, <1>4 DEF IInv, TypeOK
  <1>6. \A x \in Devices : Stays(x)' <=> Stays(x) BY <1>1 DEF Stays, At
  <1>7. Holds(d)'
    <2>1. CASE conn[d] = 0 BY <1>1, <1>2, <2>1 DEF Holds
    <2>2. CASE conn[d] # 0
      <3>1. conn[d] \in Epochs BY <2>2, EpochTypes DEF IInv, TypeOK
      <3>2. Stays(d) BY <1>1, <2>2, <3>1 DEF Stays
      <3> QED BY <1>6, <3>2 DEF Holds
    <2> QED BY <2>1, <2>2
  <1>8. CallsHeld'
    <2>1. \A x \in Devices : Holds(x) => Holds(x)' BY <1>1, <1>2, <1>4, <1>6, <1>7 DEF Holds
    <2> QED BY <1>1, <2>1 DEF IInv, CallsHeld, Held, DevicesOn
  <1>9. SeatsTaken' BY <1>1, <1>3 DEF IInv, SeatsTaken
  <1>10. ReconnectKeepsCall' BY <1>2, <1>3 DEF IInv, ReconnectKeepsCall
  <1> QED BY <1>1, <1>5, <1>8, <1>9, <1>10, LoopsAtRest DEF IInv

LEMMA GraceRecheckInv ==
  ASSUME IInv, NEW d \in Devices, GraceRecheck(d)
  PROVE  IInv'
  <1>1. /\ firing[d] = "recheck"
        /\ firing' = [firing EXCEPT ![d] = IF conn[d] # 0 THEN "none" ELSE "end"]
        /\ UNCHANGED <<conn, loop, calls, ext, timer, seated, vanished>>
    BY DEF GraceRecheck, HardwareOnlineOnLine
  <1>2. /\ firing' \in [Devices -> {"none", "recheck", "end"}]
        /\ firing'[d] = IF conn[d] # 0 THEN "none" ELSE "end"
        /\ \A x \in Devices : x # d => firing'[x] = firing[x]
    BY <1>1 DEF IInv, TypeOK
  <1>3. TypeOK' BY <1>1, <1>2 DEF IInv, TypeOK
  <1>4. CallsHeld'
    <2>1. \A x \in Devices : Stays(x)' <=> Stays(x) BY <1>1 DEF Stays, At
    <2>2. \A x \in Devices : Holds(x) => Holds(x)' BY <1>1, <1>2, <2>1 DEF Holds
    <2> QED BY <1>1, <2>2 DEF IInv, CallsHeld, Held, DevicesOn
  <1>5. SeatsTaken' BY <1>1 DEF IInv, SeatsTaken
  <1>6. ReconnectKeepsCall' BY <1>1, <1>2 DEF IInv, ReconnectKeepsCall, SeatsTaken
  <1> QED BY <1>1, <1>3, <1>4, <1>5, <1>6, LoopsAtRest DEF IInv

LEMMA GraceEndsInv ==
  ASSUME IInv, NEW d \in Devices, GraceEnds(d)
  PROVE  IInv'
  <1>1. /\ firing' = [firing EXCEPT ![d] = "none"]
        /\ calls' = calls \ CallsOf(LineOf[d])
        /\ ext' \in [Devices -> Lines \cup {NoLine}]
        /\ UNCHANGED <<conn, loop, timer, seated, vanished>>
    BY ExtensionTypes DEF GraceEnds, endActiveCallsAsHangup, IInv, TypeOK
  <1>2. /\ firing' \in [Devices -> {"none", "recheck", "end"}] /\ firing'[d] = "none"
        /\ \A x \in Devices : x # d => firing'[x] = firing[x]
    BY <1>1 DEF IInv, TypeOK
  <1>3. TypeOK' BY <1>1, <1>2 DEF IInv, TypeOK
  <1>4. CallsHeld'
    <2>1. \A c \in calls' : c \in calls /\ c[1] # LineOf[d] BY <1>1 DEF CallsOf
    <2> SUFFICES ASSUME NEW c \in calls', NEW x \in DevicesOn(c[1]), Holds(x) PROVE Held(c[1])'
      BY <1>1, <2>1, CallsStayHeld DEF IInv
    <2>2. x \in Devices /\ x # d BY <2>1 DEF DevicesOn
    <2>3. Stays(x) => Stays(x)' BY <1>1 DEF Stays, At
    <2>4. Holds(x)' BY <1>1, <1>2, <2>2, <2>3 DEF Holds
    <2> QED BY <2>4 DEF Held, DevicesOn
  <1>5. SeatsTaken' BY <1>1 DEF IInv, SeatsTaken
  <1>6. ReconnectKeepsCall' BY <1>1, <1>2 DEF IInv, ReconnectKeepsCall
  <1> QED BY <1>1, <1>3, <1>4, <1>5, <1>6, LoopsAtRest DEF IInv

-----------------------------------------------------------------------------
(* The theorems.                                                           *)

LEMMA InitInv == Init => IInv
  <1> SUFFICES ASSUME Init PROVE IInv OBVIOUS
  <1>1. \A d \in Devices : conn[d] = 0 /\ ~ timer[d] /\ firing[d] = "none" /\ ~ seated[d]
    BY DEF Init
  <1>2. \A d \in Devices, e \in Epochs : loop[d][e].pc = "none" BY DEF Init
  <1>3. calls = {} BY DEF Init
  <1>4. TypeOK
    <2>1. loop \in [Devices -> [Epochs -> Loop]]
      <3>1. [pc |-> "none", to |-> NoLine] \in Loop BY DEF Loop, LoopPCs
      <3> QED BY <3>1 DEF Init
    <2> QED BY <2>1 DEF Init, TypeOK
  <1>5. ConnIsNewest BY <1>1, <1>2, EpochTypes DEF ConnIsNewest
  <1>6. EpochsInOrder BY <1>2 DEF EpochsInOrder, At
  <1>7. HandlersConnected BY <1>2 DEF HandlersConnected, Handling
  <1>8. CallsHeld BY <1>3 DEF CallsHeld
  <1>9. SeatsTaken /\ ReconnectKeepsCall BY <1>1 DEF SeatsTaken, ReconnectKeepsCall
  <1>10. DialsALine BY <1>2 DEF DialsALine, At
  <1> QED BY <1>4, <1>5, <1>6, <1>7, <1>8, <1>9, <1>10 DEF IInv

LEMMA StutterInv == IInv /\ UNCHANGED vars => IInv'
  <1> SUFFICES ASSUME IInv, UNCHANGED vars PROVE IInv' OBVIOUS
  <1>1. UNCHANGED <<conn, loop, calls, ext, timer, firing, seated, vanished>> BY DEF vars
  <1>2. TypeOK' BY <1>1 DEF IInv, TypeOK
  <1>3. CallsHeld'
    <2>1. \A x \in Devices : Holds(x) => Holds(x)' BY <1>1 DEF Holds, Stays, At
    <2> QED BY <1>1, <2>1 DEF IInv, CallsHeld, Held, DevicesOn
  <1>4. SeatsTaken' /\ ReconnectKeepsCall' BY <1>1 DEF IInv, SeatsTaken, ReconnectKeepsCall
  <1> QED BY <1>1, <1>2, <1>3, <1>4, LoopsAtRest DEF IInv

LEMMA Inductive == IInv /\ [Next]_vars => IInv'
  <1> SUFFICES ASSUME IInv, Next PROVE IInv' BY StutterInv
  <1>1. PICK d \in Devices :
          (\E e \in Epochs : Environment(d, e) \/ LoopStep(d, e)) \/ GraceStep(d)
    BY DEF Next
  <1>2. ASSUME NEW e \in Epochs, Environment(d, e) PROVE IInv'
    BY <1>2, RegisterInv, SocketClosesInv, DialCheckInv, HangupInv DEF Environment
  <1>3. ASSUME NEW e \in Epochs, LoopStep(d, e) PROVE IInv'
    BY <1>3, OnReconnectInv, DialInitiateInv, PickupStoreInv, OnConnClosedInv, OnDisconnectInv,
       OnDisconnectPeerInv, startGraceTimerInv, ClearLineInv, UnregisterInv DEF LoopStep
  <1>4. CASE GraceStep(d) BY <1>4, GraceFiresInv, GraceRecheckInv, GraceEndsInv DEF GraceStep
  <1> QED BY <1>1, <1>2, <1>3, <1>4

THEOREM Invariance == Spec => []IInv
  BY InitInv, Inductive, PTL DEF Spec

(* Every variable has its type: the hub's connection of a device is one    *)
(* that the device made (Hub.Register, Hub.Unregister).                    *)
THEOREM TypeCorrect == Spec => []TypeOK
  <1>1. IInv => TypeOK BY DEF IInv
  <1> QED BY <1>1, Invariance, PTL

(* A grace callback that ends the call never belongs to a device that came *)
(* back before its timer fired and stayed (the fire-time recheck).         *)
THEOREM ReconnectKept == Spec => []ReconnectKeepsCall
  <1>1. IInv => ReconnectKeepsCall BY DEF IInv
  <1> QED BY <1>1, Invariance, PTL

(* Once a line has settled, a call it placed is gone or the line is online,*)
(* whatever the order in which its devices left and came back.             *)
THEOREM NoOrphans == Spec => []NoOrphanCall
  <1>1. ASSUME IInv PROVE NoOrphanCall
    <2> SUFFICES ASSUME NEW c \in calls, Settled(c[1]), c[1] \notin vanished PROVE IsOnline(c[1])
      BY DEF NoOrphanCall
    <2>1. PICK x \in DevicesOn(c[1]) : Holds(x) BY <1>1 DEF IInv, CallsHeld, Held
    <2>2. ~ timer[x] /\ firing[x] = "none" BY DEF Settled
    <2>3. Stays(x) BY <2>1, <2>2 DEF Holds
    <2> QED BY <2>1, <2>3 DEF IsOnline, Stays
  <1> QED BY <1>1, Invariance, PTL

-----------------------------------------------------------------------------
(* Three-way calling: the daemons of ThreeWay, whichever of their sockets, *)
(* timers and messages the relay serves or loses.                          *)

Nobody == T!Nobody
Parties == Phones \cup {Nobody}
Peers == [sig : {"none", "offering", "stable", "crossed"}, sid : Nat, muted : BOOLEAN]
Links == {"new", "connected", "disconnected", "failed"}
Waits == [kind : {"dial"}, number : Phones] \cup [kind : {"intercept", "hangup"}, number : {Nobody}]
MessageTypes == {"call", "answer", "hangup", "sdp", "restart", "merge"}
Messages == [type : MessageTypes, peer : Parties, other : Parties, conf : Nat, sid : Nat,
             flag : BOOLEAN]
Daemons ==
  [state : T!States, held : Parties, adding : Parties, confID : Nat, isHost : BOOLEAN,
   callPeer : Parties, pm : Peers, isCaller : BOOLEAN, link : Links, caller : Parties,
   offer : Nat, restarting : BOOLEAN, timer : BOOLEAN, debounce : BOOLEAN, deadline : Nat,
   hasMesh : BOOLEAN, mesh : [Phones -> Peers], tasks : SUBSET Waits, out : Seq(Messages)]

(* What the server sends names the phone that rings, describes itself,     *)
(* joins or leaves.                                                        *)
LetterTypes == {"ring", "answer", "hangup", "busy", "error", "sdp", "restart", "member",
                "connect", "leave", "end", "rejected"}
Letters ==
  {m \in [type : LetterTypes, peer : Parties, other : Parties, conf : Nat, sid : Nat,
          flag : BOOLEAN] :
     m.type \in {"ring", "sdp", "connect", "leave"} => m.peer \in Phones}

(***************************************************************************)
(* The inductive invariant of a daemon.  A two-party peer belongs to the   *)
(* connected party, or to the one that is being added (Placed).  At most   *)
(* one dialled add is on its way, and in ADD_CALLING it is the current one *)
(* (Delayed), so that whatever leaves an add tears that peer down.  A      *)
(* recovery has its timer or has asked for the hang-up, which in every     *)
(* state with a peer takes the peer (Timed).  A mute is the held party's,  *)
(* in the mesh, during its add (Muted).                                    *)
(***************************************************************************)
HangupTask == [kind |-> "hangup", number |-> Nobody]
Placed(c) ==
  T!Exists(c.pm) =>
    /\ c.callPeer # Nobody
    /\ \/ c.state = "CONNECTED"
       \/ c.state \in {"ADD_CALLING", "ADD_PRIVATE"} /\ c.callPeer = c.adding
Offered(c) == c.offer # 0 => c.caller # Nobody
Delayed(c) ==
  \A t \in c.tasks : t.kind \in T!Delays =>
    /\ \A u \in c.tasks : u.kind \in T!Delays => u = t
    /\ c.state = "ADD_CALLING" => /\ ~ T!Exists(c.pm)
                                  /\ t.kind = "dial" => t.number = c.adding
Timed(c) == c.restarting /\ T!Exists(c.pm) => c.timer \/ HangupTask \in c.tasks
Muted(c) ==
  /\ ~ c.pm.muted
  /\ \A q \in Phones :
       /\ T!Exists(c.mesh[q]) => c.hasMesh
       /\ c.mesh[q].muted => T!Exists(c.mesh[q]) /\ c.state \in T!AddStates /\ c.held = q
Good(c) == c \in Daemons /\ Placed(c) /\ Offered(c) /\ Delayed(c) /\ Timed(c) /\ Muted(c)

(* A message that is sent changes nothing else of the daemon.              *)
Fields(c) == <<c.state, c.held, c.adding, c.confID, c.isHost, c.callPeer, c.pm, c.isCaller,
               c.link, c.caller, c.offer, c.restarting, c.timer, c.debounce, c.deadline,
               c.hasMesh, c.mesh, c.tasks>>

LEMMA SendGood ==
  ASSUME NEW c, Good(c), NEW m \in Messages
  PROVE  Good(T!Send(c, m)) /\ Fields(T!Send(c, m)) = Fields(c)
  <1> DEFINE r == T!Send(c, m)
  <1>1. c \in Daemons BY DEF Good
  <1> DEFINE s == Append(c.out, m)
  <1>a. s \in Seq(Messages) BY <1>1 DEF Daemons
  <1> HIDE DEF s
  <1>b. r = [c EXCEPT !.out = s] BY <1>1 DEF T!Send, Daemons, s
  <1>2. r \in Daemons
    <2>1. [c EXCEPT !.out = s] \in Daemons BY <1>1, <1>a DEF Daemons
    <2> QED BY <1>b, <2>1
  <1>c. Fields(r) = Fields(c)
    <2>1. Fields([c EXCEPT !.out = s]) = Fields(c) BY <1>1 DEF Daemons, Fields
    <2> QED BY <1>b, <2>1
  <1> HIDE DEF r
  <1>3. Placed(r) /\ Offered(r) /\ Delayed(r) /\ Timed(r) /\ Muted(r)
    BY <1>c DEF Good, Fields, Placed, Offered, Delayed, Timed, Muted
  <1> QED BY <1>2, <1>c, <1>3 DEF Good, r

LEMMA PeerStates ==
  /\ T!NoPeer \in Peers /\ ~ T!Exists(T!NoPeer) /\ ~ T!NoPeer.muted
  /\ \A sid \in Nat : /\ T!Offering(sid) \in Peers /\ ~ T!Offering(sid).muted
                      /\ T!Accepted(sid) \in Peers /\ ~ T!Accepted(sid).muted
                      /\ T!Exists(T!Offering(sid)) /\ T!Exists(T!Accepted(sid))
  BY DEF T!NoPeer, T!Exists, T!Offering, T!Accepted, Peers

LEMMA MessagesSent ==
  ASSUME NEW type \in MessageTypes, NEW q \in Parties
  PROVE  T!Msg(type, q) \in Messages
  BY DEF T!Msg, Messages, Parties, Nobody, T!Nobody

LEMMA AnswerTaken ==
  ASSUME NEW a \in Peers, NEW sid \in Nat
  PROVE  /\ T!SetAnswer(a, sid) \in Peers
         /\ T!SetAnswer(a, sid).muted = a.muted
         /\ T!Exists(T!SetAnswer(a, sid)) <=> T!Exists(a)
  BY DEF T!SetAnswer, T!Exists, Peers

(* The mesh.  Rest is what these operations leave alone.                   *)
Rest(c) == <<c.state, c.held, c.adding, c.confID, c.isHost, c.isCaller, c.link, c.caller,
             c.offer, c.restarting, c.timer, c.debounce, c.deadline, c.tasks>>
MeshOK(c) == \A q \in Phones : /\ T!Exists(c.mesh[q]) => c.hasMesh
                               /\ c.mesh[q].muted => T!Exists(c.mesh[q])

LEMMA PeerTornDown ==
  ASSUME NEW c \in Daemons, NEW q \in Parties
  PROVE  LET r == T!TearDownPeer(c, q) IN
           /\ r \in Daemons /\ Rest(r) = Rest(c) /\ r.hasMesh = c.hasMesh
           /\ \/ r.pm = c.pm /\ r.callPeer = c.callPeer /\ ~ (T!Exists(c.pm) /\ c.callPeer = q)
              \/ r.pm = T!NoPeer
           /\ \A x \in Phones : r.mesh[x] = T!NoPeer \/ r.mesh[x] = c.mesh[x]
  <1> DEFINE c1 == IF T!Exists(c.pm) /\ c.callPeer = q
                     THEN [c EXCEPT !.pm = T!NoPeer, !.callPeer = T!Nobody] ELSE c
             r == IF q \in Phones THEN T!RemoveMeshPeer(c1, q) ELSE c1
  <1>1. /\ c1 \in Daemons /\ Rest(c1) = Rest(c)
        /\ c1.hasMesh = c.hasMesh /\ c1.mesh = c.mesh
        /\ \/ c1.pm = c.pm /\ c1.callPeer = c.callPeer /\ ~ (T!Exists(c.pm) /\ c.callPeer = q)
           \/ c1.pm = T!NoPeer
    <2>1. CASE T!Exists(c.pm) /\ c.callPeer = q
      <3> DEFINE n == T!NoPeer
                 e == [c EXCEPT !.pm = n, !.callPeer = T!Nobody]
      <3>1. n \in Peers /\ T!Nobody \in Parties BY PeerStates DEF Parties, Nobody
      <3> HIDE DEF n
      <3>2. e \in Daemons /\ Rest(e) = Rest(c) /\ e.hasMesh = c.hasMesh /\ e.mesh = c.mesh
            /\ e.pm = n
        BY <3>1 DEF Daemons, Rest
      <3>3. c1 = e BY <2>1 DEF n
      <3> HIDE DEF e, c1
      <3> QED BY <3>2, <3>3 DEF n
    <2>2. CASE ~ (T!Exists(c.pm) /\ c.callPeer = q)
      <3>1. c1 = c BY <2>2
      <3> HIDE DEF c1
      <3> QED BY <2>2, <3>1
    <2> QED BY <2>1, <2>2
  <1> HIDE DEF c1
  <1>2. /\ r \in Daemons /\ Rest(r) = Rest(c1) /\ r.hasMesh = c1.hasMesh
        /\ r.pm = c1.pm /\ r.callPeer = c1.callPeer
        /\ \A x \in Phones : r.mesh[x] = T!NoPeer \/ r.mesh[x] = c1.mesh[x]
    <2>1. CASE q \notin Phones BY <2>1, <1>1
    <2>2. CASE q \in Phones
      <3> DEFINE f == [c1.mesh EXCEPT ![q] = T!NoPeer]
      <3>1. /\ f \in [Phones -> Peers]
            /\ \A x \in Phones : f[x] = T!NoPeer \/ f[x] = c1.mesh[x]
        BY <1>1, PeerStates DEF Daemons
      <3>2. r = [c1 EXCEPT !.mesh = f] BY <2>2, <1>1 DEF T!RemoveMeshPeer, Daemons
      <3> HIDE DEF f, r
      <3> QED BY <1>1, <3>1, <3>2 DEF Daemons, Rest
    <2> QED BY <2>1, <2>2
  <1>3. T!TearDownPeer(c, q) = r BY DEF T!TearDownPeer, c1
  <1> HIDE DEF r
  <1> QED BY <1>1, <1>2, <1>3

LEMMA Migrated ==
  ASSUME NEW c \in Daemons, NEW q \in Phones
  PROVE  LET r == T!MigrateToMesh(c, q) IN
           /\ r \in Daemons /\ Rest(r) = Rest(c) /\ r.callPeer = c.callPeer
           /\ r.pm = T!NoPeer \/ (r.pm = c.pm /\ ~ (T!Exists(c.pm) /\ c.callPeer = q))
           /\ MeshOK(c) /\ ~ c.pm.muted =>
                MeshOK(r) /\ \A x \in Phones : r.mesh[x].muted => c.mesh[x].muted
  <1> DEFINE a == IF T!Exists(c.mesh[q]) THEN c.mesh[q] ELSE c.pm
             f == [c.mesh EXCEPT ![q] = a]
             r == T!MigrateToMesh(c, q)
  <1>1. CASE ~ T!Exists(c.pm) \/ c.callPeer # q BY <1>1 DEF T!MigrateToMesh, Rest
  <1>2. CASE T!Exists(c.pm) /\ c.callPeer = q
    <2>1. /\ f \in [Phones -> Peers] /\ f[q] = a
          /\ \A x \in Phones : x # q => f[x] = c.mesh[x]
      BY DEF Daemons
    <2>2. r = [c EXCEPT !.hasMesh = TRUE, !.pm = T!NoPeer, !.mesh = f]
      BY <1>2 DEF T!MigrateToMesh, Daemons
    <2> HIDE DEF f, r
    <2>3. /\ r \in Daemons /\ Rest(r) = Rest(c) /\ r.callPeer = c.callPeer
          /\ r.pm = T!NoPeer /\ r.hasMesh /\ r.mesh = f
      BY <2>1, <2>2, PeerStates DEF Daemons, Rest
    <2>4. MeshOK(c) /\ ~ c.pm.muted =>
                MeshOK(r) /\ \A x \in Phones : r.mesh[x].muted => c.mesh[x].muted
      BY <2>1, <2>3, <1>2 DEF MeshOK
    <2> QED BY <2>3, <2>4 DEF r
  <1> QED BY <1>1, <1>2

LEMMA MuteSet ==
  ASSUME NEW c \in Daemons, NEW q \in Phones, NEW b \in BOOLEAN,
         MeshOK(c), ~ c.pm.muted, b => ~ T!Exists(c.pm)
  PROVE  LET r == T!SetPeerMuted(c, q, b) IN
           /\ r \in Daemons /\ Rest(r) = Rest(c) /\ r.callPeer = c.callPeer
           /\ MeshOK(r) /\ ~ r.pm.muted /\ (T!Exists(r.pm) <=> T!Exists(c.pm))
           /\ \A x \in Phones : x # q /\ r.mesh[x].muted => c.mesh[x].muted
           /\ r.mesh[q].muted => b
  <1> DEFINE r == T!SetPeerMuted(c, q, b)
  <1>1. CASE c.hasMesh /\ T!Exists(c.mesh[q])
    <2> DEFINE a == [c.mesh[q] EXCEPT !.muted = b]
               f == [c.mesh EXCEPT ![q] = a]
    <2>1. c.mesh[q] \in Peers BY DEF Daemons
    <2>2. a \in Peers /\ T!Exists(a) /\ a.muted = b BY <1>1, <2>1 DEF T!Exists, Peers
    <2>3. r = [c EXCEPT !.mesh = f] BY <1>1 DEF T!SetPeerMuted, Daemons
    <2> HIDE DEF a
    <2>4. /\ f \in [Phones -> Peers] /\ f[q] = a
          /\ \A x \in Phones : x # q => f[x] = c.mesh[x]
      BY <2>2 DEF Daemons
    <2> HIDE DEF f, r
    <2>5. /\ r \in Daemons /\ Rest(r) = Rest(c) /\ r.callPeer = c.callPeer
          /\ r.pm = c.pm /\ r.hasMesh = c.hasMesh /\ r.mesh = f
      BY <2>3, <2>4 DEF Daemons, Rest
    <2> QED BY <1>1, <2>2, <2>4, <2>5 DEF MeshOK, r
  <1>2. CASE ~ (c.hasMesh /\ T!Exists(c.mesh[q])) /\ T!Exists(c.pm) /\ c.callPeer = q
    <2> DEFINE a == [c.pm EXCEPT !.muted = b]
    <2>1. b = FALSE BY <1>2
    <2>2. a \in Peers /\ T!Exists(a) /\ ~ a.muted BY <1>2, <2>1 DEF T!Exists, Peers, Daemons
    <2>3. r = [c EXCEPT !.pm = a] BY <1>2 DEF T!SetPeerMuted, Daemons
    <2> HIDE DEF a, r
    <2>4. /\ r \in Daemons /\ Rest(r) = Rest(c) /\ r.callPeer = c.callPeer
          /\ r.pm = a /\ r.hasMesh = c.hasMesh /\ r.mesh = c.mesh
      BY <2>2, <2>3 DEF Daemons, Rest
    <2>5. ~ c.mesh[q].muted BY <1>2 DEF MeshOK
    <2> QED BY <1>2, <2>2, <2>4, <2>5 DEF MeshOK, r
  <1>3. CASE ~ (c.hasMesh /\ T!Exists(c.mesh[q])) /\ ~ (T!Exists(c.pm) /\ c.callPeer = q)
    <2>1. r = c BY <1>3 DEF T!SetPeerMuted
    <2>2. ~ c.mesh[q].muted BY <1>3 DEF MeshOK
    <2> HIDE DEF r
    <2> QED BY <2>1, <2>2 DEF Rest, r
  <1> QED BY <1>1, <1>2, <1>3

-----------------------------------------------------------------------------
(* The handlers.  Most of them leave the daemon without a two-party peer.  *)

Quieted(c) == c \in Daemons /\ Offered(c) /\ Delayed(c)

LEMMA PeerlessGood ==
  ASSUME NEW c, Quieted(c), NEW r \in Daemons,
         ~ T!Exists(r.pm), ~ r.pm.muted, Offered(r), r.tasks = c.tasks,
         r.state = "ADD_CALLING" => c.state = "ADD_CALLING" /\ r.adding = c.adding,
         MeshOK(r),
         \A q \in Phones : r.mesh[q].muted => r.state \in T!AddStates /\ r.held = q
  PROVE  Good(r)
  BY DEF Good, Quieted, Placed, Offered, Delayed, Timed, Muted, MeshOK

LEMMA GoodIs ==
  ASSUME NEW c, Good(c)
  PROVE  /\ c \in Daemons /\ Quieted(c) /\ MeshOK(c) /\ ~ c.pm.muted
         /\ \A q \in Phones : c.mesh[q].muted => c.state \in T!AddStates /\ c.held = q
         /\ Placed(c) /\ Offered(c) /\ Delayed(c) /\ Timed(c)
  BY DEF Good, Quieted, MeshOK, Muted

NoCall(r) ==
  /\ r.pm = T!NoPeer /\ r.callPeer = Nobody /\ r.offer = 0 /\ r.caller = Nobody
  /\ r.restarting = FALSE /\ r.mesh = T!NoMesh
Flow(c) == <<c.state, c.held, c.adding, c.confID, c.isHost, c.tasks>>

LEMMA HungUp ==
  ASSUME NEW c \in Daemons, NEW timeout \in BOOLEAN
  PROVE  LET r == T!HangupCall(c, timeout)
         IN  r \in Daemons /\ NoCall(r) /\ Flow(r) = Flow(c)
  <1> DEFINE m == [T!Msg("hangup", c.callPeer) EXCEPT !.flag = timeout]
             d == [c EXCEPT !.offer = 0, !.caller = T!Nobody, !.callPeer = T!Nobody,
                            !.isCaller = FALSE, !.restarting = FALSE, !.timer = FALSE,
                            !.debounce = FALSE, !.deadline = 0, !.pm = T!NoPeer,
                            !.hasMesh = FALSE, !.mesh = T!NoMesh]
             s == Append(d.out, m)
  <1>1. m \in Messages
    <2>1. T!Msg("hangup", c.callPeer) \in Messages BY MessagesSent DEF Daemons, MessageTypes
    <2> QED BY <2>1 DEF Messages
  <1> HIDE DEF m
  <1>2. T!NoMesh \in [Phones -> Peers] BY PeerStates DEF T!NoMesh
  <1>3. d \in Daemons /\ NoCall(d) /\ Flow(d) = Flow(c)
    BY <1>2, PeerStates DEF Daemons, NoCall, Flow, Parties, Nobody
  <1> HIDE DEF d
  <1>4. s \in Seq(Messages) BY <1>1, <1>3 DEF Daemons
  <1> HIDE DEF s
  <1>5. [d EXCEPT !.out = s] \in Daemons
        /\ NoCall([d EXCEPT !.out = s]) /\ Flow([d EXCEPT !.out = s]) = Flow(d)
    BY <1>3, <1>4 DEF Daemons, NoCall, Flow
  <1>6. T!HangupCall(c, timeout) = [d EXCEPT !.out = s]
    BY <1>3 DEF T!HangupCall, T!Send, Daemons, d, m, s
  <1> QED BY <1>3, <1>5, <1>6

(* After a hang-up the daemon may take any state but that of a new add.    *)
LEMMA HungUpGood ==
  ASSUME NEW c, Quieted(c), NEW r \in Daemons, NoCall(r), r.tasks = c.tasks,
         r.state = "ADD_CALLING" => c.state = "ADD_CALLING" /\ r.adding = c.adding
  PROVE  Good(r)
  <1>1. \A q \in Phones : r.mesh[q] = T!NoPeer BY DEF NoCall, T!NoMesh
  <1>2. ~ T!Exists(r.pm) /\ ~ r.pm.muted /\ MeshOK(r) /\ Offered(r)
        /\ \A q \in Phones : ~ r.mesh[q].muted
    BY <1>1, PeerStates DEF NoCall, MeshOK, Offered
  <1> QED BY <1>2, PeerlessGood

(* The handset is cradled.                                                 *)
LEMMA CradleGood ==
  ASSUME NEW c, Good(c)
  PROVE  Good(T!OnHookOn(c))
  <1> DEFINE b == IF T!InConferenceFlow(c) THEN T!TearDownAllMeshPeers(c) ELSE c
             d == [b EXCEPT !.state = "IDLE", !.held = T!Nobody, !.adding = T!Nobody,
                            !.confID = 0, !.isHost = FALSE]
             r == T!HangupCall(d, FALSE)
  <1>1. T!NoMesh \in [Phones -> Peers] BY PeerStates DEF T!NoMesh
  <1>2. /\ b \in Daemons /\ b.tasks = c.tasks /\ b.pm = c.pm
        /\ b.offer = c.offer /\ b.caller = c.caller /\ b.hasMesh = c.hasMesh
        /\ b.mesh = IF T!InConferenceFlow(c) THEN T!NoMesh ELSE c.mesh
    BY <1>1, GoodIs DEF T!TearDownAllMeshPeers, Daemons
  <1> HIDE DEF b
  <1>3. /\ d \in Daemons /\ d.state = "IDLE" /\ d.tasks = c.tasks /\ d.pm = c.pm
        /\ d.offer = c.offer /\ d.caller = c.caller /\ d.hasMesh = c.hasMesh
        /\ d.mesh = IF T!InConferenceFlow(c) THEN T!NoMesh ELSE c.mesh
    BY <1>2 DEF Daemons, T!States, Parties, Nobody
  <1>4. T!OnHookOn(c) = IF c.state = "IDLE" THEN c
                        ELSE IF c.state = "CONNECTED" \/ T!InConferenceFlow(c) THEN r ELSE d
    BY DEF T!OnHookOn, b
  <1> HIDE DEF d
  <1>5. Good(r)
    <2>1. r \in Daemons /\ NoCall(r) /\ r.tasks = c.tasks /\ r.state = "IDLE"
      BY <1>3, HungUp DEF Flow
    <2> HIDE DEF r
    <2> QED BY <2>1, GoodIs, HungUpGood
  <1>6. CASE c.state # "CONNECTED" /\ ~ T!InConferenceFlow(c)
    <2>1. c.state \notin T!AddStates BY <1>6 DEF T!InConferenceFlow
    <2>2. ~ T!Exists(c.pm) BY <1>6, <2>1, GoodIs DEF Placed, T!AddStates
    <2>3. MeshOK(d) /\ (\A q \in Phones : ~ d.mesh[q].muted) /\ ~ d.pm.muted /\ Offered(d)
      BY <1>3, <1>6, <2>1, GoodIs DEF MeshOK, Offered
    <2>4. Good(d) BY <1>3, <2>2, <2>3, GoodIs, PeerlessGood
    <2> QED BY <1>4, <1>6, <2>4
  <1> QED BY <1>4, <1>5, <1>6

(* The handset is lifted: the two-party peer is the caller's.              *)
LEMMA AnswerGood ==
  ASSUME NEW c, Good(c), c.state = "CONNECTED", ~ T!Exists(c.pm)
  PROVE  Good(T!AnswerCall(c))
  <1> DEFINE m == [T!Msg("answer", c.caller) EXCEPT !.sid = c.offer]
             r == [c EXCEPT !.callPeer = c.caller, !.pm = T!Accepted(c.offer), !.isCaller = FALSE,
                      !.link = "new", !.restarting = FALSE, !.offer = 0, !.caller = T!Nobody,
                      !.deadline = c.offer]
  <1> SUFFICES ASSUME c.offer # 0 PROVE Good(T!Send(r, m)) BY DEF T!AnswerCall
  <1>1. c \in Daemons /\ c.caller # Nobody BY GoodIs DEF Offered
  <1>2. m \in Messages
    <2>1. T!Msg("answer", c.caller) \in Messages BY <1>1, MessagesSent DEF Daemons, MessageTypes
    <2> QED BY <1>1, <2>1 DEF Messages, Daemons
  <1> HIDE DEF m
  <1>3. T!Accepted(c.offer) \in Peers /\ ~ T!Accepted(c.offer).muted
    BY <1>1, PeerStates DEF Daemons
  <1>4. /\ r \in Daemons /\ r.callPeer = c.caller /\ r.pm = T!Accepted(c.offer)
        /\ r.restarting = FALSE /\ r.offer = 0 /\ r.state = "CONNECTED" /\ r.tasks = c.tasks
        /\ r.mesh = c.mesh /\ r.hasMesh = c.hasMesh
    BY <1>1, <1>3 DEF Daemons, Links, Parties, Nobody
  <1> HIDE DEF r
  <1>5. Placed(r) /\ Offered(r) /\ Timed(r) BY <1>1, <1>4 DEF Placed, Offered, Timed
  <1>6. Delayed(r) BY <1>4, GoodIs DEF Delayed
  <1>7. Muted(r) BY <1>3, <1>4, GoodIs DEF Muted, MeshOK, T!AddStates
  <1> QED BY <1>2, <1>4, <1>5, <1>6, <1>7, SendGood DEF Good

LEMMA LiftGood ==
  ASSUME NEW c, Good(c)
  PROVE  Good(T!OnHookOff(c))
  <1> DEFINE r(s) == [c EXCEPT !.state = s]
  <1>1. ASSUME NEW s \in {"DIALTONE", "CONNECTED"}, c.state \in {"IDLE", "RINGING"}
        PROVE  Good(r(s)) /\ r(s).state = s /\ ~ T!Exists(r(s).pm)
    <2>1. c.state \notin T!AddStates /\ ~ T!Exists(c.pm)
      BY <1>1, GoodIs DEF Placed, T!AddStates
    <2>a. c \in Daemons BY GoodIs
    <2>b. s \in T!States BY <1>1 DEF T!States
    <2>2. /\ r(s) \in Daemons /\ r(s).state = s /\ r(s).pm = c.pm /\ r(s).tasks = c.tasks
          /\ r(s).mesh = c.mesh /\ r(s).hasMesh = c.hasMesh
          /\ r(s).offer = c.offer /\ r(s).caller = c.caller
      BY <2>a, <2>b DEF Daemons
    <2> DEFINE d == r(s)
    <2> HIDE DEF r
    <2>3. MeshOK(d) /\ (\A q \in Phones : ~ d.mesh[q].muted) /\ ~ d.pm.muted /\ Offered(d)
      BY <2>1, <2>2, GoodIs DEF MeshOK, Offered
    <2> QED BY <1>1, <2>1, <2>2, <2>3, GoodIs, PeerlessGood
  <1>2. CASE c.state = "IDLE" BY <1>1, <1>2 DEF T!OnHookOff
  <1>3. CASE c.state = "RINGING" BY <1>1, <1>3, AnswerGood DEF T!OnHookOff
  <1> QED BY <1>2, <1>3 DEF T!OnHookOff

(* A flash in a call: the party on the line goes into the mesh, muted.     *)
LEMMA EnterGood ==
  ASSUME NEW c, Good(c), c.state = "CONNECTED"
  PROVE  Good(T!EnterAddDialtone(c, T!CurrentPeer(c)))
  <1> DEFINE a == T!CurrentPeer(c)
             c1 == [c EXCEPT !.held = a, !.state = "ADD_DIALTONE"]
             d == T!MigrateToMesh(c1, a)
             r == T!SetPeerMuted(d, a, TRUE)
  <1>1. c \in Daemons BY GoodIs
  <1>2. a \in Parties /\ (T!Exists(c.pm) => a = c.callPeer /\ a # Nobody)
    <2>1. c.callPeer \in Parties /\ (T!Exists(c.pm) => c.callPeer # Nobody)
      BY <1>1, GoodIs DEF Daemons, Placed
    <2>2. CASE c.callPeer # Nobody BY <2>1, <2>2 DEF T!CurrentPeer, Nobody
    <2>3. CASE c.callPeer = Nobody
      BY <2>1, <2>3 DEF T!CurrentPeer, Nobody, Parties
    <2> QED BY <2>2, <2>3
  <1> HIDE DEF a
  <1>3. /\ c1 \in Daemons /\ c1.state = "ADD_DIALTONE" /\ c1.held = a /\ c1.pm = c.pm
        /\ c1.callPeer = c.callPeer /\ c1.tasks = c.tasks /\ c1.offer = c.offer
        /\ c1.caller = c.caller /\ c1.mesh = c.mesh /\ c1.hasMesh = c.hasMesh
    BY <1>1, <1>2 DEF Daemons, T!States, T!AddStates
  <1> HIDE DEF c1
  <1>4. MeshOK(c1) /\ ~ c1.pm.muted /\ (\A q \in Phones : ~ c1.mesh[q].muted) /\ Offered(c1)
    BY <1>3, GoodIs DEF MeshOK, Offered, T!AddStates
  <1>5. CASE a = Nobody
    <2>1. Good(c1) BY <1>2, <1>3, <1>4, <1>5, GoodIs, PeerlessGood
    <2> QED BY <1>5, <2>1 DEF T!EnterAddDialtone, c1, a, Nobody
  <1>6. CASE a \in Phones /\ a # Nobody
    <2>1. /\ d \in Daemons /\ Rest(d) = Rest(c1) /\ ~ T!Exists(d.pm) /\ ~ d.pm.muted
          /\ MeshOK(d) /\ \A q \in Phones : ~ d.mesh[q].muted
      BY <1>2, <1>3, <1>4, <1>6, Migrated, PeerStates
    <2> HIDE DEF d
    <2>a. r = T!SetPeerMuted(d, a, TRUE) OBVIOUS
    <2> HIDE DEF r
    <2>2. /\ r \in Daemons /\ Rest(r) = Rest(d) /\ ~ T!Exists(r.pm) /\ ~ r.pm.muted
          /\ MeshOK(r) /\ \A q \in Phones : r.mesh[q].muted => q = a
      BY <2>1, <2>a, <1>6, MuteSet
    <2>3. /\ r.state = "ADD_DIALTONE" /\ r.held = a /\ r.tasks = c.tasks
          /\ r.offer = c.offer /\ r.caller = c.caller
      BY <1>3, <2>1, <2>2 DEF Rest
    <2>4. Offered(r) BY <2>3, GoodIs DEF Offered
    <2>5. Good(r) BY <2>2, <2>3, <2>4, GoodIs, PeerlessGood DEF T!AddStates
    <2> QED BY <1>6, <2>5 DEF T!EnterAddDialtone, c1, d, r, a, Nobody
  <1> QED BY <1>2, <1>5, <1>6 DEF Parties

(* The added party's connection is closed and the held one is heard again. *)
AddUndone(c) ==
  LET c1 == IF c.adding = Nobody THEN c ELSE T!TearDownPeer(c, c.adding)
  IN  IF c.held = Nobody THEN c1 ELSE T!SetPeerMuted(c1, c.held, FALSE)

LEMMA AddLeft ==
  ASSUME Nobody \notin Phones, NEW c, Good(c), c.state # "CONNECTED"
  PROVE  LET r == AddUndone(c) IN
           /\ r \in Daemons /\ Rest(r) = Rest(c) /\ ~ T!Exists(r.pm) /\ ~ r.pm.muted
           /\ MeshOK(r) /\ \A q \in Phones : ~ r.mesh[q].muted
  <1> DEFINE c1 == IF c.adding = Nobody THEN c ELSE T!TearDownPeer(c, c.adding)
             r == IF c.held = Nobody THEN c1 ELSE T!SetPeerMuted(c1, c.held, FALSE)
  <1>1. c \in Daemons /\ c.adding \in Parties /\ c.held \in Parties BY GoodIs DEF Daemons
  <1>2. T!Exists(c.pm) => c.callPeer = c.adding /\ c.adding # Nobody BY GoodIs DEF Placed
  <1>3. /\ c1 \in Daemons /\ Rest(c1) = Rest(c) /\ ~ T!Exists(c1.pm) /\ ~ c1.pm.muted
        /\ MeshOK(c1) /\ \A q \in Phones : c1.mesh[q].muted => q = c.held
    <2>1. CASE c.adding = Nobody BY <1>1, <1>2, <2>1, GoodIs
    <2>2. CASE c.adding # Nobody
      <3> DEFINE e == T!TearDownPeer(c, c.adding)
      <3>1. /\ e \in Daemons /\ Rest(e) = Rest(c) /\ e.hasMesh = c.hasMesh
            /\ (e.pm = c.pm /\ ~ (T!Exists(c.pm) /\ c.callPeer = c.adding)) \/ e.pm = T!NoPeer
            /\ \A x \in Phones : e.mesh[x] = T!NoPeer \/ e.mesh[x] = c.mesh[x]
        BY <1>1, PeerTornDown
      <3>2. c1 = e BY <2>2
      <3> HIDE DEF e, c1
      <3>3. ~ T!Exists(e.pm) /\ ~ e.pm.muted BY <3>1, <1>2, GoodIs, PeerStates
      <3>4. MeshOK(e) /\ \A q \in Phones : e.mesh[q].muted => q = c.held
        BY <3>1, GoodIs, PeerStates DEF MeshOK
      <3> QED BY <3>1, <3>2, <3>3, <3>4
    <2> QED BY <2>1, <2>2
  <1> HIDE DEF c1
  <1>4. /\ r \in Daemons /\ Rest(r) = Rest(c1) /\ ~ T!Exists(r.pm) /\ ~ r.pm.muted
        /\ MeshOK(r) /\ \A q \in Phones : ~ r.mesh[q].muted
    <2>1. CASE c.held = Nobody BY <1>1, <1>3, <2>1
    <2>2. CASE c.held # Nobody
      <3>1. c.held \in Phones BY <1>1, <2>2 DEF Parties
      <3>2. r = T!SetPeerMuted(c1, c.held, FALSE) BY <2>2
      <3> HIDE DEF r
      <3> QED BY <1>3, <3>1, <3>2, MuteSet
    <2> QED BY <2>1, <2>2
  <1> HIDE DEF r
  <1> QED BY <1>3, <1>4 DEF AddUndone, r, c1

LEMMA AbortGood ==
  ASSUME Nobody \notin Phones, NEW c, Good(c), c.state # "CONNECTED"
  PROVE  Good(T!AbortAdd(c))
  <1> DEFINE d == AddUndone(c)
             r == [d EXCEPT !.adding = T!Nobody, !.held = T!Nobody, !.state = "CONNECTED"]
  <1>1. /\ d \in Daemons /\ Rest(d) = Rest(c) /\ ~ T!Exists(d.pm) /\ ~ d.pm.muted
        /\ MeshOK(d) /\ \A q \in Phones : ~ d.mesh[q].muted
    BY AddLeft
  <1>2. T!AbortAdd(c) = r BY DEF T!AbortAdd, AddUndone, Nobody
  <1> HIDE DEF d
  <1>3. /\ r \in Daemons /\ r.state = "CONNECTED" /\ r.pm = d.pm /\ r.tasks = d.tasks
        /\ r.mesh = d.mesh /\ r.hasMesh = d.hasMesh /\ r.offer = d.offer /\ r.caller = d.caller
    BY <1>1 DEF Daemons, T!States, Parties, Nobody
  <1> HIDE DEF r
  <1>4. r.tasks = c.tasks /\ r.offer = c.offer /\ r.caller = c.caller BY <1>1, <1>3 DEF Rest
  <1>5. MeshOK(r) /\ Offered(r) /\ \A q \in Phones : ~ r.mesh[q].muted
    BY <1>1, <1>3, <1>4, GoodIs DEF MeshOK, Offered
  <1> QED BY <1>1, <1>2, <1>3, <1>4, <1>5, GoodIs, PeerlessGood

LEMMA MergeGood ==
  ASSUME Nobody \notin Phones, NEW c, Good(c), c.state = "ADD_PRIVATE"
  PROVE  Good(T!RequestMerge(c))
  <1> DEFINE c1 == IF c.held = Nobody THEN c ELSE T!SetPeerMuted(c, c.held, FALSE)
             c2 == IF c.adding = Nobody THEN c1 ELSE T!MigrateToMesh(c1, c.adding)
             r == [c2 EXCEPT !.state = "CONFERENCE_MERGED"]
             m == [T!Msg("merge", c.held) EXCEPT !.other = c.adding]
  <1>1. c \in Daemons /\ c.adding \in Parties /\ c.held \in Parties BY GoodIs DEF Daemons
  <1>2. T!Exists(c.pm) => c.callPeer = c.adding /\ c.adding # Nobody BY GoodIs DEF Placed
  <1>3. /\ c1 \in Daemons /\ Rest(c1) = Rest(c) /\ c1.callPeer = c.callPeer
        /\ (T!Exists(c1.pm) <=> T!Exists(c.pm)) /\ ~ c1.pm.muted
        /\ MeshOK(c1) /\ \A q \in Phones : ~ c1.mesh[q].muted
    <2>1. CASE c.held = Nobody BY <1>1, <2>1, GoodIs
    <2>2. CASE c.held # Nobody
      <3> DEFINE b == FALSE
                 e == T!SetPeerMuted(c, c.held, b)
      <3>1. c.held \in Phones BY <1>1, <2>2 DEF Parties
      <3>a. MeshOK(c) /\ ~ c.pm.muted /\ b \in BOOLEAN /\ ~ b BY GoodIs
      <3> HIDE DEF b
      <3>2. /\ e \in Daemons /\ Rest(e) = Rest(c) /\ e.callPeer = c.callPeer
            /\ MeshOK(e) /\ ~ e.pm.muted /\ (T!Exists(e.pm) <=> T!Exists(c.pm))
            /\ \A x \in Phones : x # c.held /\ e.mesh[x].muted => c.mesh[x].muted
            /\ ~ e.mesh[c.held].muted
        BY <1>1, <3>1, <3>a, MuteSet
      <3>3. c1 = e BY <2>2 DEF b
      <3> HIDE DEF e, c1
      <3> QED BY <3>1, <3>2, <3>3, GoodIs
    <2> QED BY <2>1, <2>2
  <1> HIDE DEF c1
  <1>4. /\ c2 \in Daemons /\ Rest(c2) = Rest(c1) /\ ~ T!Exists(c2.pm) /\ ~ c2.pm.muted
        /\ MeshOK(c2) /\ \A q \in Phones : ~ c2.mesh[q].muted
    <2>1. CASE c.adding = Nobody BY <1>2, <1>3, <2>1
    <2>2. CASE c.adding # Nobody
      <3> DEFINE e == T!MigrateToMesh(c1, c.adding)
      <3>1. c.adding \in Phones BY <1>1, <2>2 DEF Parties
      <3>2. /\ e \in Daemons /\ Rest(e) = Rest(c1)
            /\ e.pm = T!NoPeer \/ (e.pm = c1.pm /\ ~ (T!Exists(c1.pm) /\ c1.callPeer = c.adding))
            /\ MeshOK(e) /\ \A x \in Phones : e.mesh[x].muted => c1.mesh[x].muted
        BY <1>3, <3>1, Migrated
      <3>3. c2 = e BY <2>2
      <3> HIDE DEF e, c2
      <3> QED BY <1>2, <1>3, <3>2, <3>3, PeerStates
    <2> QED BY <2>1, <2>2
  <1> HIDE DEF c2
  <1>5. /\ r \in Daemons /\ r.state = "CONFERENCE_MERGED" /\ r.pm = c2.pm /\ r.tasks = c2.tasks
        /\ r.mesh = c2.mesh /\ r.hasMesh = c2.hasMesh /\ r.offer = c2.offer
        /\ r.caller = c2.caller
    BY <1>4 DEF Daemons, T!States
  <1> HIDE DEF r
  <1>6. r.tasks = c.tasks /\ r.offer = c.offer /\ r.caller = c.caller
    BY <1>3, <1>4, <1>5 DEF Rest
  <1>7. MeshOK(r) /\ Offered(r) /\ \A q \in Phones : ~ r.mesh[q].muted
    BY <1>4, <1>5, <1>6, GoodIs DEF MeshOK, Offered
  <1>8. Good(r) BY <1>4, <1>5, <1>6, <1>7, GoodIs, PeerlessGood
  <1>9. m \in Messages
    <2>1. T!Msg("merge", c.held) \in Messages BY <1>1, MessagesSent DEF MessageTypes
    <2> QED BY <1>1, <2>1 DEF Messages
  <1>10. T!RequestMerge(c) = T!Send(r, m) BY DEF T!RequestMerge, r, m, c2, c1, Nobody
  <1> HIDE DEF m
  <1> QED BY <1>8, <1>9, <1>10, SendGood

LEMMA FlashGood ==
  ASSUME Nobody \notin Phones, NEW c, Good(c)
  PROVE  Good(T!OnHookFlash(c))
  BY EnterGood, MergeGood, AbortGood DEF T!OnHookFlash, T!AddStates

LEMMA RejectedGood ==
  ASSUME Nobody \notin Phones, NEW c, Good(c)
  PROVE  Good(T!HandleConferenceRejected(c))
  <1> DEFINE d == AddUndone(c)
             r == [d EXCEPT !.adding = T!Nobody, !.held = T!Nobody, !.state = "CONNECTED",
                      !.confID = 0, !.isHost = FALSE]
  <1> SUFFICES ASSUME c.state = "CONFERENCE_MERGED" PROVE Good(r)
    BY DEF T!HandleConferenceRejected, AddUndone, Nobody
  <1>1. /\ d \in Daemons /\ Rest(d) = Rest(c) /\ ~ T!Exists(d.pm) /\ ~ d.pm.muted
        /\ MeshOK(d) /\ \A q \in Phones : ~ d.mesh[q].muted
    BY AddLeft
  <1> HIDE DEF d
  <1>3. /\ r \in Daemons /\ r.state = "CONNECTED" /\ r.pm = d.pm /\ r.tasks = d.tasks
        /\ r.mesh = d.mesh /\ r.hasMesh = d.hasMesh /\ r.offer = d.offer /\ r.caller = d.caller
    BY <1>1 DEF Daemons, T!States, Parties, Nobody
  <1> HIDE DEF r
  <1>4. r.tasks = c.tasks /\ r.offer = c.offer /\ r.caller = c.caller BY <1>1, <1>3 DEF Rest
  <1>5. MeshOK(r) /\ Offered(r) /\ \A q \in Phones : ~ r.mesh[q].muted
    BY <1>1, <1>3, <1>4, GoodIs DEF MeshOK, Offered
  <1> QED BY <1>1, <1>3, <1>4, <1>5, GoodIs, PeerlessGood

(* The goroutines.                                                         *)
LEMMA DialGood ==
  ASSUME NEW c, Good(c), c.state = "ADD_DIALTONE", NEW number \in Phones,
         \A t \in c.tasks : t.kind \notin T!Delays
  PROVE  Good(T!DialThirdParty(c, number))
  <1> DEFINE t == [kind |-> "dial", number |-> number]
             w == c.tasks \cup {t}
             r == [c EXCEPT !.adding = number, !.state = "ADD_CALLING", !.tasks = w]
  <1>1. c \in Daemons /\ c.tasks \in SUBSET Waits BY GoodIs DEF Daemons
  <1>2. t \in Waits BY DEF Waits
  <1>3. w \in SUBSET Waits /\ t.kind = "dial" /\ t.number = number BY <1>1, <1>2
  <1>4. T!DialThirdParty(c, number) = r BY <1>1 DEF T!DialThirdParty, T!Spawn, Daemons
  <1> HIDE DEF t, w
  <1>5. /\ r \in Daemons /\ r.state = "ADD_CALLING" /\ r.adding = number /\ r.tasks = w
        /\ r.pm = c.pm /\ r.held = c.held /\ r.mesh = c.mesh /\ r.hasMesh = c.hasMesh
        /\ r.offer = c.offer /\ r.caller = c.caller
    BY <1>1, <1>3 DEF Daemons, T!States, T!AddStates, Parties
  <1> HIDE DEF r
  <1>6. ~ T!Exists(c.pm) BY GoodIs DEF Placed
  <1>7. Delayed(r)
    <2>1. \A u \in w : u.kind \in T!Delays => u = t BY DEF w
    <2> QED BY <1>3, <1>5, <1>6, <2>1 DEF Delayed
  <1>8. Muted(r) BY <1>5, GoodIs DEF Muted, MeshOK, T!AddStates
  <1> QED BY <1>4, <1>5, <1>6, <1>7, <1>8, GoodIs DEF Good, Placed, Offered, Timed

(* A goroutine that ends, unless it was the one asked for the hang-up.     *)
LEMMA TasksGood ==
  ASSUME NEW c, Good(c), NEW w \in SUBSET c.tasks,
         HangupTask \in c.tasks => HangupTask \in w
  PROVE  LET r == [c EXCEPT !.tasks = w] IN
           /\ Good(r) /\ r.tasks = w /\ r.state = c.state /\ r.pm = c.pm /\ r.held = c.held
           /\ r.adding = c.adding
  <1> DEFINE r == [c EXCEPT !.tasks = w]
  <1>1. c \in Daemons BY GoodIs
  <1>2. /\ r \in Daemons /\ r.tasks = w /\ r.state = c.state /\ r.pm = c.pm
        /\ r.callPeer = c.callPeer /\ r.adding = c.adding /\ r.offer = c.offer
        /\ r.caller = c.caller /\ r.restarting = c.restarting /\ r.timer = c.timer
        /\ r.held = c.held /\ r.mesh = c.mesh /\ r.hasMesh = c.hasMesh
    BY <1>1 DEF Daemons
  <1> HIDE DEF r
  <1>3. Delayed(r) BY <1>2, GoodIs DEF Delayed
  <1>4. Muted(r) BY <1>2, GoodIs DEF Muted, MeshOK
  <1>5. Placed(r) /\ Offered(r) /\ Timed(r) BY <1>2, GoodIs DEF Placed, Offered, Timed
  <1>6. Good(r) BY <1>2, <1>3, <1>4, <1>5 DEF Good
  <1> QED BY <1>2, <1>6 DEF r

LEMMA FailureGood ==
  ASSUME NEW c, Good(c), ~ T!Exists(c.pm), \A t \in c.tasks : t.kind \notin T!Delays
  PROVE  Good(T!Spawn(c, "intercept", Nobody))
  <1> DEFINE t == [kind |-> "intercept", number |-> Nobody]
             w == c.tasks \cup {t}
             r == [c EXCEPT !.tasks = w]
  <1>1. c \in Daemons /\ c.tasks \in SUBSET Waits BY GoodIs DEF Daemons
  <1>2. t \in Waits BY DEF Waits
  <1>3. w \in SUBSET Waits /\ t.kind = "intercept" BY <1>1, <1>2
  <1>4. T!Spawn(c, "intercept", Nobody) = r BY <1>1 DEF T!Spawn, Daemons
  <1> HIDE DEF t, w
  <1>5. /\ r \in Daemons /\ r.state = c.state /\ r.tasks = w
        /\ r.pm = c.pm /\ r.held = c.held /\ r.mesh = c.mesh /\ r.hasMesh = c.hasMesh
        /\ r.offer = c.offer /\ r.caller = c.caller
    BY <1>1, <1>3 DEF Daemons
  <1> HIDE DEF r
  <1>6. Delayed(r)
    <2>1. \A u \in w : u.kind \in T!Delays => u = t BY DEF w
    <2> QED BY <1>3, <1>5, <2>1 DEF Delayed
  <1>7. Muted(r) BY <1>5, GoodIs DEF Muted, MeshOK
  <1> QED BY <1>4, <1>5, <1>6, <1>7, GoodIs DEF Good, Placed, Offered, Timed

(* The call to the added party, and one that fails as it is placed.        *)
LEMMA CallPlacedGood ==
  ASSUME Nobody \notin Phones, NEW c, Good(c), c.state = "ADD_CALLING",
         \A t \in c.tasks : t.kind \notin T!Delays,
         NEW number \in Phones, c.adding = number, NEW sid \in Nat
  PROVE  Good(T!InitiateCall(c, number, sid))
  <1> DEFINE r == [c EXCEPT !.callPeer = number, !.pm = T!Offering(sid), !.isCaller = TRUE,
                            !.link = "new", !.restarting = FALSE]
             m == T!Msg("call", number)
             n == [T!Msg("sdp", number) EXCEPT !.sid = sid]
  <1>1. c \in Daemons BY GoodIs
  <1>2. T!Offering(sid) \in Peers /\ ~ T!Offering(sid).muted BY PeerStates
  <1>3. /\ r \in Daemons /\ r.state = "ADD_CALLING" /\ r.callPeer = number
        /\ r.pm = T!Offering(sid) /\ r.restarting = FALSE /\ r.tasks = c.tasks
        /\ r.adding = c.adding /\ r.held = c.held /\ r.offer = c.offer /\ r.caller = c.caller
        /\ r.mesh = c.mesh /\ r.hasMesh = c.hasMesh
    BY <1>1, <1>2 DEF Daemons, Links, Parties
  <1> HIDE DEF r
  <1>4. Placed(r) /\ Offered(r) /\ Timed(r) BY <1>3, GoodIs DEF Placed, Offered, Timed
  <1>5. Delayed(r) BY <1>3 DEF Delayed
  <1>6. Muted(r) BY <1>2, <1>3, GoodIs DEF Muted, MeshOK
  <1>7. Good(r) BY <1>3, <1>4, <1>5, <1>6 DEF Good
  <1>8. m \in Messages BY MessagesSent DEF MessageTypes, Parties
  <1>9. n \in Messages
    <2>1. T!Msg("sdp", number) \in Messages BY MessagesSent DEF MessageTypes, Parties
    <2> QED BY <2>1 DEF Messages
  <1>10. T!InitiateCall(c, number, sid) = T!Send(T!Send(r, m), n) BY DEF T!InitiateCall, r, m, n
  <1> HIDE DEF m, n
  <1>11. Good(T!Send(r, m)) BY <1>7, <1>8, SendGood
  <1> QED BY <1>9, <1>10, <1>11, SendGood

LEMMA CallFailedGood ==
  ASSUME NEW c, Good(c), ~ T!Exists(c.pm), \A t \in c.tasks : t.kind \notin T!Delays,
         NEW number \in Phones
  PROVE  Good(T!Spawn(T!InitiateCallFails(c, number), "intercept", Nobody))
  <1> DEFINE r == [c EXCEPT !.pm = T!NoPeer]
             m == T!Msg("call", number)
             n == T!Msg("hangup", number)
             s == T!Send(r, m)
             e == T!Send(s, n)
  <1>1. c \in Daemons BY GoodIs
  <1>2. /\ r \in Daemons /\ r.pm = T!NoPeer /\ r.state = c.state /\ r.adding = c.adding
        /\ r.tasks = c.tasks /\ r.offer = c.offer /\ r.caller = c.caller
        /\ r.held = c.held /\ r.mesh = c.mesh /\ r.hasMesh = c.hasMesh
    BY <1>1, PeerStates DEF Daemons
  <1> HIDE DEF r
  <1>3. MeshOK(r) /\ Offered(r)
        /\ \A q \in Phones : r.mesh[q].muted => r.state \in T!AddStates /\ r.held = q
    BY <1>2, GoodIs DEF MeshOK, Offered
  <1>4. Good(r) BY <1>2, <1>3, PeerStates, GoodIs, PeerlessGood
  <1>5. m \in Messages /\ n \in Messages BY MessagesSent DEF MessageTypes, Parties
  <1> HIDE DEF m, n
  <1>6. Good(s) /\ Fields(s) = Fields(r) BY <1>4, <1>5, SendGood
  <1> HIDE DEF s
  <1>7. Good(e) /\ Fields(e) = Fields(s) BY <1>5, <1>6, SendGood
  <1>8. T!InitiateCallFails(c, number) = e BY DEF T!InitiateCallFails, e, s, r, m, n
  <1> HIDE DEF e
  <1>9. e.pm = T!NoPeer /\ e.tasks = c.tasks BY <1>2, <1>6, <1>7 DEF Fields
  <1> QED BY <1>7, <1>8, <1>9, PeerStates, FailureGood

LEMMA DelayGood ==
  ASSUME Nobody \notin Phones, NEW c, Good(c), NEW t \in c.tasks, t.kind = "dial",
         NEW sid \in Nat, NEW result \in {"sent", "unsent", "failed"}
  PROVE  Good(T!InitiateCallAfterDelay(c, t.number, sid, result))
  <1> DEFINE w == c.tasks \ {[kind |-> "dial", number |-> t.number]}
             c1 == [c EXCEPT !.tasks = w]
  <1>1. c.tasks \in SUBSET Waits BY GoodIs DEF Daemons
  <1>2. t = [kind |-> "dial", number |-> t.number] /\ t.number \in Phones BY <1>1 DEF Waits
  <1>3. \A u \in w : u.kind \notin T!Delays
    <2>1. t.kind \in T!Delays BY DEF T!Delays
    <2> QED BY <1>2, <2>1, GoodIs DEF Delayed
  <1>4. HangupTask \in c.tasks => HangupTask \in w BY DEF HangupTask
  <1>5. w \in SUBSET c.tasks OBVIOUS
  <1>6. c1 = [c EXCEPT !.tasks = @ \ {[kind |-> "dial", number |-> t.number]}]
    BY GoodIs DEF Daemons
  <1> HIDE DEF w
  <1>7. /\ Good(c1) /\ c1.tasks = w /\ c1.state = c.state /\ c1.pm = c.pm
        /\ c1.adding = c.adding
    BY <1>4, <1>5, TasksGood
  <1> HIDE DEF c1
  <1>8. CASE c.state # "ADD_CALLING" BY <1>6, <1>7, <1>8 DEF T!InitiateCallAfterDelay
  <1>9. CASE c.state = "ADD_CALLING"
    <2>1. ~ T!Exists(c.pm) /\ t.number = c.adding BY <1>9, GoodIs DEF Delayed, T!Delays
    <2>2. Good(T!InitiateCall(c1, t.number, sid))
      BY <1>2, <1>3, <1>7, <1>9, <2>1, CallPlacedGood
    <2>3. Good(T!Spawn(c1, "intercept", Nobody)) BY <1>3, <1>7, <2>1, FailureGood
    <2>4. Good(T!Spawn(T!InitiateCallFails(c1, t.number), "intercept", Nobody))
      BY <1>2, <1>3, <1>7, <2>1, CallFailedGood
    <2> QED BY <1>6, <1>9, <2>2, <2>3, <2>4 DEF T!InitiateCallAfterDelay, Nobody
  <1> QED BY <1>8, <1>9

LEMMA InterceptGood ==
  ASSUME NEW c, Good(c), NEW t \in c.tasks, t.kind = "intercept"
  PROVE  Good(T!Intercept(c))
  <1> DEFINE w == c.tasks \ {[kind |-> "intercept", number |-> T!Nobody]}
             c1 == [c EXCEPT !.tasks = w]
             r == [c1 EXCEPT !.state = "ADD_INTERCEPT"]
  <1>1. c \in Daemons BY GoodIs
  <1>2. HangupTask \in c.tasks => HangupTask \in w BY DEF HangupTask
  <1>3. w \in SUBSET c.tasks OBVIOUS
  <1>4. T!Intercept(c) = IF c.state = "ADD_CALLING" THEN r ELSE c1
    BY <1>1 DEF T!Intercept, Daemons
  <1> HIDE DEF w
  <1>5. /\ Good(c1) /\ c1.tasks = w /\ c1.state = c.state /\ c1.pm = c.pm
        /\ c1.adding = c.adding
    BY <1>2, <1>3, TasksGood
  <1> HIDE DEF c1
  <1>6. ASSUME c.state = "ADD_CALLING" PROVE Good(r)
    <2>1. ~ T!Exists(c1.pm) BY <1>5, <1>6, GoodIs DEF Delayed, T!Delays
    <2>2. c1 \in Daemons BY <1>5, GoodIs
    <2>3. /\ r \in Daemons /\ r.state = "ADD_INTERCEPT" /\ r.pm = c1.pm /\ r.tasks = c1.tasks
          /\ r.held = c1.held /\ r.mesh = c1.mesh /\ r.hasMesh = c1.hasMesh
          /\ r.offer = c1.offer /\ r.caller = c1.caller
      BY <2>2 DEF Daemons, T!States, T!AddStates
    <2> HIDE DEF r
    <2>4. MeshOK(r) /\ Offered(r) /\ ~ r.pm.muted
          /\ \A q \in Phones : r.mesh[q].muted => r.state \in T!AddStates /\ r.held = q
      BY <1>5, <2>3, GoodIs DEF MeshOK, Offered, T!AddStates
    <2> QED BY <1>5, <2>1, <2>3, <2>4, GoodIs, PeerlessGood
  <1> QED BY <1>4, <1>5, <1>6

-----------------------------------------------------------------------------
(* Hang-ups.  Of a daemon whose recovery has lost its timer, only the      *)
(* hang-up that it asked for is considered.                                *)
Untimed(c) == c \in Daemons /\ Placed(c) /\ Offered(c) /\ Delayed(c) /\ Muted(c)

(* The party that is being added goes, as it hung up, was busy or refused. *)
LEMMA AddedGoneGood ==
  ASSUME NEW c, Untimed(c), c.state \in {"ADD_CALLING", "ADD_PRIVATE"}
  PROVE  Good(T!TearDownPeer([c EXCEPT !.state = "ADD_INTERCEPT"], c.adding))
  <1> DEFINE d == [c EXCEPT !.state = "ADD_INTERCEPT"]
             r == T!TearDownPeer(d, c.adding)
  <1>1. c \in Daemons /\ c.adding \in Parties BY DEF Untimed, Daemons
  <1>2. /\ d \in Daemons /\ d.state = "ADD_INTERCEPT" /\ d.pm = c.pm /\ d.tasks = c.tasks
        /\ d.held = c.held /\ d.mesh = c.mesh /\ d.hasMesh = c.hasMesh
        /\ d.offer = c.offer /\ d.caller = c.caller /\ d.callPeer = c.callPeer
    BY <1>1 DEF Daemons, T!States, T!AddStates
  <1> HIDE DEF d
  <1>3. /\ r \in Daemons /\ Rest(r) = Rest(d) /\ r.hasMesh = d.hasMesh
        /\ (r.pm = d.pm /\ ~ (T!Exists(d.pm) /\ d.callPeer = c.adding)) \/ r.pm = T!NoPeer
        /\ \A x \in Phones : r.mesh[x] = T!NoPeer \/ r.mesh[x] = d.mesh[x]
    BY <1>1, <1>2, PeerTornDown
  <1> HIDE DEF r
  <1>4. ~ T!Exists(r.pm) /\ ~ r.pm.muted
    BY <1>2, <1>3, PeerStates DEF Untimed, Placed, Muted
  <1>5. /\ r.state = "ADD_INTERCEPT" /\ r.held = c.held /\ r.tasks = c.tasks
        /\ r.offer = c.offer /\ r.caller = c.caller
    BY <1>2, <1>3 DEF Rest
  <1>6. MeshOK(r) /\ \A q \in Phones : r.mesh[q].muted => r.state \in T!AddStates /\ r.held = q
    BY <1>2, <1>3, <1>5, PeerStates DEF MeshOK, Untimed, Muted, T!AddStates
  <1>7. Offered(r) /\ Quieted(c) BY <1>5 DEF Offered, Untimed, Quieted
  <1>8. Good(r) BY <1>3, <1>4, <1>5, <1>6, <1>7, PeerlessGood
  <1> QED BY <1>8 DEF r, d

LEMMA HangupGood ==
  ASSUME NEW c, Untimed(c), NEW sender \in Parties, NEW timeout \in BOOLEAN,
         Timed(c) \/ sender = Nobody
  PROVE  Good(T!OnSignalHangup(c, sender, timeout))
  <1>1. c \in Daemons /\ Quieted(c) BY DEF Untimed, Quieted
  <1>2. CASE c.state = "RINGING"
    <2> DEFINE r == [c EXCEPT !.state = "IDLE"]
    <2>1. /\ r \in Daemons /\ r.state = "IDLE" /\ r.pm = c.pm /\ r.tasks = c.tasks
          /\ r.held = c.held /\ r.mesh = c.mesh /\ r.hasMesh = c.hasMesh
          /\ r.offer = c.offer /\ r.caller = c.caller
      BY <1>1 DEF Daemons, T!States
    <2> HIDE DEF r
    <2>2. ~ T!Exists(r.pm) BY <1>2, <2>1 DEF Untimed, Placed
    <2>3. MeshOK(r) /\ Offered(r) /\ ~ r.pm.muted /\ \A q \in Phones : ~ r.mesh[q].muted
      BY <1>2, <2>1 DEF MeshOK, Offered, Untimed, Muted, T!AddStates
    <2>4. Good(r) BY <1>1, <2>1, <2>2, <2>3, PeerlessGood
    <2> QED BY <1>2, <2>4 DEF T!OnSignalHangup, r
  <1>3. CASE c.state = "CONNECTED"
    <2> DEFINE s == IF timeout THEN "CALL_FAILED" ELSE "REMOTE_HANGUP"
               d == [c EXCEPT !.state = s]
               r == T!HangupCall(d, timeout)
    <2>1. s \in T!States /\ s # "ADD_CALLING" BY DEF T!States
    <2>a. T!OnSignalHangup(c, sender, timeout) = r BY <1>3 DEF T!OnSignalHangup
    <2> HIDE DEF s
    <2>2. d \in Daemons /\ d.state = s /\ d.tasks = c.tasks BY <1>1, <2>1 DEF Daemons
    <2> HIDE DEF d
    <2>3. r \in Daemons /\ NoCall(r) /\ Flow(r) = Flow(d) BY <2>2, HungUp
    <2> HIDE DEF r
    <2> QED BY <1>1, <2>1, <2>a, <2>2, <2>3, HungUpGood DEF Flow
  <1>4. CASE c.state \in {"ADD_CALLING", "ADD_PRIVATE"} /\ T!FromAdded(c, sender)
    BY <1>4, AddedGoneGood DEF T!OnSignalHangup
  <1>5. CASE /\ c.state \notin {"RINGING", "CONNECTED"}
             /\ ~ (c.state \in {"ADD_CALLING", "ADD_PRIVATE"} /\ T!FromAdded(c, sender))
    <2>1. sender = Nobody => ~ T!Exists(c.pm)
      BY <1>5 DEF Untimed, Placed, T!FromAdded, Nobody
    <2>2. Timed(c) BY <2>1 DEF Timed
    <2> QED BY <1>5, <2>2 DEF T!OnSignalHangup, Good, Untimed
  <1> QED BY <1>2, <1>3, <1>4, <1>5

LEMMA RefusedGood ==
  ASSUME NEW c, Good(c), NEW sender \in Parties
  PROVE  Good(T!OnSignalRefused(c, sender))
  BY AddedGoneGood DEF T!OnSignalRefused, Untimed, Good

(* The hang-up that was asked for when no offer could be made, or when the *)
(* recovery ran out of time.                                               *)
LEMMA TriggeredGood ==
  ASSUME NEW c, Good(c)
  PROVE  Good(T!OnSignalHangup([c EXCEPT !.tasks = @ \ {HangupTask}], Nobody, FALSE))
  <1> DEFINE w == c.tasks \ {HangupTask}
             r == [c EXCEPT !.tasks = w]
  <1>1. c \in Daemons BY GoodIs
  <1>2. w \in SUBSET c.tasks OBVIOUS
  <1>3. r = [c EXCEPT !.tasks = @ \ {HangupTask}] BY <1>1 DEF Daemons
  <1> HIDE DEF w
  <1>4. /\ r \in Daemons /\ r.tasks = w /\ r.state = c.state /\ r.pm = c.pm
        /\ r.callPeer = c.callPeer /\ r.adding = c.adding /\ r.offer = c.offer
        /\ r.caller = c.caller /\ r.held = c.held /\ r.mesh = c.mesh /\ r.hasMesh = c.hasMesh
    BY <1>1, <1>2 DEF Daemons
  <1> HIDE DEF r
  <1>5. Delayed(r) BY <1>2, <1>4, GoodIs DEF Delayed
  <1>6. Muted(r) BY <1>4, GoodIs DEF Muted, MeshOK
  <1>7. Untimed(r) BY <1>4, <1>5, <1>6, GoodIs DEF Untimed, Placed, Offered
  <1>8. Good(T!OnSignalHangup(r, Nobody, FALSE)) BY <1>7, HangupGood DEF Parties
  <1> QED BY <1>3, <1>8

(* Steps that keep the call as it is.                                      *)
LEMMA KeptGood ==
  ASSUME NEW c, Good(c), NEW r \in Daemons,
         r.state = c.state, r.adding = c.adding, r.held = c.held, r.tasks = c.tasks,
         T!Exists(r.pm) => T!Exists(c.pm), r.callPeer = c.callPeer, ~ r.pm.muted,
         Offered(r), Timed(r), MeshOK(r),
         \A q \in Phones : r.mesh[q].muted => c.mesh[q].muted
  PROVE  Good(r)
  <1>1. Delayed(r) BY GoodIs DEF Delayed
  <1>2. Placed(r) BY GoodIs DEF Placed
  <1>3. Muted(r) BY GoodIs DEF Muted, MeshOK
  <1> QED BY <1>1, <1>2, <1>3 DEF Good

LEMMA DeadlineGood ==
  ASSUME NEW c, Good(c)
  PROVE  Good(T!ConnectDeadline(c))
  <1> DEFINE c1 == [c EXCEPT !.deadline = 0]
  <1>1. c \in Daemons BY GoodIs
  <1>2. /\ c1 \in Daemons /\ c1.state = c.state /\ c1.adding = c.adding /\ c1.held = c.held
        /\ c1.tasks = c.tasks /\ c1.pm = c.pm /\ c1.callPeer = c.callPeer
        /\ c1.offer = c.offer /\ c1.caller = c.caller /\ c1.restarting = c.restarting
        /\ c1.timer = c.timer /\ c1.mesh = c.mesh /\ c1.hasMesh = c.hasMesh
    BY <1>1 DEF Daemons
  <1>a. T!ConnectDeadline(c) = IF c.deadline # c.pm.sid \/ c.link = "connected" THEN c1
                               ELSE T!OnSignalHangup(c1, c.callPeer, TRUE)
    BY DEF T!ConnectDeadline
  <1> HIDE DEF c1
  <1>3. Good(c1)
    <2>1. Offered(c1) /\ Timed(c1) /\ MeshOK(c1)
      BY <1>2, GoodIs DEF Offered, Timed, MeshOK
    <2> QED BY <1>2, <2>1, GoodIs, KeptGood
  <1>4. Good(T!OnSignalHangup(c1, c.callPeer, TRUE))
    <2>1. c.callPeer \in Parties BY <1>1 DEF Daemons
    <2>2. Untimed(c1) /\ Timed(c1) BY <1>3 DEF Untimed, Good
    <2> QED BY <2>1, <2>2, HangupGood
  <1> QED BY <1>a, <1>3, <1>4

-----------------------------------------------------------------------------
(* What the server sends.                                                  *)
Same(r, c) ==
  /\ r.state = c.state /\ r.adding = c.adding /\ r.held = c.held /\ r.tasks = c.tasks
  /\ r.callPeer = c.callPeer

LEMMA RingGood ==
  ASSUME Nobody \notin Phones, NEW c, Good(c), NEW q \in Phones
  PROVE  Good(T!OnSignalRing([c EXCEPT !.caller = q]))
  <1> DEFINE d == [c EXCEPT !.caller = q]
             r == [d EXCEPT !.state = "RINGING"]
  <1>1. c \in Daemons BY GoodIs
  <1>2. /\ d \in Daemons /\ Same(d, c) /\ d.pm = c.pm /\ d.caller = q
        /\ d.restarting = c.restarting /\ d.timer = c.timer
        /\ d.mesh = c.mesh /\ d.hasMesh = c.hasMesh
    BY <1>1 DEF Daemons, Parties, Same
  <1> HIDE DEF d
  <1>3. Good(d)
    <2>1. Offered(d) /\ Timed(d) /\ MeshOK(d)
      BY <1>2, GoodIs DEF Offered, Timed, MeshOK, Same
    <2> QED BY <1>2, <2>1, GoodIs, KeptGood DEF Same
  <1>4. ASSUME c.state = "IDLE" PROVE Good(r)
    <2>1. ~ T!Exists(d.pm) BY <1>2, <1>4, GoodIs DEF Placed
    <2>2. /\ r \in Daemons /\ r.state = "RINGING" /\ r.pm = d.pm /\ r.tasks = d.tasks
          /\ r.held = d.held /\ r.mesh = d.mesh /\ r.hasMesh = d.hasMesh
          /\ r.caller = q
      BY <1>2 DEF Daemons, T!States
    <2> HIDE DEF r
    <2>3. MeshOK(r) /\ Offered(r) /\ ~ r.pm.muted /\ \A x \in Phones : ~ r.mesh[x].muted
      BY <1>2, <1>4, <2>2, GoodIs DEF MeshOK, Offered, T!AddStates
    <2> QED BY <1>3, <2>1, <2>2, <2>3, GoodIs, PeerlessGood
  <1>5. d.state = c.state BY <1>2 DEF Same
  <1> QED BY <1>3, <1>4, <1>5 DEF T!OnSignalRing, d, r

LEMMA AnsweredGood ==
  ASSUME NEW c, Good(c), NEW m \in Letters
  PROVE  Good(T!Answer(c, m))
  <1> DEFINE a == T!SetAnswer(c.pm, m.sid)
             e == [c EXCEPT !.pm = T!SetAnswer(@, m.sid), !.deadline = c.pm.sid]
             d == IF T!Exists(c.pm) THEN e ELSE c
             r == [d EXCEPT !.state = "ADD_PRIVATE"]
  <1>m. m.sid \in Nat BY DEF Letters
  <1>1. c \in Daemons /\ c.pm \in Peers /\ m.sid \in Nat BY <1>m, GoodIs DEF Daemons
  <1>2. a \in Peers /\ a.muted = c.pm.muted /\ (T!Exists(a) <=> T!Exists(c.pm))
    BY <1>1, AnswerTaken
  <1>3. e = [c EXCEPT !.pm = a, !.deadline = c.pm.sid] BY <1>1 DEF Daemons
  <1> HIDE DEF a, e
  <1>4. /\ e \in Daemons /\ Same(e, c) /\ e.pm = a /\ e.offer = c.offer /\ e.caller = c.caller
        /\ e.restarting = c.restarting /\ e.timer = c.timer
        /\ e.mesh = c.mesh /\ e.hasMesh = c.hasMesh
    BY <1>1, <1>2, <1>3 DEF Daemons, Peers, Same
  <1>5. Good(e)
    <2>1. Offered(e) /\ MeshOK(e) /\ ~ e.pm.muted BY <1>2, <1>4, GoodIs DEF Offered, MeshOK
    <2>2. Timed(e) BY <1>2, <1>4, GoodIs DEF Timed, Same
    <2> QED BY <1>2, <1>4, <2>1, <2>2, GoodIs, KeptGood DEF Same
  <1>6. Good(d) /\ d.state = c.state BY <1>4, <1>5 DEF Same
  <1>7. T!Answer(c, m) = IF d.state = "ADD_CALLING" /\ T!FromAdded(d, m.peer) THEN r ELSE d
    BY DEF T!Answer, T!OnSignalAnswer, e
  <1> HIDE DEF d
  <1>8. ASSUME d.state = "ADD_CALLING" PROVE Good(r)
    <2>1. d \in Daemons BY <1>6, GoodIs
    <2>2. /\ r \in Daemons /\ r.state = "ADD_PRIVATE" /\ r.adding = d.adding
          /\ r.held = d.held /\ r.tasks = d.tasks /\ r.pm = d.pm /\ r.callPeer = d.callPeer
          /\ r.offer = d.offer /\ r.caller = d.caller
          /\ r.restarting = d.restarting /\ r.timer = d.timer
          /\ r.mesh = d.mesh /\ r.hasMesh = d.hasMesh
      BY <2>1 DEF Daemons, T!States, T!AddStates
    <2> HIDE DEF r
    <2>3. Placed(r) BY <1>6, <1>8, <2>2, GoodIs DEF Placed
    <2>4. Delayed(r) BY <1>6, <2>2, GoodIs DEF Delayed
    <2>5. Muted(r) BY <1>6, <1>8, <2>2, GoodIs DEF Muted, MeshOK, T!AddStates
    <2>6. Offered(r) /\ Timed(r) BY <1>6, <2>2, GoodIs DEF Offered, Timed
    <2> QED BY <2>2, <2>3, <2>4, <2>5, <2>6 DEF Good
  <1> QED BY <1>6, <1>7, <1>8

LEMMA MeshGood ==
  ASSUME NEW c, Good(c), NEW q \in Phones, NEW k \in Peers, NEW b \in BOOLEAN,
         b \/ b = c.hasMesh,
         k.muted => c.mesh[q].muted, T!Exists(k) => b, k.muted => T!Exists(k)
  PROVE  Good([c EXCEPT !.hasMesh = b, !.mesh = [c.mesh EXCEPT ![q] = k]])
  <1> DEFINE h == [c.mesh EXCEPT ![q] = k]
             r == [c EXCEPT !.hasMesh = b, !.mesh = h]
  <1>1. c \in Daemons /\ c.mesh \in [Phones -> Peers] BY GoodIs DEF Daemons
  <1>2. h \in [Phones -> Peers] /\ \A x \in Phones : h[x] = IF x = q THEN k ELSE c.mesh[x]
    BY <1>1
  <1> HIDE DEF h
  <1>3. /\ r \in Daemons /\ Same(r, c) /\ r.pm = c.pm /\ r.offer = c.offer
        /\ r.caller = c.caller /\ r.restarting = c.restarting /\ r.timer = c.timer
        /\ r.mesh = h /\ r.hasMesh = b
    BY <1>1, <1>2 DEF Daemons, Same
  <1> HIDE DEF r
  <1>4. MeshOK(r) BY <1>2, <1>3, GoodIs DEF MeshOK
  <1>5. Offered(r) /\ Timed(r) BY <1>3, GoodIs DEF Offered, Timed, Same
  <1>6. Good(r) BY <1>2, <1>3, <1>4, <1>5, GoodIs, KeptGood DEF Same
  <1> QED BY <1>6 DEF r, h

LEMMA ConferenceSDPGood ==
  ASSUME NEW c, Good(c), NEW m \in Messages, m.peer \in Phones
  PROVE  Good(T!ConferenceSDP(c, m))
  <1> DEFINE q == m.peer
             a == T!SetAnswer(c.mesh[q], m.sid)
             d == [c EXCEPT !.hasMesh = TRUE, !.mesh = [c.mesh EXCEPT ![q] = a]]
             e == [c EXCEPT !.hasMesh = TRUE, !.mesh = [c.mesh EXCEPT ![q] = T!Accepted(m.sid)]]
  <1>m. m.sid \in Nat BY DEF Messages
  <1>1. c \in Daemons /\ c.mesh \in [Phones -> Peers] /\ c.mesh[q] \in Peers
    BY GoodIs DEF Daemons
  <1>2. a \in Peers /\ a.muted = c.mesh[q].muted /\ (T!Exists(a) <=> T!Exists(c.mesh[q]))
    BY <1>m, <1>1, AnswerTaken
  <1>3. T!ConferenceSDP(c, m) = IF c.hasMesh /\ T!Exists(c.mesh[q]) THEN d ELSE T!Send(e, m)
    BY <1>1 DEF T!ConferenceSDP, Daemons
  <1>4. Good(d)
    <2>1. a.muted => T!Exists(a) BY <1>2, GoodIs DEF MeshOK
    <2> HIDE DEF a
    <2> QED BY <1>2, <2>1, MeshGood
  <1>5. Good(e)
    <2>1. T!Accepted(m.sid) \in Peers /\ ~ T!Accepted(m.sid).muted BY <1>m, PeerStates
    <2> QED BY <2>1, MeshGood
  <1> HIDE DEF d, e
  <1> QED BY <1>3, <1>4, <1>5, SendGood

LEMMA CallSDPGood ==
  ASSUME Nobody \notin Phones, NEW c, Good(c), NEW m \in Letters, m.peer \in Phones
  PROVE  Good(T!CallSDP(c, m))
  <1> DEFINE o == IF c.caller = Nobody THEN m.peer ELSE c.caller
             d == [c EXCEPT !.offer = m.sid, !.caller = o]
             a == T!SetAnswer(c.pm, m.sid)
             e == [c EXCEPT !.pm = a]
  <1>m. m.sid \in Nat BY DEF Letters
  <1>1. c \in Daemons /\ c.pm \in Peers /\ m.sid \in Nat BY <1>m, GoodIs DEF Daemons
  <1>2. T!CallSDP(c, m) = IF ~ T!Exists(c.pm) THEN d ELSE IF c.restarting THEN e ELSE c
    BY <1>1 DEF T!CallSDP, Daemons, Nobody
  <1>3. a \in Peers /\ a.muted = c.pm.muted /\ (T!Exists(a) <=> T!Exists(c.pm))
    BY <1>1, AnswerTaken
  <1>4. o \in Parties /\ o # Nobody BY <1>1 DEF Daemons, Parties
  <1> HIDE DEF a, o
  <1>5. /\ d \in Daemons /\ Same(d, c) /\ d.pm = c.pm /\ d.caller = o
        /\ d.restarting = c.restarting /\ d.timer = c.timer
        /\ d.mesh = c.mesh /\ d.hasMesh = c.hasMesh
    BY <1>1, <1>4 DEF Daemons, Same
  <1>6. /\ e \in Daemons /\ Same(e, c) /\ e.pm = a /\ e.offer = c.offer /\ e.caller = c.caller
        /\ e.restarting = c.restarting /\ e.timer = c.timer
        /\ e.mesh = c.mesh /\ e.hasMesh = c.hasMesh
    BY <1>1, <1>3 DEF Daemons, Same
  <1> HIDE DEF d, e
  <1>7. Good(d)
    <2>1. Offered(d) /\ Timed(d) /\ MeshOK(d)
      BY <1>4, <1>5, GoodIs DEF Offered, Timed, MeshOK, Same
    <2> QED BY <1>5, <2>1, GoodIs, KeptGood DEF Same
  <1>8. Good(e)
    <2>1. Offered(e) /\ MeshOK(e) /\ ~ e.pm.muted BY <1>3, <1>6, GoodIs DEF Offered, MeshOK
    <2>2. Timed(e) BY <1>3, <1>6, GoodIs DEF Timed, Same
    <2> QED BY <1>3, <1>6, <2>1, <2>2, GoodIs, KeptGood DEF Same
  <1> QED BY <1>2, <1>7, <1>8

LEMMA ICERestartGood ==
  ASSUME NEW c, Good(c), NEW m \in Letters
  PROVE  Good(T!ICERestart(c, m))
  <1> DEFINE a == [c.pm EXCEPT !.sig = "stable", !.sid = m.sid]
             d == [c EXCEPT !.pm = a, !.link = "new", !.restarting = TRUE, !.timer = TRUE]
             q == IF c.callPeer = T!Nobody THEN m.peer ELSE c.callPeer
             n == [T!Msg("sdp", q) EXCEPT !.sid = m.sid]
  <1>m. m.sid \in Nat /\ m.peer \in Parties BY DEF Letters
  <1>1. c \in Daemons /\ c.pm \in Peers /\ c.callPeer \in Parties BY GoodIs DEF Daemons
  <1> SUFFICES ASSUME T!Exists(c.pm) PROVE Good(T!ICERestart(c, m)) BY DEF T!ICERestart
  <1>2. T!ICERestart(c, m) = IF c.pm.sig = "offering" THEN c ELSE T!Send(d, n)
    BY <1>1 DEF T!ICERestart, Daemons, Peers
  <1>3. a \in Peers /\ a.muted = c.pm.muted /\ T!Exists(a)
    BY <1>m, <1>1 DEF Peers, T!Exists
  <1> HIDE DEF a
  <1>4. /\ d \in Daemons /\ Same(d, c) /\ d.pm = a /\ d.offer = c.offer /\ d.caller = c.caller
        /\ d.timer = TRUE /\ d.mesh = c.mesh /\ d.hasMesh = c.hasMesh
    BY <1>1, <1>3 DEF Daemons, Links, Same
  <1> HIDE DEF d
  <1>5. Good(d)
    <2>1. Offered(d) /\ MeshOK(d) /\ Timed(d) /\ ~ d.pm.muted
      BY <1>3, <1>4, GoodIs DEF Offered, MeshOK, Timed
    <2> QED BY <1>4, <2>1, GoodIs, KeptGood DEF Same
  <1>6. n \in Messages
    <2>1. q \in Parties BY <1>m, <1>1
    <2> HIDE DEF q
    <2>2. T!Msg("sdp", q) \in Messages BY <2>1, MessagesSent DEF MessageTypes
    <2> QED BY <1>m, <2>2 DEF Messages
  <1> HIDE DEF n
  <1> QED BY <1>2, <1>5, <1>6, SendGood

LEMMA MemberGood ==
  ASSUME NEW c, Good(c), NEW id \in Nat, NEW me, NEW host
  PROVE  Good(T!HandleConferenceMember(c, me, id, host))
  <1> DEFINE b == me = host
             d == [c EXCEPT !.confID = id, !.isHost = b]
  <1>1. c \in Daemons /\ b \in BOOLEAN BY GoodIs
  <1>2. T!HandleConferenceMember(c, me, id, host) = d BY DEF T!HandleConferenceMember
  <1> HIDE DEF b
  <1>4. /\ d \in Daemons /\ Same(d, c) /\ d.pm = c.pm /\ d.offer = c.offer
        /\ d.caller = c.caller /\ d.restarting = c.restarting
        /\ d.timer = c.timer /\ d.mesh = c.mesh /\ d.hasMesh = c.hasMesh
    BY <1>1 DEF Daemons, Same
  <1> HIDE DEF d
  <1>5. Offered(d) /\ MeshOK(d) /\ Timed(d) BY <1>4, GoodIs DEF Offered, MeshOK, Timed, Same
  <1> QED BY <1>2, <1>4, <1>5, GoodIs, KeptGood DEF Same

LEMMA ConnectGood ==
  ASSUME NEW c, Good(c), NEW id \in Nat, NEW q \in Phones, NEW initiator \in BOOLEAN,
         NEW sid \in Nat
  PROVE  Good(T!HandleConferenceConnect(c, id, q, initiator, sid))
  <1> DEFINE k == [T!Offering(sid) EXCEPT !.muted = c.mesh[q].muted]
             d == [c EXCEPT !.hasMesh = TRUE, !.mesh = [c.mesh EXCEPT ![q] = k]]
             n == [T!Msg("sdp", q) EXCEPT !.conf = c.confID, !.sid = sid]
  <1>1. /\ c \in Daemons /\ c.confID \in Nat /\ c.mesh \in [Phones -> Peers]
        /\ c.mesh[q] \in Peers
    BY GoodIs DEF Daemons
  <1>2. k \in Peers /\ T!Exists(k) /\ k.muted = c.mesh[q].muted
    BY <1>1 DEF Peers, T!Offering, T!Exists
  <1>3. T!AddMeshPeer(c, q, initiator, sid) = IF initiator THEN T!Send(d, n) ELSE c
    BY <1>1 DEF T!AddMeshPeer, Daemons
  <1> HIDE DEF k
  <1>4. Good(d) BY <1>2, MeshGood
  <1>5. n \in Messages
    <2>1. T!Msg("sdp", q) \in Messages BY MessagesSent DEF MessageTypes, Parties
    <2> QED BY <1>1, <2>1 DEF Messages
  <1> HIDE DEF d, n
  <1> QED BY <1>3, <1>4, <1>5, SendGood DEF T!HandleConferenceConnect

LEMMA LeaveGood ==
  ASSUME NEW c, Good(c), NEW id, NEW q \in Phones
  PROVE  Good(T!HandleConferenceLeave(c, id, q))
  <1>1. c \in Daemons /\ c.hasMesh \in BOOLEAN BY GoodIs DEF Daemons
  <1>2. T!RemoveMeshPeer(c, q)
          = [c EXCEPT !.hasMesh = c.hasMesh, !.mesh = [c.mesh EXCEPT ![q] = T!NoPeer]]
    BY <1>1 DEF T!RemoveMeshPeer, Daemons
  <1>3. Good(T!RemoveMeshPeer(c, q))
    <2> DEFINE k == T!NoPeer
    <2>1. k \in Peers /\ ~ k.muted /\ ~ T!Exists(k) BY PeerStates
    <2> HIDE DEF k
    <2>2. Good([c EXCEPT !.hasMesh = c.hasMesh, !.mesh = [c.mesh EXCEPT ![q] = k]])
      BY <1>1, <2>1, MeshGood
    <2> QED BY <1>2, <2>2 DEF k
  <1> QED BY <1>3 DEF T!HandleConferenceLeave

(* A conference's end and a teardown after a reconnect: no peer is left.   *)
LEMMA AllDown ==
  ASSUME NEW c, Good(c)
  PROVE  LET r == T!HangupCall(T!TearDownAllMeshPeers(c), FALSE)
         IN  r \in Daemons /\ NoCall(r) /\ Flow(r) = Flow(c)
  <1> DEFINE d == T!TearDownAllMeshPeers(c)
  <1>1. T!NoMesh \in [Phones -> Peers] BY PeerStates DEF T!NoMesh
  <1>2. d \in Daemons /\ Flow(d) = Flow(c)
    BY <1>1, GoodIs DEF T!TearDownAllMeshPeers, Daemons, Flow
  <1> HIDE DEF d
  <1>3. LET r == T!HangupCall(d, FALSE) IN r \in Daemons /\ NoCall(r) /\ Flow(r) = Flow(d)
    BY <1>2, HungUp
  <1> QED BY <1>2, <1>3 DEF d

LEMMA EndGood ==
  ASSUME NEW c, Good(c), NEW id
  PROVE  Good(T!HandleConferenceEnd(c, id))
  <1> DEFINE d == T!HangupCall(T!TearDownAllMeshPeers(c), FALSE)
             s == IF c.state \in T!AddStates \cup {"CONFERENCE_MERGED"} THEN "REMOTE_HANGUP"
                                                                        ELSE "IDLE"
             r == [d EXCEPT !.confID = 0, !.isHost = FALSE, !.held = T!Nobody,
                            !.adding = T!Nobody, !.state = s]
  <1>1. d \in Daemons /\ NoCall(d) /\ Flow(d) = Flow(c) BY AllDown
  <1>2. s \in T!States /\ s # "ADD_CALLING" BY DEF T!States
  <1>3. T!HandleConferenceEnd(c, id) = IF c.confID = 0 \/ c.confID # id THEN c ELSE r
    BY DEF T!HandleConferenceEnd
  <1> HIDE DEF s, d
  <1>4. r \in Daemons /\ NoCall(r) /\ r.tasks = d.tasks /\ r.state = s
    BY <1>1, <1>2 DEF Daemons, NoCall, Parties, Nobody
  <1> HIDE DEF r
  <1>5. r.tasks = c.tasks BY <1>1, <1>4 DEF Flow
  <1> QED BY <1>2, <1>3, <1>4, <1>5, GoodIs, HungUpGood

LEMMA SignalGood ==
  ASSUME Nobody \notin Phones, NEW c, Good(c), NEW me \in Phones, NEW m \in Letters,
         NEW sid \in Nat
  PROVE  Good(T!HandleSignal(c, me, m, sid))
  <1>1. /\ m.peer \in Parties /\ m.flag \in BOOLEAN /\ m.conf \in Nat /\ m.type \in LetterTypes
        /\ m.type = "sdp" => m \in Messages
    BY DEF Letters, LetterTypes, Messages, MessageTypes
  <1>2. m.type \in {"ring", "sdp", "connect", "leave"} => m.peer \in Phones BY DEF Letters
  <1> QED
    <2>1. CASE m.type = "ring" BY <1>2, <2>1, RingGood DEF T!HandleSignal
    <2>2. CASE m.type = "answer" BY <1>1, <2>2, AnsweredGood DEF T!HandleSignal
    <2>3. CASE m.type = "hangup" BY <1>1, <2>3, HangupGood DEF T!HandleSignal, Good, Untimed
    <2>4. CASE m.type \in {"busy", "error"} BY <1>1, <2>4, RefusedGood DEF T!HandleSignal
    <2>5. CASE m.type = "sdp"
      BY <1>1, <1>2, <2>5, ConferenceSDPGood, CallSDPGood DEF T!HandleSignal
    <2>6. CASE m.type = "restart" BY <1>1, <2>6, ICERestartGood DEF T!HandleSignal
    <2>7. CASE m.type = "member" BY <1>1, <2>7, MemberGood DEF T!HandleSignal
    <2>8. CASE m.type = "connect" BY <1>1, <1>2, <2>8, ConnectGood DEF T!HandleSignal
    <2>9. CASE m.type = "leave" BY <1>1, <1>2, <2>9, LeaveGood DEF T!HandleSignal
    <2>10. CASE m.type = "end" BY <2>10, EndGood DEF T!HandleSignal
    <2>11. CASE m.type = "rejected" BY <2>11, RejectedGood DEF T!HandleSignal
    <2> QED
      BY <1>1, <2>1, <2>2, <2>3, <2>4, <2>5, <2>6, <2>7, <2>8, <2>9, <2>10, <2>11
      DEF LetterTypes

-----------------------------------------------------------------------------
(* Recovery: while its peer lives, a recovery that starts has its timer,   *)
(* and one whose timer fires, or that has nothing to offer, asks for the   *)
(* hang-up.                                                                *)
LEMMA HangupAsked ==
  ASSUME NEW c \in Daemons, Placed(c), Offered(c), Delayed(c), Muted(c)
  PROVE  Good(T!Spawn(c, "hangup", Nobody))
  <1> DEFINE w == c.tasks \cup {HangupTask}
             r == [c EXCEPT !.tasks = w]
  <1>1. c.tasks \in SUBSET Waits BY DEF Daemons
  <1>2. HangupTask \in Waits BY DEF Waits, HangupTask
  <1>3. w \in SUBSET Waits /\ HangupTask \in w BY <1>1, <1>2
  <1>4. T!Spawn(c, "hangup", Nobody) = r BY DEF T!Spawn, Daemons, HangupTask
  <1>5. \A t \in w : t.kind \in T!Delays => t \in c.tasks BY DEF HangupTask, T!Delays
  <1> HIDE DEF w
  <1>6. /\ r \in Daemons /\ r.tasks = w
        /\ r.state = c.state /\ r.adding = c.adding /\ r.held = c.held
        /\ r.callPeer = c.callPeer /\ r.pm = c.pm /\ r.offer = c.offer /\ r.caller = c.caller
        /\ r.mesh = c.mesh /\ r.hasMesh = c.hasMesh
    BY <1>3 DEF Daemons
  <1> HIDE DEF r
  <1>7. Delayed(r) BY <1>5, <1>6 DEF Delayed
  <1>8. Muted(r) BY <1>6 DEF Muted
  <1>9. Placed(r) /\ Offered(r) /\ Timed(r) BY <1>3, <1>6 DEF Placed, Offered, Timed
  <1> QED BY <1>4, <1>6, <1>7, <1>8, <1>9 DEF Good

LEMMA RecoveryGood ==
  ASSUME NEW c, Good(c), NEW offered \in BOOLEAN
  PROVE  Good(T!EnterICERecovery(c, offered))
  <1> SUFFICES ASSUME T!Exists(c.pm), ~ c.restarting
               PROVE  Good(T!EnterICERecovery(c, offered))
    BY DEF T!EnterICERecovery
  <1> DEFINE a == [c.pm EXCEPT !.sig = "offering"]
             c1 == [c EXCEPT !.restarting = TRUE, !.debounce = FALSE, !.timer = TRUE]
             d == [c1 EXCEPT !.pm = a, !.link = "new"]
             e == [c1 EXCEPT !.restarting = FALSE, !.timer = FALSE]
             n == [T!Msg("restart", c.callPeer) EXCEPT !.sid = c.pm.sid]
  <1>1. c \in Daemons /\ c.pm \in Peers /\ c.callPeer \in Parties BY GoodIs DEF Daemons
  <1>2. a \in Peers /\ a.muted = c.pm.muted /\ T!Exists(a) BY <1>1 DEF Peers, T!Exists
  <1>3. /\ c1 \in Daemons /\ Same(c1, c) /\ c1.pm = c.pm /\ c1.offer = c.offer
        /\ c1.caller = c.caller /\ c1.timer = TRUE /\ c1.restarting = TRUE
        /\ c1.mesh = c.mesh /\ c1.hasMesh = c.hasMesh /\ c1.isCaller = c.isCaller
    BY <1>1 DEF Daemons, Same
  <1>4. T!EnterICERecovery(c, offered) = IF ~ c1.isCaller THEN c1
                                         ELSE IF offered THEN T!Send(d, n)
                                         ELSE T!Spawn(e, "hangup", T!Nobody)
    BY <1>1, <1>3 DEF T!EnterICERecovery, Daemons
  <1> HIDE DEF c1, a
  <1>5. Good(c1)
    <2>1. Offered(c1) /\ Timed(c1) /\ MeshOK(c1) BY <1>3, GoodIs DEF Offered, Timed, MeshOK
    <2> QED BY <1>3, <2>1, GoodIs, KeptGood DEF Same
  <1>6. /\ d \in Daemons /\ Same(d, c1) /\ d.pm = a /\ d.offer = c1.offer
        /\ d.caller = c1.caller /\ d.timer = TRUE
        /\ d.mesh = c1.mesh /\ d.hasMesh = c1.hasMesh
    BY <1>2, <1>3 DEF Daemons, Same, Links
  <1>7. /\ e \in Daemons /\ Same(e, c1) /\ e.pm = c1.pm /\ e.offer = c1.offer
        /\ e.caller = c1.caller /\ e.restarting = FALSE
        /\ e.mesh = c1.mesh /\ e.hasMesh = c1.hasMesh
    BY <1>3 DEF Daemons, Same
  <1> HIDE DEF d, e
  <1>8. Good(d)
    <2>1. Offered(d) /\ Timed(d) /\ MeshOK(d) /\ ~ d.pm.muted
      BY <1>2, <1>5, <1>6, GoodIs DEF Offered, Timed, MeshOK
    <2>2. T!Exists(c1.pm) BY <1>3
    <2> QED BY <1>5, <1>6, <2>1, <2>2, GoodIs, KeptGood DEF Same
  <1>9. Good(e)
    <2>1. Offered(e) /\ Timed(e) /\ MeshOK(e) BY <1>5, <1>7, GoodIs DEF Offered, Timed, MeshOK
    <2> QED BY <1>5, <1>7, <2>1, GoodIs, KeptGood DEF Same
  <1>10. n \in Messages
    <2>1. T!Msg("restart", c.callPeer) \in Messages BY <1>1, MessagesSent DEF MessageTypes
    <2> QED BY <1>1, <2>1 DEF Messages, Peers
  <1> HIDE DEF n
  <1> QED BY <1>4, <1>5, <1>8, <1>9, <1>10, SendGood, HangupAsked DEF Good, Nobody

(* A change of the link, of the timers, or of the recovery's flag to off.  *)
LEMMA LinkGood ==
  ASSUME NEW c, Good(c), NEW r \in Daemons, Same(r, c), r.pm = c.pm,
         r.offer = c.offer, r.caller = c.caller, r.mesh = c.mesh, r.hasMesh = c.hasMesh,
         ~ r.restarting \/ (r.restarting = c.restarting /\ r.timer = c.timer)
  PROVE  Good(r)
  <1>1. Offered(r) /\ Timed(r) /\ MeshOK(r) BY GoodIs DEF Offered, Timed, MeshOK, Same
  <1> QED BY <1>1, GoodIs, KeptGood DEF Same

LEMMA ConnectionGood ==
  ASSUME NEW c, Good(c), NEW state \in Links, NEW offered \in BOOLEAN
  PROVE  Good(T!HandleConnectionStateChange(c, state, offered))
  <1> DEFINE c1 == [c EXCEPT !.link = state]
             d == [c1 EXCEPT !.restarting = FALSE, !.debounce = FALSE, !.timer = FALSE,
                             !.deadline = 0]
             e == [c1 EXCEPT !.debounce = TRUE]
             f == [c1 EXCEPT !.debounce = FALSE]
  <1>1. c \in Daemons BY GoodIs
  <1>2. c1 \in Daemons /\ Good(c1)
    <2>1. /\ c1 \in Daemons /\ Same(c1, c) /\ c1.pm = c.pm /\ c1.offer = c.offer
          /\ c1.caller = c.caller /\ c1.mesh = c.mesh /\ c1.hasMesh = c.hasMesh
          /\ c1.restarting = c.restarting /\ c1.timer = c.timer
      BY <1>1 DEF Daemons, Same
    <2> HIDE DEF c1
    <2> QED BY <2>1, LinkGood
  <1>3. T!HandleConnectionStateChange(c, state, offered) \in
          {c1, d, e, T!EnterICERecovery(f, offered)}
    BY DEF T!HandleConnectionStateChange
  <1> HIDE DEF c1
  <1>4. Good(d)
    <2>1. /\ d \in Daemons /\ Same(d, c1) /\ d.pm = c1.pm /\ d.offer = c1.offer
          /\ d.caller = c1.caller /\ d.mesh = c1.mesh /\ d.hasMesh = c1.hasMesh
          /\ ~ d.restarting
      BY <1>2 DEF Daemons, Same
    <2> HIDE DEF d
    <2> QED BY <1>2, <2>1, LinkGood
  <1>5. ASSUME NEW b \in BOOLEAN PROVE Good([c1 EXCEPT !.debounce = b])
    <2> DEFINE r == [c1 EXCEPT !.debounce = b]
    <2>1. /\ r \in Daemons /\ Same(r, c1) /\ r.pm = c1.pm /\ r.offer = c1.offer
          /\ r.caller = c1.caller /\ r.mesh = c1.mesh /\ r.hasMesh = c1.hasMesh
          /\ r.restarting = c1.restarting /\ r.timer = c1.timer
      BY <1>2 DEF Daemons, Same
    <2> HIDE DEF r
    <2>2. Good(r) BY <1>2, <2>1, LinkGood
    <2> QED BY <2>2 DEF r
  <1>6. Good(e) /\ Good(f) BY <1>5
  <1> HIDE DEF d, e, f
  <1> QED BY <1>2, <1>3, <1>4, <1>6, RecoveryGood

LEMMA DebounceGood ==
  ASSUME NEW c, Good(c)
  PROVE  Good(T!DebounceExpires(c, TRUE))
  <1> DEFINE r == [c EXCEPT !.debounce = FALSE]
  <1>1. c \in Daemons BY GoodIs
  <1>2. /\ r \in Daemons /\ Same(r, c) /\ r.pm = c.pm /\ r.offer = c.offer
        /\ r.caller = c.caller /\ r.mesh = c.mesh /\ r.hasMesh = c.hasMesh
        /\ r.restarting = c.restarting /\ r.timer = c.timer
    BY <1>1 DEF Daemons, Same
  <1>3. T!DebounceExpires(c, TRUE) \in {r, T!EnterICERecovery(r, TRUE)}
    BY DEF T!DebounceExpires
  <1> HIDE DEF r
  <1>4. Good(r) BY <1>2, LinkGood
  <1> QED BY <1>3, <1>4, RecoveryGood

LEMMA TimeoutGood ==
  ASSUME NEW c, Good(c)
  PROVE  Good(T!RestartTimeout(c))
  <1> DEFINE r == [c EXCEPT !.timer = FALSE]
  <1>1. c \in Daemons BY GoodIs
  <1>2. /\ r \in Daemons /\ Same(r, c) /\ r.pm = c.pm /\ r.offer = c.offer
        /\ r.caller = c.caller /\ r.mesh = c.mesh /\ r.hasMesh = c.hasMesh
        /\ r.restarting = c.restarting
    BY <1>1 DEF Daemons, Same
  <1>3. T!RestartTimeout(c) = IF c.restarting THEN T!Spawn(r, "hangup", Nobody) ELSE r
    BY DEF T!RestartTimeout, Nobody
  <1> HIDE DEF r
  <1>4. ~ c.restarting => Good(r) BY <1>2, LinkGood
  <1>5. Good(T!Spawn(r, "hangup", Nobody))
    <2>1. Placed(r) /\ Offered(r) BY <1>2, GoodIs DEF Placed, Offered, Same
    <2>2. Delayed(r) BY <1>2, GoodIs DEF Delayed, Same
    <2>3. Muted(r) BY <1>2, GoodIs DEF Muted, MeshOK, Same
    <2> QED BY <1>2, <2>1, <2>2, <2>3, HangupAsked
  <1> QED BY <1>3, <1>4, <1>5

LEMMA ResumeGood ==
  ASSUME NEW c, Good(c), NEW offered \in BOOLEAN
  PROVE  Good(T!ResumeAfterReconnect(c, offered))
  <1> DEFINE d == T!HangupCall(T!TearDownAllMeshPeers(c), FALSE)
             r == [d EXCEPT !.state = "IDLE"]
  <1>1. d \in Daemons /\ NoCall(d) /\ Flow(d) = Flow(c) BY AllDown
  <1>2. T!ResumeAfterReconnect(c, offered) \in {c, T!EnterICERecovery(c, offered), r}
    BY DEF T!ResumeAfterReconnect, T!Reset
  <1> HIDE DEF d
  <1>3. r \in Daemons /\ NoCall(r) /\ r.tasks = d.tasks /\ r.state = "IDLE"
    BY <1>1 DEF Daemons, NoCall, T!States
  <1> HIDE DEF r
  <1>4. Good(r)
    <2>1. r.tasks = c.tasks BY <1>1, <1>3 DEF Flow
    <2> QED BY <1>3, <2>1, GoodIs, HungUpGood
  <1> QED BY <1>2, <1>4, RecoveryGood

-----------------------------------------------------------------------------
(* The system: every daemon is good, and only the messages that each side  *)
(* understands are under way.                                              *)
Confs == [id : Nat, host : Parties, members : SUBSET Parties]
Mail == inbox \in [Phones -> Seq(Letters)] /\ outbox \in [Phones -> Seq(Messages)]
Counts == sids \in Nat /\ confs \in Nat /\ conf \in Confs
AllGood == phone \in [Phones -> Daemons] /\ \A p \in Phones : Good(phone[p])
ThreeWayInv == AllGood /\ Mail /\ Counts

LEMMA EmptiedGood ==
  ASSUME NEW c, Good(c)
  PROVE  Good([c EXCEPT !.out = <<>>])
  <1> DEFINE s == <<>>
             r == [c EXCEPT !.out = s]
  <1>1. c \in Daemons BY GoodIs
  <1>2. s \in Seq(Messages) OBVIOUS
  <1> HIDE DEF s
  <1>3. r \in Daemons /\ Fields(r) = Fields(c) BY <1>1, <1>2 DEF Daemons, Fields
  <1> HIDE DEF r
  <1>4. Placed(r) /\ Offered(r) /\ Delayed(r) /\ Timed(r) /\ Muted(r)
    BY <1>3 DEF Good, Fields, Placed, Offered, Delayed, Timed, Muted
  <1>5. Good(r) BY <1>3, <1>4 DEF Good
  <1> QED BY <1>5 DEF r, s

LEMMA BecomeGood ==
  ASSUME AllGood, Mail, NEW p \in Phones, NEW c, Good(c), T!Become(p, c)
  PROVE  AllGood' /\ outbox' \in [Phones -> Seq(Messages)]
  <1> DEFINE d == [c EXCEPT !.out = <<>>]
             o == IF sockets[p] = "live" THEN outbox[p] \o c.out ELSE outbox[p]
  <1>1. Good(d) BY EmptiedGood
  <1>2. c.out \in Seq(Messages) /\ outbox[p] \in Seq(Messages) BY GoodIs DEF Daemons, Mail
  <1>3. o \in Seq(Messages) BY <1>2
  <1>4. phone' = [phone EXCEPT ![p] = d] BY DEF T!Become
  <1>5. outbox' = [outbox EXCEPT ![p] = o] BY DEF T!Become, Mail
  <1> HIDE DEF d, o
  <1>6. d \in Daemons BY <1>1, GoodIs
  <1>7. AllGood' BY <1>1, <1>4, <1>6 DEF AllGood
  <1> QED BY <1>3, <1>5, <1>7 DEF Mail

LEMMA LettersSent ==
  ASSUME NEW type \in LetterTypes, NEW q \in Parties,
         type \in {"ring", "sdp", "connect", "leave"} => q \in Phones
  PROVE  T!Msg(type, q) \in Letters
  BY DEF T!Msg, Letters, Parties, Nobody, T!Nobody

(* What the server delivers.                                               *)
Post == [Phones -> Seq(Letters)]

LEMMA DeliverTyped ==
  ASSUME Mail, NEW to \in Post, T!Deliver(to)
  PROVE  inbox' \in [Phones -> Seq(Letters)]
  <1>1. \A q \in Phones : (IF sockets[q] = "live" THEN inbox[q] \o to[q] ELSE inbox[q]) \in Seq(Letters)
    BY DEF Mail, Post
  <1> QED BY <1>1 DEF T!Deliver

LEMMA ToTyped ==
  ASSUME NEW q, NEW m \in Letters
  PROVE  T!Nothing \in Post /\ T!To(q, m) \in Post
  <1> DEFINE s == <<m>>
  <1>1. s \in Seq(Letters) OBVIOUS
  <1>2. T!Nothing \in Post BY DEF T!Nothing, Post
  <1>3. T!To(q, m) = [T!Nothing EXCEPT ![q] = s] BY DEF T!To
  <1> HIDE DEF s
  <1> QED BY <1>1, <1>2, <1>3 DEF Post

(* Each handler of the server is given a phone's message and leaves the    *)
(* phones alone.                                                           *)
Served == inbox' \in [Phones -> Seq(Letters)] /\ confs' \in Nat /\ conf' \in Confs

LEMMA NoConfTyped == T!NoConf \in Confs
  BY DEF T!NoConf, Confs, Parties, Nobody

LEMMA Forwarded ==
  ASSUME NEW p \in Phones, NEW m \in Messages, m.type \in LetterTypes
  PROVE  [m EXCEPT !.peer = p] \in Letters
  BY DEF Messages, MessageTypes, Letters, LetterTypes, Parties

LEMMA CallServed ==
  ASSUME Mail, Counts, NEW p \in Phones, NEW m \in Messages, T!HandleCall(p, m)
  PROVE  Served
  <1>1. m.peer \in Parties BY DEF Messages
  <1>2. /\ T!Msg("busy", m.peer) \in Letters /\ T!Msg("error", T!Nobody) \in Letters
        /\ T!Msg("ring", p) \in Letters
    BY <1>1, LettersSent DEF LetterTypes, Parties, Nobody
  <1>3. \/ T!Deliver(T!To(p, T!Msg("busy", m.peer)))
        \/ T!Deliver(T!To(p, T!Msg("error", T!Nobody)))
        \/ T!Deliver(T!To(m.peer, T!Msg("ring", p)))
    BY DEF T!HandleCall
  <1>4. /\ T!To(p, T!Msg("busy", m.peer)) \in Post /\ T!To(p, T!Msg("error", T!Nobody)) \in Post
        /\ T!To(m.peer, T!Msg("ring", p)) \in Post
    BY <1>2, ToTyped
  <1>5. inbox' \in [Phones -> Seq(Letters)] BY <1>3, <1>4, DeliverTyped
  <1> QED BY <1>5 DEF T!HandleCall, Served, Counts

LEMMA ForwardServed ==
  ASSUME Mail, Counts, NEW p \in Phones, NEW m \in Messages,
         \/ m.type = "answer" /\ T!HandleAnswer(p, m)
         \/ m.type = "sdp" /\ T!HandleSignalingForward(p, m)
         \/ m.type = "restart" /\ T!HandleICERestart(p, m)
  PROVE  Served
  <1>1. m.type \in LetterTypes BY DEF LetterTypes
  <1>2. [m EXCEPT !.peer = p] \in Letters BY <1>1, Forwarded
  <1>3. T!Msg("error", T!Nobody) \in Letters
    BY LettersSent DEF LetterTypes, Parties, Nobody
  <1>4. PICK to \in Post : T!Deliver(to)
    <2>1. T!Nothing \in Post /\ T!To(m.peer, [m EXCEPT !.peer = p]) \in Post
          /\ T!To(p, T!Msg("error", T!Nobody)) \in Post
      BY <1>2, <1>3, ToTyped
    <2> QED
      BY <2>1 DEF T!HandleAnswer, T!HandleSignalingForward, T!HandleICERestart, T!SendToWithTimeout
  <1>5. inbox' \in [Phones -> Seq(Letters)] BY <1>4, DeliverTyped
  <1> QED BY <1>5 DEF T!HandleAnswer, T!HandleSignalingForward, T!HandleICERestart, T!server,
                      Served, Counts

LEMMA ConferenceEnded ==
  ASSUME Mail, Counts, T!EndConference
  PROVE  Served
  <1> DEFINE m == T!EndConf(conf)
             s == <<m>>
             to == [q \in Phones |-> IF q \in conf.members THEN s ELSE <<>>]
  <1>1. m \in Letters
    <2>1. T!Msg("end", T!Nobody) \in Letters
      BY LettersSent DEF LetterTypes, Parties, Nobody
    <2> QED BY <2>1 DEF T!EndConf, Counts, Confs, Letters
  <1>2. T!Deliver(to) BY DEF T!EndConference
  <1> HIDE DEF m
  <1>3. s \in Seq(Letters) BY <1>1
  <1> HIDE DEF s
  <1>4. to \in Post BY <1>3 DEF Post
  <1> HIDE DEF to
  <1>5. inbox' \in [Phones -> Seq(Letters)] BY <1>2, <1>4, DeliverTyped
  <1> QED BY <1>5, NoConfTyped DEF T!EndConference, Served, Counts

LEMMA MemberDropped ==
  ASSUME Mail, Counts, NEW p \in Phones, T!DropMember(p)
  PROVE  Served
  <1> DEFINE n == [T!Msg("leave", p) EXCEPT !.conf = conf.id]
             m == T!EndConf(conf)
             s == <<n, m>>
             rest == conf.members \ {p}
             to == [q \in Phones |-> IF q \in rest THEN s ELSE <<>>]
  <1>1. m \in Letters
    <2>1. T!Msg("end", T!Nobody) \in Letters
      BY LettersSent DEF LetterTypes, Parties, Nobody
    <2> QED BY <2>1 DEF T!EndConf, Counts, Confs, Letters
  <1>2. n \in Letters
    <2>1. T!Msg("leave", p) \in Letters BY LettersSent DEF LetterTypes, Parties
    <2> QED BY <2>1 DEF Counts, Confs, Letters
  <1>3. T!Deliver(to) BY DEF T!DropMember
  <1> HIDE DEF m, n
  <1>4. s \in Seq(Letters) BY <1>1, <1>2
  <1> HIDE DEF s
  <1>5. to \in Post BY <1>4 DEF Post
  <1> HIDE DEF to
  <1>6. inbox' \in [Phones -> Seq(Letters)] BY <1>3, <1>5, DeliverTyped
  <1> QED BY <1>6, NoConfTyped DEF T!DropMember, Served, Counts

LEMMA CallsEnded ==
  ASSUME Mail, Counts, NEW p \in Phones, NEW timeout \in BOOLEAN,
         T!EndActiveCallsAsHangup(p, timeout)
  PROVE  Served
  <1> DEFINE m == [T!Msg("hangup", p) EXCEPT !.flag = timeout]
             s == <<m>>
             to == [q \in Phones |-> IF T!InCall(p, q) THEN s ELSE <<>>]
  <1>1. m \in Letters
    <2>1. T!Msg("hangup", p) \in Letters BY LettersSent DEF LetterTypes, Parties
    <2> QED BY <2>1 DEF Letters
  <1>2. T!Deliver(to) BY DEF T!EndActiveCallsAsHangup
  <1> HIDE DEF m
  <1>3. s \in Seq(Letters) BY <1>1
  <1> HIDE DEF s
  <1>4. to \in Post BY <1>3 DEF Post
  <1> HIDE DEF to
  <1>5. inbox' \in [Phones -> Seq(Letters)] BY <1>2, <1>4, DeliverTyped
  <1> QED BY <1>5 DEF T!EndActiveCallsAsHangup, Served, Counts

LEMMA HangupServed ==
  ASSUME Mail, Counts, NEW p \in Phones, NEW m \in Messages, T!HandleHangup(p, m)
  PROVE  Served
  <1>1. m.flag \in BOOLEAN BY DEF Messages
  <1> QED BY <1>1, ConferenceEnded, MemberDropped, CallsEnded DEF T!HandleHangup

LEMMA MergeServed ==
  ASSUME Mail, Counts, NEW p \in Phones, NEW m \in Messages, T!HandleConferenceMerge(p, m)
  PROVE  Served
  <1> DEFINE held == m.peer
             active == m.other
             members == {p, held, active}
             able == /\ {held, active} \subseteq T!AllPeersOf(p)
                     /\ ~ T!IsBusy(held) /\ ~ T!IsBusy(active)
             member == [T!Msg("member", p) EXCEPT !.conf = confs + 1]
             connect(q, initiator) ==
               [T!Msg("connect", q) EXCEPT !.conf = confs + 1, !.flag = initiator]
             a == connect(active, held < active)
             h == connect(held, ~ (held < active))
             to == [q \in Phones |->
                     (IF q \in members THEN <<member>> ELSE <<>>)
                     \o (IF q = held THEN <<a>> ELSE <<>>)
                     \o (IF q = active THEN <<h>> ELSE <<>>)]
  <1>1. CASE able
    <2>1. held \in Phones /\ active \in Phones BY <1>1 DEF T!AllPeersOf
    <2>2. confs + 1 \in Nat BY DEF Counts
    <2>3. ASSUME NEW q \in Phones, NEW b \in BOOLEAN PROVE connect(q, b) \in Letters
      <3>1. T!Msg("connect", q) \in Letters BY LettersSent DEF LetterTypes, Parties
      <3> QED BY <2>2, <3>1 DEF Letters
    <2>4. a \in Letters /\ h \in Letters
      <3>1. (held < active) \in BOOLEAN OBVIOUS
      <3> HIDE DEF connect
      <3> QED BY <2>1, <2>3, <3>1
    <2>5. member \in Letters
      <3>1. T!Msg("member", p) \in Letters BY LettersSent DEF LetterTypes, Parties
      <3> QED BY <2>2, <3>1 DEF Letters
    <2>6. T!Deliver(to) /\ confs' = confs + 1
          /\ conf' = [id |-> confs', host |-> p, members |-> members]
      BY <1>1 DEF T!HandleConferenceMerge
    <2> HIDE DEF connect, member, a, h
    <2>7. to \in Post
      <3> SUFFICES ASSUME NEW q \in Phones
                   PROVE  (IF q \in members THEN <<member>> ELSE <<>>)
                            \o (IF q = held THEN <<a>> ELSE <<>>)
                            \o (IF q = active THEN <<h>> ELSE <<>>) \in Seq(Letters)
        BY DEF Post
      <3>1. <<member>> \in Seq(Letters) /\ <<a>> \in Seq(Letters) /\ <<h>> \in Seq(Letters)
            /\ <<>> \in Seq(Letters)
        BY <2>4, <2>5
      <3> HIDE DEF held, active, members
      <3> QED BY <3>1
    <2> HIDE DEF to
    <2>8. inbox' \in [Phones -> Seq(Letters)] BY <2>6, <2>7, DeliverTyped
    <2>9. members \in SUBSET Parties BY <2>1 DEF Parties
    <2> HIDE DEF members
    <2> QED BY <2>2, <2>6, <2>8, <2>9 DEF Served, Confs, Parties
  <1>2. CASE ~ able
    <2>1. T!Deliver(T!To(p, T!Msg("rejected", T!Nobody))) /\ UNCHANGED <<conf, confs>>
      BY <1>2 DEF T!HandleConferenceMerge
    <2>2. T!Msg("rejected", T!Nobody) \in Letters
      BY LettersSent DEF LetterTypes, Parties, Nobody
    <2>3. T!To(p, T!Msg("rejected", T!Nobody)) \in Post BY <2>2, ToTyped
    <2>4. inbox' \in [Phones -> Seq(Letters)] BY <2>1, <2>3, DeliverTyped
    <2> QED BY <2>1, <2>4 DEF Served, Counts
  <1> QED BY <1>1, <1>2

LEMMA ServeInv ==
  ASSUME ThreeWayInv, NEW p \in Phones, T!Serve(p)
  PROVE  ThreeWayInv'
  <1> DEFINE m == Head(outbox[p])
  <1>1. Mail /\ Counts /\ AllGood BY DEF ThreeWayInv
  <1>2. outbox[p] \in Seq(Messages) /\ outbox[p] # <<>> BY <1>1 DEF Mail, T!Serve
  <1>3. m \in Messages /\ Tail(outbox[p]) \in Seq(Messages) BY <1>2
  <1>4. m.type \in MessageTypes BY <1>3 DEF Messages
  <1>5. Served
    <2> HIDE DEF m
    <2>a. CASE m.type = "call"
      <3>1. T!HandleCall(p, m) BY <2>a DEF T!Serve, m
      <3> QED BY <1>1, <1>3, <3>1, CallServed
    <2>b. CASE m.type = "answer"
      <3>1. T!HandleAnswer(p, m) BY <2>b DEF T!Serve, m
      <3> QED BY <1>1, <1>3, <2>b, <3>1, ForwardServed
    <2>c. CASE m.type = "sdp"
      <3>1. T!HandleSignalingForward(p, m) BY <2>c DEF T!Serve, m
      <3> QED BY <1>1, <1>3, <2>c, <3>1, ForwardServed
    <2>d. CASE m.type = "restart"
      <3>1. T!HandleICERestart(p, m) BY <2>d DEF T!Serve, m
      <3> QED BY <1>1, <1>3, <2>d, <3>1, ForwardServed
    <2>e. CASE m.type = "hangup"
      <3>1. T!HandleHangup(p, m) BY <2>e DEF T!Serve, m
      <3> QED BY <1>1, <1>3, <3>1, HangupServed
    <2>f. CASE m.type = "merge"
      <3>1. T!HandleConferenceMerge(p, m) BY <2>f DEF T!Serve, m
      <3> QED BY <1>1, <1>3, <3>1, MergeServed
    <2> QED BY <1>4, <2>a, <2>b, <2>c, <2>d, <2>e, <2>f DEF MessageTypes
  <1>6. outbox' = [outbox EXCEPT ![p] = Tail(@)] /\ UNCHANGED <<phone, sids>> BY DEF T!Serve
  <1>7. outbox' \in [Phones -> Seq(Messages)] BY <1>1, <1>3, <1>6 DEF Mail
  <1> QED BY <1>1, <1>5, <1>6, <1>7 DEF ThreeWayInv, AllGood, Mail, Counts, Served

(* A daemon's step: its handler, and what that sends.                      *)
LEMMA StepInv ==
  ASSUME ThreeWayInv, NEW p \in Phones, NEW c, Good(c), T!Become(p, c),
         inbox' \in [Phones -> Seq(Letters)], sids' \in Nat, UNCHANGED <<conf, confs>>
  PROVE  ThreeWayInv'
  <1>1. AllGood' /\ outbox' \in [Phones -> Seq(Messages)] BY BecomeGood DEF ThreeWayInv
  <1> QED BY <1>1 DEF ThreeWayInv, Mail, Counts

LEMMA DaemonInv ==
  ASSUME ThreeWayInv, NEW p \in Phones, NEW c, Good(c), T!Daemon(p, c)
  PROVE  ThreeWayInv'
  <1>1. T!Become(p, c) /\ UNCHANGED <<inbox, sids, conf, confs>> BY DEF T!Daemon, T!server
  <1> QED BY <1>1, StepInv DEF ThreeWayInv, Mail, Counts

LEMMA UserInv ==
  ASSUME Nobody \notin Phones, ThreeWayInv, NEW p \in Phones,
         \/ T!Lift(p) \/ T!Cradle(p) \/ T!Flash(p)
         \/ \E number \in Phones : T!AddDial(p, number)
  PROVE  ThreeWayInv'
  <1>1. Good(phone[p]) BY DEF ThreeWayInv, AllGood
  <1>2. inbox \in [Phones -> Seq(Letters)] /\ sids \in Nat BY DEF ThreeWayInv, Mail, Counts
  <1>3. CASE T!Lift(p)
    <2>1. T!Become(p, T!OnHookOff(phone[p])) /\ UNCHANGED <<inbox, sids, conf, confs>>
      BY <1>3 DEF T!Lift, T!server
    <2> QED BY <1>1, <1>2, <2>1, LiftGood, StepInv
  <1>4. CASE T!Cradle(p)
    <2>1. T!Become(p, T!OnHookOn(phone[p])) /\ UNCHANGED <<inbox, sids, conf, confs>>
      BY <1>4 DEF T!Cradle, T!server
    <2> QED BY <1>1, <1>2, <2>1, CradleGood, StepInv
  <1>5. CASE T!Flash(p)
    <2>1. T!Become(p, T!OnHookFlash(phone[p])) /\ UNCHANGED <<inbox, sids, conf, confs>>
      BY <1>5 DEF T!Flash, T!server
    <2> QED BY <1>1, <1>2, <2>1, FlashGood, StepInv
  <1>6. CASE \E number \in Phones : T!AddDial(p, number)
    <2>1. PICK number \in Phones : T!AddDial(p, number) BY <1>6
    <2>2. /\ phone[p].state = "ADD_DIALTONE" /\ \A t \in phone[p].tasks : t.kind \notin T!Delays
          /\ T!Daemon(p, T!DialThirdParty(phone[p], number))
      BY <2>1 DEF T!AddDial
    <2> QED BY <1>1, <2>2, DialGood, DaemonInv
  <1> QED BY <1>3, <1>4, <1>5, <1>6

LEMMA GoroutineInv ==
  ASSUME Nobody \notin Phones, ThreeWayInv, NEW p \in Phones,
         \/ T!DialDelayEnds(p) \/ T!AddFailed(p) \/ T!TriggeredHangup(p)
         \/ T!ConnectDeadlinePasses(p) \/ T!DisconnectDebounce(p) \/ T!RestartTimer(p)
  PROVE  ThreeWayInv'
  <1>1. Good(phone[p]) BY DEF ThreeWayInv, AllGood
  <1>2. inbox \in [Phones -> Seq(Letters)] /\ sids \in Nat BY DEF ThreeWayInv, Mail, Counts
  <1>3. CASE T!DialDelayEnds(p)
    <2>1. PICK t \in phone[p].tasks, result \in {"sent", "unsent", "failed"} :
            /\ t.kind = "dial" /\ sids' = sids + 1
            /\ T!Become(p, T!InitiateCallAfterDelay(phone[p], t.number, sids', result))
            /\ UNCHANGED <<inbox, conf, confs>>
      BY <1>3 DEF T!DialDelayEnds, T!server
    <2>2. sids' \in Nat BY <1>2, <2>1
    <2>3. Good(T!InitiateCallAfterDelay(phone[p], t.number, sids', result))
      BY <1>1, <2>1, <2>2, DelayGood
    <2> QED BY <1>2, <2>1, <2>2, <2>3, StepInv
  <1>4. CASE T!AddFailed(p)
    <2>1. PICK t \in phone[p].tasks : t.kind = "intercept" BY <1>4 DEF T!AddFailed
    <2>2. T!Daemon(p, T!Intercept(phone[p])) BY <1>4 DEF T!AddFailed
    <2> QED BY <1>1, <2>1, <2>2, InterceptGood, DaemonInv
  <1>5. CASE T!TriggeredHangup(p)
    <2>1. T!Daemon(p, T!OnSignalHangup([phone[p] EXCEPT !.tasks = @ \ {HangupTask}], Nobody, FALSE))
      BY <1>5 DEF T!TriggeredHangup, HangupTask, Nobody
    <2> QED BY <1>1, <2>1, TriggeredGood, DaemonInv
  <1>6. CASE T!ConnectDeadlinePasses(p)
    BY <1>1, <1>6, DeadlineGood, DaemonInv DEF T!ConnectDeadlinePasses
  <1>7. CASE T!DisconnectDebounce(p)
    BY <1>1, <1>7, DebounceGood, DaemonInv DEF T!DisconnectDebounce
  <1>8. CASE T!RestartTimer(p)
    BY <1>1, <1>8, TimeoutGood, DaemonInv DEF T!RestartTimer
  <1> QED BY <1>3, <1>4, <1>5, <1>6, <1>7, <1>8

LEMMA ReceiveInv ==
  ASSUME Nobody \notin Phones, ThreeWayInv, NEW p \in Phones, T!Receive(p)
  PROVE  ThreeWayInv'
  <1> DEFINE m == Head(inbox[p])
  <1>1. Good(phone[p]) BY DEF ThreeWayInv, AllGood
  <1>2. inbox \in [Phones -> Seq(Letters)] /\ sids \in Nat BY DEF ThreeWayInv, Mail, Counts
  <1>3. inbox[p] \in Seq(Letters) /\ inbox[p] # <<>> BY <1>2 DEF T!Receive
  <1>4. m \in Letters /\ Tail(inbox[p]) \in Seq(Letters) BY <1>3
  <1>5. /\ sids' \in {sids, sids + 1} /\ T!Become(p, T!HandleSignal(phone[p], p, m, sids'))
        /\ inbox' = [inbox EXCEPT ![p] = Tail(@)] /\ UNCHANGED <<conf, confs>>
    BY DEF T!Receive, T!server
  <1> HIDE DEF m
  <1>6. sids' \in Nat BY <1>2, <1>5
  <1>7. Good(T!HandleSignal(phone[p], p, m, sids')) BY <1>1, <1>4, <1>6, SignalGood
  <1>8. inbox' \in [Phones -> Seq(Letters)] BY <1>2, <1>4, <1>5
  <1> QED BY <1>5, <1>6, <1>7, <1>8, StepInv

LEMMA MediaInv ==
  ASSUME ThreeWayInv, NEW p \in Phones,
         \/ T!MediaConnects(p)
         \/ \E state \in {"disconnected", "failed"} : T!MediaFails(p, state)
         \/ T!ReconnectSettles(p)
  PROVE  ThreeWayInv'
  <1>1. Good(phone[p]) BY DEF ThreeWayInv, AllGood
  <1>2. inbox \in [Phones -> Seq(Letters)] /\ sids \in Nat BY DEF ThreeWayInv, Mail, Counts
  <1>3. CASE T!MediaConnects(p)
    BY <1>1, <1>3, ConnectionGood, DaemonInv DEF T!MediaConnects, Links
  <1>4. CASE \E state \in {"disconnected", "failed"} : T!MediaFails(p, state)
    <2>1. PICK state \in {"disconnected", "failed"}, offered \in BOOLEAN :
            /\ T!Become(p, T!HandleConnectionStateChange(phone[p], state, offered))
            /\ UNCHANGED <<inbox, sids, conf, confs>>
      BY <1>4 DEF T!MediaFails, T!server
    <2>2. state \in Links BY DEF Links
    <2> QED BY <1>1, <1>2, <2>1, <2>2, ConnectionGood, StepInv
  <1>5. CASE T!ReconnectSettles(p)
    <2>1. PICK offered \in BOOLEAN :
            /\ T!Become(p, T!ResumeAfterReconnect(phone[p], offered))
            /\ UNCHANGED <<inbox, sids, conf, confs>>
      BY <1>5 DEF T!ReconnectSettles, T!server
    <2> QED BY <1>1, <1>2, <2>1, ResumeGood, StepInv
  <1> QED BY <1>3, <1>4, <1>5

LEMMA SocketInv ==
  ASSUME ThreeWayInv, NEW p \in Phones,
         \/ T!SocketBreaks(p) \/ T!OnDisconnect(p) \/ T!GraceExpires(p) \/ T!Reconnect(p)
  PROVE  ThreeWayInv'
  <1>1. AllGood /\ Mail /\ Counts BY DEF ThreeWayInv
  <1>2. CASE T!SocketBreaks(p)
    <2>1. <<>> \in Seq(Letters) /\ <<>> \in Seq(Messages) OBVIOUS
    <2> QED BY <1>1, <1>2, <2>1 DEF T!SocketBreaks, T!server, ThreeWayInv, AllGood, Mail, Counts
  <1>3. CASE T!OnDisconnect(p)
    <2>1. CASE T!IsBusy(p)
      <3>1. T!EndConference /\ UNCHANGED <<phone, outbox, sids>>
        BY <1>3, <2>1 DEF T!OnDisconnect
      <3>2. Served BY <1>1, <3>1, ConferenceEnded
      <3> QED BY <1>1, <3>1, <3>2 DEF ThreeWayInv, AllGood, Mail, Counts, Served
    <2>2. CASE ~ T!IsBusy(p)
      BY <1>1, <1>3, <2>2 DEF T!OnDisconnect, ThreeWayInv, AllGood, Mail, Counts
    <2> QED BY <2>1, <2>2
  <1>4. CASE T!GraceExpires(p)
    <2>1. CASE sockets[p] = "none"
      <3>1. T!EndActiveCallsAsHangup(p, FALSE) /\ UNCHANGED <<phone, outbox, sids>>
        BY <1>4, <2>1 DEF T!GraceExpires
      <3>2. Served BY <1>1, <3>1, CallsEnded
      <3> QED BY <1>1, <3>1, <3>2 DEF ThreeWayInv, AllGood, Mail, Counts, Served
    <2>2. CASE sockets[p] # "none"
      BY <1>1, <1>4, <2>2 DEF T!GraceExpires, ThreeWayInv, AllGood, Mail, Counts
    <2> QED BY <2>1, <2>2
  <1>5. CASE T!Reconnect(p)
    BY <1>1, <1>5 DEF T!Reconnect, ThreeWayInv, AllGood, Mail, Counts
  <1> QED BY <1>2, <1>3, <1>4, <1>5

LEMMA FreshGood ==
  ASSUME Nobody \notin Phones
  PROVE  /\ Good(T!Idle)
         /\ \A q \in Phones, caller \in BOOLEAN : Good(T!InCallWith(q, caller, 1))
  <1> DEFINE c == T!Idle
  <1>1. T!NoMesh \in [Phones -> Peers] /\ T!NoPeer \in Peers
        /\ \A q \in Phones : T!NoMesh[q] = T!NoPeer
    BY PeerStates DEF T!NoMesh
  <1>2. /\ c \in Daemons /\ c.state = "IDLE" /\ c.pm = T!NoPeer /\ c.offer = 0
        /\ c.caller = Nobody /\ c.restarting = FALSE /\ c.mesh = T!NoMesh /\ c.tasks = {}
    <2>1. <<>> \in Seq(Messages) OBVIOUS
    <2> QED BY <1>1, <2>1 DEF T!Idle, Daemons, T!States, Parties, Nobody, Links
  <1> HIDE DEF c
  <1>3. MeshOK(c) /\ \A q \in Phones : ~ c.mesh[q].muted
    BY <1>1, <1>2, PeerStates DEF MeshOK
  <1>4. Good(c)
    BY <1>1, <1>2, <1>3, PeerStates
    DEF Good, Placed, Offered, Delayed, Timed, Muted, MeshOK
  <1>5. ASSUME NEW q \in Phones, NEW b \in BOOLEAN PROVE Good(T!InCallWith(q, b, 1))
    <2> DEFINE a == T!Accepted(1)
               r == [c EXCEPT !.state = "CONNECTED", !.callPeer = q, !.pm = a,
                              !.isCaller = b, !.link = "connected"]
    <2>1. a \in Peers /\ ~ a.muted BY PeerStates
    <2>a. "CONNECTED" \in T!States /\ "connected" \in Links /\ q \in Parties
      BY DEF T!States, Links, Parties
    <2> HIDE DEF a
    <2>2. /\ r \in Daemons /\ r.state = "CONNECTED" /\ r.callPeer = q /\ r.pm = a
          /\ r.offer = 0 /\ r.restarting = FALSE /\ r.mesh = T!NoMesh /\ r.tasks = {}
      BY <1>2, <2>1, <2>a DEF Daemons
    <2> HIDE DEF r
    <2>3. Placed(r) /\ Offered(r) /\ Delayed(r) /\ Timed(r)
      BY <2>2 DEF Placed, Offered, Delayed, Timed
    <2>4. Muted(r) BY <1>1, <2>1, <2>2, PeerStates DEF Muted
    <2>5. Good(r) BY <2>2, <2>3, <2>4 DEF Good
    <2> QED BY <2>5 DEF T!InCallWith, r, c, a
  <1> QED BY <1>4, <1>5 DEF c

LEMMA ThreeWayInit ==
  ASSUME T!PhonesOK, T!StartOK, T!Init
  PROVE  ThreeWayInv
  <1>1. Nobody \notin Phones /\ Host \in Phones /\ Peer \in Phones
    BY DEF T!PhonesOK, T!StartOK, Nobody, T!Nobody
  <1>2. phone = [p \in Phones |-> CASE p = Host -> T!InCallWith(Peer, TRUE, 1)
                                    [] p = Peer -> T!InCallWith(Host, FALSE, 1)
                                    [] OTHER    -> T!Idle]
    BY DEF T!Init
  <1>3. \A p \in Phones : Good(phone[p])
    <2>1. Good(T!InCallWith(Peer, TRUE, 1)) /\ Good(T!InCallWith(Host, FALSE, 1)) /\ Good(T!Idle)
      BY <1>1, FreshGood
    <2> SUFFICES ASSUME NEW p \in Phones PROVE Good(phone[p]) OBVIOUS
    <2>2. phone[p] \in {T!InCallWith(Peer, TRUE, 1), T!InCallWith(Host, FALSE, 1), T!Idle}
      BY <1>2
    <2> QED BY <2>1, <2>2
  <1>4. AllGood
    <2>1. \A p \in Phones : phone[p] \in Daemons BY <1>3, GoodIs
    <2> QED BY <1>2, <1>3, <2>1 DEF AllGood
  <1>5. Mail
    <2>1. <<>> \in Seq(Letters) /\ <<>> \in Seq(Messages) OBVIOUS
    <2> QED BY <2>1 DEF T!Init, Mail
  <1>6. Counts BY NoConfTyped DEF T!Init, Counts
  <1> QED BY <1>4, <1>5, <1>6 DEF ThreeWayInv

LEMMA ThreeWayInductive ==
  ASSUME T!PhonesOK, ThreeWayInv, [T!Next]_(T!vars)
  PROVE  ThreeWayInv'
  <1>1. Nobody \notin Phones BY DEF T!PhonesOK, Nobody, T!Nobody
  <1>2. CASE UNCHANGED T!vars
    BY <1>2 DEF T!vars, T!server, ThreeWayInv, AllGood, Mail, Counts
  <1>3. CASE T!Next
    <2>1. PICK p \in Phones :
            \/ T!Lift(p) \/ T!Cradle(p) \/ T!Flash(p)
            \/ \E number \in Phones : T!AddDial(p, number)
            \/ T!DialDelayEnds(p) \/ T!AddFailed(p) \/ T!TriggeredHangup(p)
            \/ T!ConnectDeadlinePasses(p) \/ T!DisconnectDebounce(p) \/ T!RestartTimer(p)
            \/ T!Receive(p) \/ T!MediaConnects(p)
            \/ \E state \in {"disconnected", "failed"} : T!MediaFails(p, state)
            \/ T!ReconnectSettles(p) \/ T!Serve(p)
            \/ T!SocketBreaks(p) \/ T!OnDisconnect(p) \/ T!GraceExpires(p) \/ T!Reconnect(p)
      BY <1>3 DEF T!Next
    <2> QED
      BY <1>1, <2>1, UserInv, GoroutineInv, ReceiveInv, MediaInv, ServeInv, SocketInv
  <1> QED BY <1>2, <1>3

LEMMA ThreeWayAlways ==
  ASSUME T!PhonesOK, T!StartOK
  PROVE  T!Spec => []ThreeWayInv
  <1>1. T!Init => ThreeWayInv BY ThreeWayInit
  <1>2. ThreeWayInv /\ [T!Next]_(T!vars) => ThreeWayInv' BY ThreeWayInductive
  <1> QED BY <1>1, <1>2, PTL DEF T!Spec

(* A recovery of the current two-party call always ends: the restart       *)
(* timeout runs, or it, or a restart without an offer, has already asked   *)
(* for the hang-up (enterICERecovery, ICERestart, onICERestartTimeout).    *)
THEOREM RecoveriesEnd == T!Spec => []RecoveryIsTimed
  <1>1. ThreeWayInv => RecoveryIsTimed
    BY DEF RecoveryIsTimed, ThreeWayInv, AllGood, Good, Timed, T!RecoveryIsTimed,
           HangupTask, Nobody
  <1>2. T!Spec => []ThreeWayInv BY ThreeWayAlways, ThreeWayAssumption
  <1> QED BY <1>1, <1>2, PTL

(* A mute never outlives the add it was set for, however that ends: by a   *)
(* merge, a flash, a refusal, a hang-up, the cradle or a reconnect         *)
(* (enterAddDialtone, requestMerge, abortAdd, HandleConferenceRejected).   *)
THEOREM MutesEnd == T!Spec => []T!MutesEndWithTheAdd
  <1>1. ThreeWayInv => T!MutesEndWithTheAdd
    <2> SUFFICES ASSUME ThreeWayInv, NEW p \in Phones
                 PROVE  /\ \A q \in Phones \ T!Held(p) : ~ phone[p].mesh[q].muted
                        /\ ~ phone[p].pm.muted
      BY DEF T!MutesEndWithTheAdd
    <2>1. Muted(phone[p]) BY DEF ThreeWayInv, AllGood, Good
    <2>2. \A q \in Phones : q # T!Nobody BY ThreeWayAssumption DEF T!PhonesOK, T!Nobody
    <2> QED BY <2>1, <2>2 DEF Muted, T!Held
  <1>2. T!Spec => []ThreeWayInv BY ThreeWayAlways, ThreeWayAssumption
  <1> QED BY <1>1, <1>2, PTL
=============================================================================
