-------------------------- MODULE CallTrackerProofs --------------------------
(***************************************************************************)
(* Proofs about CallTracker, for every set of phones, conferences and      *)
(* goroutines and every number of rows, failures and restarts: the memory  *)
(* of the tracker is sound, a conference leaves at most one continuation   *)
(* call, and a merged call is tracked no longer.                           *)
(***************************************************************************)
EXTENDS CallTracker, FiniteSetTheorems, TLAPS

(***************************************************************************)
(* The inductive invariant.  Types, the member index, the active map and   *)
(* the two properties of the tables are not enough: between two of its     *)
(* locks a goroutine relies on what it carries with it.  JobOK says, of a  *)
(* job j and the state it runs in, what that is.  The state is passed as   *)
(* arguments: rs the rows, ac the active map, cs and cm the conferences'   *)
(* states and members.                                                     *)
(***************************************************************************)
\* The three parties are known; ids of calls to merge are held.
Merging == {"mergeAdded", "heldFree", "addedFree", "callId", "heldId", "addedId", "create"}
Holding == {"heldId", "addedId", "create", "createTx", "purge"}
InConf == {"createTx", "purge", "rollback", "endConf", "endConfTx", "drop", "dropTx", "register"}
Dropping == {"drop", "dropTx", "register"}
Pending(j) == j.pc \in {"publish", "register"}   \* a row is inserted and not yet in the map

Three(a, b, c) == a # b /\ a # c /\ b # c
ThreePhones(S) == \E a, b, c \in Phones : Three(a, b, c) /\ S = {a, b, c}

\* ContinuationPair, for a conference with members S that n drops out of.
PairLeft(S, n) ==
  LET a == CHOOSE p \in S \ {n} : \A q \in S \ {n} : p <= q
      b == CHOOSE p \in S \ {n} : p # a
  IN  sortedPair(a, b)

JobOK(j, rs, ac, cs, cm) ==
  /\ j.pc \in Merging => \E a, b \in Phones : /\ j.num \in Phones /\ Three(j.num, a, b)
                                              /\ j.peers = {a, b} /\ j.peer = a
  /\ j.pc \in Merging \ Holding => j.ids = {}
  /\ j.pc \in Holding => \A i \in j.ids : /\ rs[i].status # "none"
                                          /\ rs[i].caller \in {j.num} \cup j.peers
                                          /\ rs[i].callee \in {j.num} \cup j.peers
  /\ j.pc \in InConf => j.conf \in ConfIds /\ cs[j.conf] # "fresh"
  /\ j.pc \in {"createTx", "purge"} => cm[j.conf] = {j.num} \cup j.peers
  /\ j.pc \in Dropping => j.num \in cm[j.conf]
  /\ j.pc \in {"dropTx", "register"} => cs[j.conf] = "ended"
  /\ j.pc = "dropTx" => \A i \in CallIds : rs[i].orig # j.conf
  /\ j.pc = "publish" => rs[j.id].caller = j.num /\ rs[j.id].callee = j.peer
  /\ j.pc = "register" => <<rs[j.id].caller, rs[j.id].callee>> = PairLeft(cm[j.conf], j.num)
  /\ Pending(j) => /\ j.id \in CallIds /\ rs[j.id].status # "none" /\ ~rs[j.id].merged
                   /\ \A k \in Pairs : ac[k] # j.id

\* Two goroutines neither drop from one conference nor carry one row.
Apart(j, k) ==
  /\ j.pc = "dropTx" /\ k.pc = "dropTx" => j.conf # k.conf
  /\ Pending(j) /\ Pending(k) => j.id # k.id
  /\ Pending(j) /\ k.pc \in Holding => j.id \notin k.ids
  /\ Pending(k) /\ j.pc \in Holding => k.id \notin j.ids

RowsInserted ==
  \A i \in CallIds : /\ rows[i].status = "none" <=> i >= nextId
                     /\ rows[i].status = "none" => rows[i].orig = NoConf /\ ~rows[i].merged

ConferencesFilled ==
  \A c \in ConfIds :
    /\ confState[c] = "fresh" => confMembers[c] = {}
    /\ confState[c] # "fresh" => ThreePhones(confMembers[c])
    /\ confState[c] # "ended" => \A i \in CallIds : rows[i].orig # c

JobsOK == \A t \in Threads : JobOK(thread[t], rows, active, confState, confMembers)
JobsApart == \A t, u \in Threads : t # u => Apart(thread[t], thread[u])

IInv ==
  /\ TypeOK /\ RowsInserted /\ ConferencesFilled /\ JobsOK /\ JobsApart
  /\ ConferenceIndexSound /\ ActiveNamesItsRow /\ ContinuationOnce /\ MergedCallsRetired

USE PhonesAssumption, ConfIdsAssumption, BoundsAssumption
-----------------------------------------------------------------------------
(* Types.                                                                  *)

LEMMA IdleType == Idle \in Job
  BY DEF Idle, Job, PCs, CallIds, NoPhone

(* One field of a job is assigned.                                         *)
LEMMA JobField ==
  ASSUME NEW j \in Job
  PROVE  /\ \A pc \in PCs : [j EXCEPT !.pc = pc] \in Job
         /\ \A p \in Phones \cup {NoPhone} : [j EXCEPT !.num = p] \in Job
         /\ \A p \in Phones \cup {NoPhone} : [j EXCEPT !.peer = p] \in Job
         /\ \A c \in ConfIds \cup {NoConf} : [j EXCEPT !.conf = c] \in Job
         /\ \A i \in 0 .. MaxCalls : [j EXCEPT !.id = i] \in Job
         /\ \A S \in SUBSET Phones : [j EXCEPT !.peers = S] \in Job
         /\ \A S \in SUBSET CallIds : [j EXCEPT !.ids = S] \in Job
         /\ \A b \in BOOLEAN : [j EXCEPT !.clear = b] \in Job
  <1>1. \A pc \in PCs : [j EXCEPT !.pc = pc] \in Job BY DEF Job
  <1>2. \A p \in Phones \cup {NoPhone} : [j EXCEPT !.num = p] \in Job BY DEF Job
  <1>3. \A p \in Phones \cup {NoPhone} : [j EXCEPT !.peer = p] \in Job BY DEF Job
  <1>4. \A c \in ConfIds \cup {NoConf} : [j EXCEPT !.conf = c] \in Job BY DEF Job
  <1>5. \A i \in 0 .. MaxCalls : [j EXCEPT !.id = i] \in Job BY DEF Job
  <1>6. \A S \in SUBSET Phones : [j EXCEPT !.peers = S] \in Job BY DEF Job
  <1>7. \A S \in SUBSET CallIds : [j EXCEPT !.ids = S] \in Job BY DEF Job
  <1>8. \A b \in BOOLEAN : [j EXCEPT !.clear = b] \in Job BY DEF Job
  <1> QED BY <1>1, <1>2, <1>3, <1>4, <1>5, <1>6, <1>7, <1>8

(* What the statements make of a row.                                      *)
LEMMA RowEdits ==
  ASSUME NEW r \in Row
  PROVE  /\ [r EXCEPT !.status = "ended"] \in Row
         /\ [r EXCEPT !.status = "connected"] \in Row
         /\ [r EXCEPT !.status = "ended", !.merged = TRUE] \in Row
  <1>1. [r EXCEPT !.status = "ended"] \in Row BY DEF Row
  <1>2. [r EXCEPT !.status = "connected"] \in Row BY DEF Row
  <1>3. [[r EXCEPT !.status = "ended"] EXCEPT !.merged = TRUE] \in Row BY <1>1 DEF Row
  <1> QED BY <1>1, <1>2, <1>3

LEMMA GotoType ==
  ASSUME thread \in [Threads -> Job], NEW t \in Threads, NEW j \in Job, Goto(t, j)
  PROVE  /\ thread' \in [Threads -> Job]
         /\ thread'[t] = j
         /\ \A u \in Threads \ {t} : thread'[u] = thread[u]
  BY DEF Goto

LEMMA EndRowsType ==
  ASSUME rows \in [CallIds -> Row], NEW S, EndRows(S)
  PROVE  rows' \in [CallIds -> Row]
  <1>1. \A i \in CallIds : rows[i] \in Row OBVIOUS
  <1>2. \A i \in CallIds : [rows[i] EXCEPT !.status = "ended"] \in Row BY <1>1, RowEdits
  <1> QED BY <1>1, <1>2 DEF EndRows

LEMMA InsertRowType ==
  ASSUME rows \in [CallIds -> Row], nextId \in 1 .. (MaxCalls + 1),
         NEW pair, pair[1] \in Phones \cup {NoPhone}, pair[2] \in Phones \cup {NoPhone},
         NEW st \in {"initiated", "connected"}, NEW c \in ConfIds \cup {NoConf},
         InsertRow(pair, st, c)
  PROVE  rows' \in [CallIds -> Row] /\ nextId' \in 1 .. (MaxCalls + 1) /\ nextId \in CallIds
  <1>1. [caller |-> pair[1], callee |-> pair[2], status |-> st, merged |-> FALSE, orig |-> c] \in Row
    BY DEF Row
  <1> QED BY <1>1 DEF InsertRow, CallIds

LEMMA RemoveActiveType ==
  ASSUME active \in [Pairs -> 0 .. MaxCalls], NEW S, RemoveActive(S)
  PROVE  /\ active' \in [Pairs -> 0 .. MaxCalls]
         /\ \A k \in Pairs : active'[k] = IF k \in S THEN 0 ELSE active[k]
  BY DEF RemoveActive

LEMMA RemoveConferenceType ==
  ASSUME TypeOK, NEW c, RemoveConference(c)
  PROVE  /\ active' \in [Pairs -> 0 .. MaxCalls]
         /\ memberIndex' \in [Phones -> ConfIds \cup {NoConf}]
         /\ confState' \in [ConfIds -> {"fresh", "active", "ended"}]
         /\ confHost' \in [ConfIds -> Phones \cup {NoPhone}]
         /\ confMembers' \in [ConfIds -> SUBSET Phones]
  BY DEF TypeOK, RemoveConference

(* A step that only moves one goroutine.                                   *)
LEMMA MoveType ==
  ASSUME TypeOK, NEW t \in Threads, NEW j \in Job, Goto(t, j),
         UNCHANGED <<memory, database, bounds>>
  PROVE  TypeOK'
  <1>1. thread' \in [Threads -> Job] BY GotoType DEF TypeOK
  <1> QED BY <1>1 DEF TypeOK, memory, database, bounds

LEMMA DbFailsType ==
  ASSUME TypeOK, NEW t \in Threads, NEW j \in Job, DbFails(t, j)
  PROVE  TypeOK'
  <1>1. thread' \in [Threads -> Job] BY GotoType DEF TypeOK, DbFails
  <1>2. failures' \in 0 .. MaxFailures BY DEF TypeOK, DbFails
  <1> QED BY <1>1, <1>2 DEF TypeOK, DbFails, memory, database

(* The jobs that follow a peer and a conference.                           *)
LEMMA NextPeerType == ASSUME TypeOK, NEW t \in Threads PROVE NextPeer(t) \in Job
  <1>1. thread[t] \in Job BY DEF TypeOK
  <1>2. [thread[t] EXCEPT !.pc = "endLock"] \in Job BY <1>1, JobField DEF PCs
  <1>3. [[thread[t] EXCEPT !.pc = "endLock"] EXCEPT !.peer = NoPhone] \in Job BY <1>2, JobField
  <1> QED BY <1>3, IdleType DEF NextPeer

LEMMA AfterConferenceType == ASSUME TypeOK, NEW t \in Threads PROVE AfterConference(t) \in Job
  <1>1. thread[t].num \in Phones \cup {NoPhone} BY DEF TypeOK, Job
  <1>2. [Idle EXCEPT !.pc = "clearLock"] \in Job BY IdleType, JobField DEF PCs
  <1>3. [[Idle EXCEPT !.pc = "clearLock"] EXCEPT !.num = thread[t].num] \in Job
    BY <1>1, <1>2, JobField
  <1> QED BY <1>3, IdleType DEF AfterConference

LEMMA RequestType ==
  ASSUME TypeOK, NEW t \in Threads, Request(t)
  PROVE  TypeOK'
  <1>1. \A pc \in PCs : [Idle EXCEPT !.pc = pc] \in Job BY IdleType, JobField
  <1>2. ASSUME NEW n \in Phones PROVE memberIndex[n] # NoConf => memberIndex[n] \in ConfIds
    BY DEF TypeOK
  <1>3. ASSUME NEW a \in Phones, NEW b \in Phones, CallStart(t, a, b) PROVE TypeOK'
    <2>1. [Idle EXCEPT !.pc = "busyTo", !.num = a, !.peer = b] \in Job
      <3>1. [Idle EXCEPT !.pc = "busyTo"] \in Job BY <1>1 DEF PCs
      <3>2. [[Idle EXCEPT !.pc = "busyTo"] EXCEPT !.num = a] \in Job BY <3>1, JobField
      <3>3. [[[Idle EXCEPT !.pc = "busyTo"] EXCEPT !.num = a] EXCEPT !.peer = b] \in Job
        BY <3>2, JobField
      <3> QED BY <3>3
    <2> QED BY <1>3, <2>1, MoveType DEF CallStart
  <1>4. ASSUME NEW a \in Phones, NEW b \in Phones, AnswerStart(t, a, b) PROVE TypeOK'
    <2>1. [Idle EXCEPT !.pc = "answer", !.num = b, !.peer = a] \in Job
      <3>1. [Idle EXCEPT !.pc = "answer"] \in Job BY <1>1 DEF PCs
      <3>2. [[Idle EXCEPT !.pc = "answer"] EXCEPT !.num = b] \in Job BY <3>1, JobField
      <3>3. [[[Idle EXCEPT !.pc = "answer"] EXCEPT !.num = b] EXCEPT !.peer = a] \in Job
        BY <3>2, JobField
      <3> QED BY <3>3
    <2> QED BY <1>4, <2>1, MoveType DEF AnswerStart
  <1>5. ASSUME NEW n \in Phones, HangupStart(t, n) PROVE TypeOK'
    <2>1. UNCHANGED <<memory, database, bounds>> BY <1>5 DEF HangupStart
    <2>2. CASE memberIndex[n] # NoConf
      <3>1. [Idle EXCEPT !.pc = "endConf", !.num = n, !.conf = memberIndex[n]] \in Job
        <4>1. [Idle EXCEPT !.pc = "endConf"] \in Job BY <1>1 DEF PCs
        <4>2. [[Idle EXCEPT !.pc = "endConf"] EXCEPT !.num = n] \in Job BY <4>1, JobField
        <4>3. [[[Idle EXCEPT !.pc = "endConf"] EXCEPT !.num = n] EXCEPT !.conf = memberIndex[n]] \in Job
          BY <4>2, <1>2, <2>2, JobField
        <4> QED BY <4>3
      <3>2. [Idle EXCEPT !.pc = "drop", !.num = n, !.conf = memberIndex[n]] \in Job
        <4>1. [Idle EXCEPT !.pc = "drop"] \in Job BY <1>1 DEF PCs
        <4>2. [[Idle EXCEPT !.pc = "drop"] EXCEPT !.num = n] \in Job BY <4>1, JobField
        <4>3. [[[Idle EXCEPT !.pc = "drop"] EXCEPT !.num = n] EXCEPT !.conf = memberIndex[n]] \in Job
          BY <4>2, <1>2, <2>2, JobField
        <4> QED BY <4>3
      <3> QED BY <1>5, <2>1, <2>2, <3>1, <3>2, MoveType DEF HangupStart
    <2>3. CASE memberIndex[n] = NoConf
      <3>1. AllPeersOf(n) \in SUBSET Phones BY DEF AllPeersOf
      <3>2. [Idle EXCEPT !.pc = "endLock", !.num = n, !.peers = AllPeersOf(n)] \in Job
        <4>1. [Idle EXCEPT !.pc = "endLock"] \in Job BY <1>1 DEF PCs
        <4>2. [[Idle EXCEPT !.pc = "endLock"] EXCEPT !.num = n] \in Job BY <4>1, <3>1, JobField
        <4>3. [[[Idle EXCEPT !.pc = "endLock"] EXCEPT !.num = n] EXCEPT !.peers = AllPeersOf(n)] \in Job
          BY <4>2, <3>1, JobField
        <4> QED BY <4>3
      <3> QED BY <1>5, <2>1, <2>3, <3>2, MoveType DEF HangupStart
    <2> QED BY <2>2, <2>3
  <1>6. ASSUME NEW n \in Phones, DisconnectStart(t, n) PROVE TypeOK'
    <2>1. UNCHANGED <<memory, database, bounds>> BY <1>6 DEF DisconnectStart
    <2>2. CASE memberIndex[n] # NoConf
      <3>1. [Idle EXCEPT !.pc = "endConf", !.num = n, !.conf = memberIndex[n], !.clear = TRUE] \in Job
        <4>1. [Idle EXCEPT !.pc = "endConf"] \in Job BY <1>1 DEF PCs
        <4>2. [[Idle EXCEPT !.pc = "endConf"] EXCEPT !.num = n] \in Job BY <4>1, <1>2, <2>2, JobField
        <4>3. [[[Idle EXCEPT !.pc = "endConf"] EXCEPT !.num = n] EXCEPT !.conf = memberIndex[n]] \in Job
          BY <4>2, <1>2, <2>2, JobField
        <4>4. [[[[Idle EXCEPT !.pc = "endConf"] EXCEPT !.num = n] EXCEPT !.conf = memberIndex[n]] EXCEPT !.clear = TRUE] \in Job
          BY <4>3, <1>2, <2>2, JobField
        <4> QED BY <4>4
      <3> QED BY <1>6, <2>1, <2>2, <3>1, MoveType DEF DisconnectStart
    <2>3. CASE memberIndex[n] = NoConf
      <3>1. [Idle EXCEPT !.pc = "clearLock", !.num = n] \in Job
        <4>1. [Idle EXCEPT !.pc = "clearLock"] \in Job BY <1>1 DEF PCs
        <4>2. [[Idle EXCEPT !.pc = "clearLock"] EXCEPT !.num = n] \in Job BY <4>1, JobField
        <4> QED BY <4>2
      <3> QED BY <1>6, <2>1, <2>3, <3>1, MoveType DEF DisconnectStart
    <2> QED BY <2>2, <2>3
  <1>7. ASSUME NEW h \in Phones, NEW x \in Phones, NEW y \in Phones, MergeStart(t, h, x, y)
        PROVE  TypeOK'
    <2>1. [Idle EXCEPT !.pc = "mergeAdded", !.num = h, !.peer = x, !.peers = {x, y}] \in Job
      <3>1. [Idle EXCEPT !.pc = "mergeAdded"] \in Job BY <1>1 DEF PCs
      <3>2. [[Idle EXCEPT !.pc = "mergeAdded"] EXCEPT !.num = h] \in Job BY <3>1, JobField
      <3>3. [[[Idle EXCEPT !.pc = "mergeAdded"] EXCEPT !.num = h] EXCEPT !.peer = x] \in Job
        BY <3>2, JobField
      <3>4. [[[[Idle EXCEPT !.pc = "mergeAdded"] EXCEPT !.num = h] EXCEPT !.peer = x]
               EXCEPT !.peers = {x, y}] \in Job
        BY <3>3, JobField
      <3> QED BY <3>4
    <2> QED BY <1>7, <2>1, MoveType DEF MergeStart
  <1>8. ASSUME NEW c \in ConfIds, NEW n \in Phones, KickStart(t, c, n) PROVE TypeOK'
    <2>1. [Idle EXCEPT !.pc = "drop", !.num = n, !.conf = c] \in Job
      <3>1. [Idle EXCEPT !.pc = "drop"] \in Job BY <1>1 DEF PCs
      <3>2. [[Idle EXCEPT !.pc = "drop"] EXCEPT !.num = n] \in Job BY <3>1, JobField
      <3>3. [[[Idle EXCEPT !.pc = "drop"] EXCEPT !.num = n] EXCEPT !.conf = c] \in Job BY <3>2, JobField
      <3> QED BY <3>3
    <2> QED BY <1>8, <2>1, MoveType DEF KickStart
  <1>9. Callers \subseteq Phones OBVIOUS
  <1> QED BY <1>3, <1>4, <1>5, <1>6, <1>7, <1>8, <1>9 DEF Request

\* The host, the held party and the one that is added.
MergeParties(j) ==
  \E a, b \in Phones : /\ j.num \in Phones /\ Three(j.num, a, b)
                       /\ j.peers = {a, b} /\ j.peer = a

LEMMA AddedParty ==
  ASSUME NEW t \in Threads, MergeParties(thread[t])
  PROVE  thread[t].num \in Phones /\ thread[t].peer \in Phones /\ Added(t) \in Phones
         /\ {thread[t].peer, Added(t)} \subseteq thread[t].peers
  <1>1. PICK a \in Phones, b \in Phones :
          /\ thread[t].num \in Phones /\ Three(thread[t].num, a, b)
          /\ thread[t].peers = {a, b} /\ thread[t].peer = a
    BY DEF MergeParties
  <1>2. Added(t) = b BY <1>1 DEF Added, Three
  <1> QED BY <1>1, <1>2

(* A check moves the goroutine on or ends its request.                     *)
LEMMA CheckMoves ==
  ASSUME NEW t, NEW ok, NEW pc, NEW j, Check(t, ok, pc, j)
  PROVE  /\ Goto(t, [thread[t] EXCEPT !.pc = pc]) \/ Goto(t, j)
         /\ UNCHANGED <<memory, database, bounds>>
  BY DEF Check, Become

LEMMA ProceedType ==
  ASSUME TypeOK, NEW t \in Threads, Proceed(t),
         thread[t].pc \in Merging => MergeParties(thread[t]),
         thread[t].pc = "dropTx" => /\ ContinuationPair(t)[1] \in Phones
                                    /\ ContinuationPair(t)[2] \in Phones
  PROVE  TypeOK'
  <1> DEFINE job == thread[t]
  <1>1. /\ job \in Job /\ Idle \in Job /\ NextPeer(t) \in Job /\ AfterConference(t) \in Job
        /\ thread \in [Threads -> Job]
    BY IdleType, NextPeerType, AfterConferenceType DEF TypeOK
  <1>2. /\ job.num \in Phones \cup {NoPhone} /\ job.peer \in Phones \cup {NoPhone}
        /\ job.conf \in ConfIds \cup {NoConf} /\ job.id \in 0 .. MaxCalls
        /\ job.peers \in SUBSET Phones /\ job.ids \in SUBSET CallIds
    BY <1>1 DEF Job
  <1>3. \A pc \in PCs : [job EXCEPT !.pc = pc] \in Job
    <2> HIDE DEF job
    <2> QED BY <1>1, JobField
  <1>40. ASSUME NEW ok, NEW pc \in PCs, NEW j \in Job, Check(t, ok, pc, j) PROVE TypeOK'
    <2>1. [job EXCEPT !.pc = pc] \in Job BY <1>3
    <2> QED BY <1>40, <2>1, CheckMoves, MoveType
  <1>4. CASE BusyTo(t) \/ BusyFrom(t) \/ CanAddAsHost(t) \/ MergeChecks(t)
    <2>1. /\ {"busyFrom", "busyFromCalls", "addHost", "addHostCalls", "insert"} \subseteq PCs
          /\ {"heldFree", "addedFree", "callId"} \subseteq PCs
      BY DEF PCs
    <2>2. [job EXCEPT !.pc = "addHost"] \in Job BY <1>3, <2>1
    <2>3. CASE BusyTo(t) BY <1>1, <1>40, <2>1, <2>3 DEF BusyTo
    <2>4. CASE BusyFrom(t) BY <1>40, <2>1, <2>2, <2>4 DEF BusyFrom
    <2>5. CASE CanAddAsHost(t) BY <1>1, <1>40, <2>1, <2>5 DEF CanAddAsHost
    <2>6. CASE MergeChecks(t) BY <1>1, <1>40, <2>1, <2>6 DEF MergeChecks
    <2> QED BY <1>4, <2>3, <2>4, <2>5, <2>6
  <1>5. CASE OnCallInitiatedInsert(t)
    <2>1. InsertRow(<<job.num, job.peer>>, "initiated", NoConf) BY <1>5 DEF OnCallInitiatedInsert
    <2>2. rows' \in [CallIds -> Row] /\ nextId' \in 1 .. (MaxCalls + 1) /\ nextId \in CallIds
      <3> DEFINE pair == <<job.num, job.peer>>
      <3>1. pair[1] \in Phones \cup {NoPhone} /\ pair[2] \in Phones \cup {NoPhone} BY <1>2
      <3>2. InsertRow(pair, "initiated", NoConf) BY <2>1
      <3> HIDE DEF pair
      <3> QED BY <3>1, <3>2, InsertRowType DEF TypeOK
    <2>3. [job EXCEPT !.pc = "publish", !.id = nextId] \in Job
      <3>1. nextId \in 0 .. MaxCalls BY <2>2 DEF CallIds
      <3> HIDE DEF job
      <3>2. [[job EXCEPT !.pc = "publish"] EXCEPT !.id = nextId] \in Job
        BY <1>3, <3>1, JobField DEF PCs
      <3> QED BY <3>2
    <2>4. thread' \in [Threads -> Job] BY <1>1, <1>5, <2>3, GotoType DEF OnCallInitiatedInsert
    <2> QED BY <1>5, <2>2, <2>4 DEF OnCallInitiatedInsert, TypeOK, memory, bounds
  <1>6. CASE OnCallInitiatedPublish(t)
    <2>1. active' \in [Pairs -> 0 .. MaxCalls] BY <1>2, <1>6 DEF OnCallInitiatedPublish, TypeOK
    <2>2. thread' \in [Threads -> Job] BY <1>1, <1>6, GotoType DEF OnCallInitiatedPublish
    <2> QED BY <1>6, <2>1, <2>2 DEF OnCallInitiatedPublish, TypeOK, database, bounds
  <1>7. CASE OnCallAnswered(t)
    <2>1. \A i \in CallIds : rows[i] \in Row BY DEF TypeOK
    <2>2. \A i \in CallIds : [rows[i] EXCEPT !.status = "connected"] \in Row BY <2>1, RowEdits
    <2>3. rows' \in [CallIds -> Row] BY <1>7, <2>1, <2>2 DEF OnCallAnswered
    <2>4. thread' \in [Threads -> Job] BY <1>1, <1>7, GotoType DEF OnCallAnswered
    <2> QED BY <1>7, <2>3, <2>4 DEF OnCallAnswered, TypeOK, memory, bounds
  <1>8. ASSUME NEW p \in Phones, OnCallEndedLock(t, p) PROVE TypeOK'
    <2>1. active' \in [Pairs -> 0 .. MaxCalls]
      BY <1>8, RemoveActiveType DEF OnCallEndedLock, TypeOK
    <2>2. [job EXCEPT !.pc = "endRow", !.peer = p, !.peers = @ \ {p}] \in Job
      <3>1. job.peers \ {p} \in SUBSET Phones BY <1>2
      <3> HIDE DEF job
      <3>2. [[[job EXCEPT !.pc = "endRow"] EXCEPT !.peer = p] EXCEPT !.peers = job.peers \ {p}] \in Job
        BY <1>3, <3>1, JobField DEF PCs
      <3> QED BY <1>1, <3>2 DEF Job
    <2>3. thread' \in [Threads -> Job] BY <1>1, <1>8, <2>2, GotoType DEF OnCallEndedLock
    <2> QED BY <1>8, <2>1, <2>3 DEF OnCallEndedLock, TypeOK, database, bounds
  <1>9. CASE OnCallEndedRow(t)
    <2>1. rows' \in [CallIds -> Row] BY <1>9, EndRowsType DEF OnCallEndedRow, TypeOK
    <2>2. thread' \in [Threads -> Job] BY <1>1, <1>9, GotoType DEF OnCallEndedRow
    <2> QED BY <1>9, <2>1, <2>2 DEF OnCallEndedRow, TypeOK, memory, bounds
  <1>10. CASE ClearByNumberLock(t)
    <2>1. active' \in [Pairs -> 0 .. MaxCalls]
      BY <1>10, RemoveActiveType DEF ClearByNumberLock, TypeOK
    <2>2. [job EXCEPT !.pc = "clearRows"] \in Job BY <1>3 DEF PCs
    <2>3. thread' \in [Threads -> Job] BY <1>1, <1>10, <2>2, GotoType DEF ClearByNumberLock, Become
    <2> QED BY <1>10, <2>1, <2>3 DEF ClearByNumberLock, TypeOK, database, bounds
  <1>11. CASE ClearByNumberRows(t)
    <2>1. rows' \in [CallIds -> Row] BY <1>11, EndRowsType DEF ClearByNumberRows, TypeOK
    <2>2. thread' \in [Threads -> Job] BY <1>1, <1>11, GotoType DEF ClearByNumberRows
    <2> QED BY <1>11, <2>1, <2>2 DEF ClearByNumberRows, TypeOK, memory, bounds
  <1>12. CASE MergeCallIds(t)
    <2>1. job.pc \in Merging BY <1>12 DEF MergeCallIds, At, Merging
    <2>2. PICK p \in Phones, pc \in PCs : ReadCallId(t, p, pc)
      BY <1>12, <2>1, AddedParty DEF MergeCallIds, PCs
    <2> DEFINE id == CallIDForPair(job.num, p)
    <2>3. CASE id = 0 BY <1>1, <2>2, <2>3, MoveType DEF ReadCallId
    <2>4. CASE id # 0
      <3> DEFINE ids == job.ids \cup {id}
      <3>1. Goto(t, [job EXCEPT !.pc = pc, !.ids = ids]) BY <2>2, <2>4 DEF ReadCallId
      <3>2. ids \in SUBSET CallIds
        <4>1. job.num \in Phones BY <2>1, AddedParty
        <4>2. <<job.num, p>> \in Pairs /\ <<p, job.num>> \in Pairs BY <4>1 DEF Pairs
        <4>3. id \in CallIds BY <2>4, <4>2 DEF CallIDForPair, TypeOK, CallIds
        <4> QED BY <1>2, <4>3
      <3> HIDE DEF ids
      <3>3. [job EXCEPT !.pc = pc, !.ids = ids] \in Job
        <4> HIDE DEF job
        <4>1. [[job EXCEPT !.pc = pc] EXCEPT !.ids = ids] \in Job BY <1>3, <3>2, JobField
        <4> QED BY <4>1
      <3> QED BY <2>2, <3>1, <3>3, MoveType DEF ReadCallId
    <2> QED BY <2>3, <2>4
  <1>13. CASE CreateConference(t)
    <2>1. CASE Goto(t, Idle) /\ UNCHANGED <<memory, database, bounds>> BY <1>1, <2>1, MoveType
    <2>2. ASSUME NEW c \in ConfIds,
                 LET all == {job.num} \cup job.peers IN
                   /\ confState' = [confState EXCEPT ![c] = "active"]
                   /\ confHost' = [confHost EXCEPT ![c] = job.num]
                   /\ confMembers' = [confMembers EXCEPT ![c] = all]
                   /\ memberIndex' = [p \in Phones |-> IF p \in all THEN c ELSE memberIndex[p]]
                   /\ Goto(t, [job EXCEPT !.pc = "createTx", !.conf = c]),
                 UNCHANGED <<active, database, bounds>>
          PROVE  TypeOK'
      <3>1. job.num \in Phones BY <1>13, AddedParty DEF CreateConference, At, Merging
      <3>2. [job EXCEPT !.pc = "createTx", !.conf = c] \in Job
        <4> HIDE DEF job
        <4>1. [[job EXCEPT !.pc = "createTx"] EXCEPT !.conf = c] \in Job BY <1>3, JobField DEF PCs
        <4> QED BY <4>1
      <3>3. thread' \in [Threads -> Job] BY <1>1, <2>2, <3>2, GotoType
      <3>4. confMembers' \in [ConfIds -> SUBSET Phones] BY <1>2, <2>2, <3>1 DEF TypeOK
      <3>5. confState' \in [ConfIds -> {"fresh", "active", "ended"}] BY <2>2 DEF TypeOK
      <3>6. confHost' \in [ConfIds -> Phones \cup {NoPhone}] BY <2>2, <3>1 DEF TypeOK
      <3>7. memberIndex' \in [Phones -> ConfIds \cup {NoConf}] BY <2>2 DEF TypeOK
      <3> QED BY <2>2, <3>3, <3>4, <3>5, <3>6, <3>7 DEF TypeOK, database, bounds
    <2> QED BY <1>13, <2>1, <2>2 DEF CreateConference, memory
  <1>14. CASE CreateConferenceTx(t)
    <2>1. \A i \in CallIds : rows[i] \in Row BY DEF TypeOK
    <2>2. \A i \in CallIds : [rows[i] EXCEPT !.status = "ended", !.merged = TRUE] \in Row
      BY <2>1, RowEdits
    <2>3. rows' \in [CallIds -> Row]
      <3> DEFINE merged(i) == [rows[i] EXCEPT !.status = "ended", !.merged = TRUE]
      <3>1. rows' = [i \in CallIds |-> IF i \in job.ids THEN merged(i) ELSE rows[i]]
        BY <1>14 DEF CreateConferenceTx
      <3>2. \A i \in CallIds : merged(i) \in Row BY <2>2
      <3> HIDE DEF merged
      <3> QED BY <2>1, <3>1, <3>2
    <2>4. [job EXCEPT !.pc = "purge"] \in Job BY <1>3 DEF PCs
    <2>5. thread' \in [Threads -> Job] BY <1>1, <1>14, <2>4, GotoType DEF CreateConferenceTx, Become
    <2>6. confRow' \in [ConfIds -> {"absent", "active", "ended"}]
      BY <1>14 DEF CreateConferenceTx, TypeOK
    <2>7. memberRows' \in [ConfIds -> SUBSET Phones] BY <1>14 DEF CreateConferenceTx, TypeOK
    <2> QED BY <1>14, <2>3, <2>5, <2>6, <2>7 DEF CreateConferenceTx, TypeOK, memory, bounds
  <1>15. CASE CreateConferencePurge(t)
    <2>1. active' \in [Pairs -> 0 .. MaxCalls]
      BY <1>15, RemoveActiveType DEF CreateConferencePurge, TypeOK
    <2>2. thread' \in [Threads -> Job] BY <1>1, <1>15, GotoType DEF CreateConferencePurge
    <2> QED BY <1>15, <2>1, <2>2 DEF CreateConferencePurge, TypeOK, database, bounds
  <1>16. ASSUME NEW j \in Job, Goto(t, j), UNCHANGED <<database, bounds>>,
                \/ RemoveConference(job.conf)
                \/ UNCHANGED memory
         PROVE  TypeOK'
    <2>1. thread' \in [Threads -> Job] BY <1>1, <1>16, GotoType
    <2>2. CASE UNCHANGED memory BY <1>16, <2>2, MoveType
    <2>3. CASE RemoveConference(job.conf)
      BY <1>16, <2>1, <2>3, RemoveConferenceType DEF TypeOK, database, bounds
    <2> QED BY <1>16, <2>2, <2>3
  <1>17. CASE CreateConferenceRollback(t)
    BY <1>1, <1>16, <1>17 DEF CreateConferenceRollback
  <1>18. CASE EndConference(t)
    <2>1. [job EXCEPT !.pc = "endConfTx"] \in Job BY <1>3 DEF PCs
    <2> QED BY <1>1, <1>16, <1>18, <2>1 DEF EndConference, Become
  <1>19. CASE EndConferenceTx(t)
    <2>1. thread' \in [Threads -> Job] BY <1>1, <1>19, GotoType DEF EndConferenceTx
    <2>2. confRow' \in [ConfIds -> {"absent", "active", "ended"}] BY <1>19 DEF EndConferenceTx, TypeOK
    <2>3. memberRows' \in [ConfIds -> SUBSET Phones] BY <1>19 DEF EndConferenceTx, TypeOK
    <2> QED BY <1>19, <2>1, <2>2, <2>3 DEF EndConferenceTx, TypeOK, memory, bounds
  <1>20. CASE DropMember(t)
    <2>1. [job EXCEPT !.pc = "dropTx"] \in Job BY <1>3 DEF PCs
    <2> QED BY <1>1, <1>16, <1>20, <2>1 DEF DropMember, Become
  <1>21. CASE DropMemberTx(t)
    <2>1. CASE Goto(t, Idle) /\ UNCHANGED <<memory, database, bounds>> BY <1>1, <2>1, MoveType
    <2>2. CASE /\ confRow' = [confRow EXCEPT ![job.conf] = "ended"]
               /\ memberRows' = [memberRows EXCEPT ![job.conf] = {}]
               /\ InsertRow(ContinuationPair(t), "connected", job.conf)
               /\ Goto(t, [job EXCEPT !.pc = "register", !.id = nextId])
               /\ UNCHANGED <<memory, bounds>>
      <3>1. ContinuationPair(t)[1] \in Phones /\ ContinuationPair(t)[2] \in Phones
        BY <1>21 DEF DropMemberTx, At
      <3>2. rows' \in [CallIds -> Row] /\ nextId' \in 1 .. (MaxCalls + 1) /\ nextId \in CallIds
        <4> DEFINE pair == ContinuationPair(t)
        <4>1. /\ pair[1] \in Phones \cup {NoPhone} /\ pair[2] \in Phones \cup {NoPhone}
              /\ InsertRow(pair, "connected", job.conf)
          BY <2>2, <3>1
        <4> HIDE DEF pair
        <4> QED BY <1>2, <4>1, InsertRowType DEF TypeOK
      <3>3. [job EXCEPT !.pc = "register", !.id = nextId] \in Job
        <4>1. nextId \in 0 .. MaxCalls BY <3>2 DEF CallIds
        <4> HIDE DEF job
        <4>2. [[job EXCEPT !.pc = "register"] EXCEPT !.id = nextId] \in Job
          BY <1>3, <4>1, JobField DEF PCs
        <4> QED BY <4>2
      <3>4. thread' \in [Threads -> Job] BY <1>1, <2>2, <3>3, GotoType
      <3>5. confRow' \in [ConfIds -> {"absent", "active", "ended"}] BY <2>2 DEF TypeOK
      <3>6. memberRows' \in [ConfIds -> SUBSET Phones] BY <2>2 DEF TypeOK
      <3> QED BY <2>2, <3>2, <3>4, <3>5, <3>6 DEF TypeOK, memory, bounds
    <2> QED BY <1>21, <2>1, <2>2 DEF DropMemberTx
  <1>22. CASE DropMemberRegister(t)
    <2>1. active' \in [Pairs -> 0 .. MaxCalls] BY <1>2, <1>22 DEF DropMemberRegister, TypeOK
    <2>2. thread' \in [Threads -> Job] BY <1>1, <1>22, GotoType DEF DropMemberRegister
    <2> QED BY <1>22, <2>1, <2>2 DEF DropMemberRegister, TypeOK, database, bounds
  <1> QED
    BY <1>4, <1>5, <1>6, <1>7, <1>8, <1>9, <1>10, <1>11, <1>12, <1>13, <1>14, <1>15, <1>17, <1>18,
       <1>19, <1>20, <1>21, <1>22
    DEF Proceed

LEMMA DbFailureType == ASSUME TypeOK, NEW t \in Threads, DbFailure(t) PROVE TypeOK'
  <1>1. thread[t] \in Job BY DEF TypeOK
  <1>2. [thread[t] EXCEPT !.pc = "rollback"] \in Job BY <1>1, JobField DEF PCs
  <1> QED BY <1>2, IdleType, NextPeerType, AfterConferenceType, DbFailsType DEF DbFailure

LEMMA RestartType == ASSUME TypeOK, Restart PROVE TypeOK'
  BY IdleType DEF TypeOK, Restart, database

-----------------------------------------------------------------------------
(* Lemmas about the invariant.                                             *)

(* Who is left of three: two phones, in the order sortedPair puts them.    *)
LEMMA PairLeftIsTheRest ==
  ASSUME NEW S, ThreePhones(S), NEW n \in S
  PROVE  \E x, y \in Phones : /\ x # y /\ S \ {n} = {x, y}
                              /\ PairLeft(S, n) = <<x, y>>
  <1>1. PICK a \in Phones, b \in Phones : a < b /\ S \ {n} = {a, b}
    <2>1. PICK a, b, c \in Phones : Three(a, b, c) /\ S = {a, b, c} BY DEF ThreePhones
    <2>2. \E x, y \in Phones : x # y /\ S \ {n} = {x, y} BY <2>1 DEF Three
    <2>3. PICK x, y \in Phones : x # y /\ S \ {n} = {x, y} BY <2>2
    <2>4. x \in Nat /\ y \in Nat OBVIOUS
    <2>5. {x, y} = {y, x} OBVIOUS
    <2> QED BY <2>3, <2>4, <2>5
  <1> DEFINE R == S \ {n}
             first == CHOOSE p \in R : \A q \in R : p <= q
             second == CHOOSE p \in R : p # first
  <1>2. a \in Nat /\ b \in Nat OBVIOUS
  <1>3. first = a BY <1>1, <1>2
  <1>4. second = b BY <1>1, <1>2, <1>3
  <1>5. PairLeft(S, n) = sortedPair(first, second) BY DEF PairLeft
  <1>6. PairLeft(S, n) = <<a, b>> BY <1>1, <1>2, <1>3, <1>4, <1>5 DEF sortedPair
  <1> QED BY <1>1, <1>2, <1>6

LEMMA ContinuationPairLeft ==
  ASSUME NEW t \in Threads
  PROVE  ContinuationPair(t) = PairLeft(confMembers[thread[t].conf], thread[t].num)
  BY DEF ContinuationPair, Remaining, PairLeft

(* What a goroutine relies on stays true while others insert rows, change  *)
(* their status, end conferences and create them.                          *)
SameCalls(rs, rs2) ==
  \A i \in CallIds : rs[i].status # "none" =>
    rs2[i].status # "none" /\ rs2[i].caller = rs[i].caller /\ rs2[i].callee = rs[i].callee

SameConfs(cs, cm, cs2, cm2) ==
  \A c \in ConfIds : cs[c] # "fresh" =>
    cs2[c] # "fresh" /\ cm2[c] = cm[c] /\ (cs[c] = "ended" => cs2[c] = "ended")

LEMMA JobKeeps ==
  ASSUME NEW j \in Job, NEW rs, NEW rs2, NEW ac, NEW ac2, NEW cs, NEW cs2, NEW cm, NEW cm2,
         JobOK(j, rs, ac, cs, cm), SameCalls(rs, rs2), SameConfs(cs, cm, cs2, cm2),
         Pending(j) => ~rs2[j.id].merged /\ \A k \in Pairs : ac2[k] # j.id,
         j.pc = "dropTx" => \A i \in CallIds : rs2[i].orig # j.conf
  PROVE  JobOK(j, rs2, ac2, cs2, cm2)
  <1>1. j.ids \subseteq CallIds BY DEF Job
  <1>2. j.pc \in Holding => \A i \in j.ids : /\ rs2[i].status # "none"
                                             /\ rs2[i].caller \in {j.num} \cup j.peers
                                             /\ rs2[i].callee \in {j.num} \cup j.peers
    BY <1>1 DEF JobOK, SameCalls
  <1>3. j.pc \in InConf => /\ j.conf \in ConfIds /\ cs2[j.conf] # "fresh"
                           /\ cm2[j.conf] = cm[j.conf]
                           /\ cs[j.conf] = "ended" => cs2[j.conf] = "ended"
    BY DEF JobOK, SameConfs
  <1>4. Pending(j) => /\ j.id \in CallIds /\ rs2[j.id].status # "none"
                      /\ rs2[j.id].caller = rs[j.id].caller /\ rs2[j.id].callee = rs[j.id].callee
    BY DEF JobOK, SameCalls
  <1>5. j.pc = "publish" => rs2[j.id].caller = j.num /\ rs2[j.id].callee = j.peer
    BY <1>4 DEF JobOK, Pending
  <1>6. j.pc = "register" => <<rs2[j.id].caller, rs2[j.id].callee>> = PairLeft(cm2[j.conf], j.num)
    BY <1>3, <1>4 DEF JobOK, Pending, InConf
  <1>7. j.pc \in {"createTx", "purge"} => cm2[j.conf] = {j.num} \cup j.peers
    BY <1>3 DEF JobOK, InConf
  <1>8. j.pc \in Dropping => j.num \in cm2[j.conf] BY <1>3 DEF JobOK, InConf, Dropping
  <1>9. j.pc \in {"dropTx", "register"} => cs2[j.conf] = "ended" BY <1>3 DEF JobOK, InConf
  <1>10. j.pc \in Merging => \E a, b \in Phones : /\ j.num \in Phones /\ Three(j.num, a, b)
                                               /\ j.peers = {a, b} /\ j.peer = a
    BY DEF JobOK
  <1> QED BY <1>2, <1>3, <1>4, <1>5, <1>6, <1>7, <1>8, <1>9, <1>10 DEF JobOK

LEMMA ApartMove ==
  ASSUME JobsApart, NEW t \in Threads,
         \A u \in Threads \ {t} : thread'[u] = thread[u],
         \A u \in Threads \ {t} : Apart(thread'[t], thread[u])
  PROVE  JobsApart'
  <1> SUFFICES ASSUME NEW u \in Threads, NEW v \in Threads, u # v
               PROVE  Apart(thread'[u], thread'[v])
    BY DEF JobsApart
  <1>1. \A j, k : Apart(j, k) => Apart(k, j) BY DEF Apart
  <1>2. CASE u = t BY <1>2
  <1>3. CASE v = t BY <1>1, <1>3
  <1>4. CASE u # t /\ v # t BY <1>4 DEF JobsApart
  <1> QED BY <1>2, <1>3, <1>4

(* A step that moves one goroutine, may take calls out of the map and may  *)
(* change the status of rows.                                              *)
LEMMA MoveInv ==
  ASSUME IInv, TypeOK', NEW t \in Threads,
         \A u \in Threads \ {t} : thread'[u] = thread[u],
         JobOK(thread'[t], rows, active, confState, confMembers),
         \A u \in Threads \ {t} : Apart(thread'[t], thread[u]),
         memberIndex' = memberIndex, confState' = confState, confMembers' = confMembers,
         nextId' = nextId,
         \A k \in Pairs : active'[k] = active[k] \/ active'[k] = 0,
         \A i \in CallIds : /\ rows'[i].caller = rows[i].caller /\ rows'[i].callee = rows[i].callee
                            /\ rows'[i].merged = rows[i].merged /\ rows'[i].orig = rows[i].orig
                            /\ rows'[i].status = "none" <=> rows[i].status = "none",
         thread[t].pc = "purge" =>
           \A k \in Pairs : active'[k] # 0 => active'[k] \notin thread[t].ids
  PROVE  IInv'
  <1>1. SameCalls(rows, rows') /\ SameConfs(confState, confMembers, confState', confMembers')
    BY DEF SameCalls, SameConfs
  <1>2. ASSUME NEW j \in Job, JobOK(j, rows, active, confState, confMembers)
        PROVE  JobOK(j, rows', active', confState', confMembers')
    <2>1. Pending(j) => ~rows'[j.id].merged /\ \A k \in Pairs : active'[k] # j.id
      BY <1>2 DEF JobOK, CallIds
    <2>2. j.pc = "dropTx" => \A i \in CallIds : rows'[i].orig # j.conf BY <1>2 DEF JobOK
    <2> QED BY <1>1, <1>2, <2>1, <2>2, JobKeeps
  <1>3. JobsOK'
    <2>1. \A u \in Threads : thread'[u] \in Job BY DEF TypeOK
    <2>2. \A u \in Threads : JobOK(thread'[u], rows, active, confState, confMembers)
      BY DEF IInv, JobsOK
    <2> QED BY <1>2, <2>1, <2>2 DEF JobsOK
  <1>4. JobsApart' BY ApartMove DEF IInv
  <1>5. RowsInserted' BY DEF IInv, RowsInserted
  <1>6. ConferencesFilled' BY DEF IInv, ConferencesFilled
  <1>7. ConferenceIndexSound' BY DEF IInv, ConferenceIndexSound
  <1>8. ActiveNamesItsRow'
    <2>1. \A k \in Pairs : active'[k] # 0 => active'[k] = active[k] /\ active[k] \in CallIds
      BY DEF IInv, TypeOK, CallIds
    <2> QED BY <2>1 DEF IInv, ActiveNamesItsRow
  <1>9. ContinuationOnce' BY DEF IInv, ContinuationOnce
  <1>10. MergedCallsRetired'
    <2> SUFFICES ASSUME NEW k \in Pairs, active'[k] # 0, rows'[active'[k]].merged
                 PROVE  \E u \in Threads : thread'[u].pc = "purge" /\ active'[k] \in thread'[u].ids
      BY DEF MergedCallsRetired, At
    <2>1. active'[k] = active[k] /\ active[k] \in CallIds BY DEF IInv, TypeOK, CallIds
    <2>2. PICK u \in Threads : thread[u].pc = "purge" /\ active[k] \in thread[u].ids
      BY <2>1 DEF IInv, MergedCallsRetired, At
    <2>3. u # t BY <2>1, <2>2
    <2> QED BY <2>1, <2>2, <2>3
  <1> QED BY <1>3, <1>4, <1>5, <1>6, <1>7, <1>8, <1>9, <1>10 DEF IInv

(* The same, for a goroutine that has no row to publish and drops nobody.  *)
LEMMA StepInv ==
  ASSUME IInv, TypeOK', NEW t \in Threads, NEW j, Goto(t, j),
         JobOK(j, rows, active, confState, confMembers), ~Pending(j), j.pc # "dropTx",
         j.pc \in Holding => \A i \in j.ids :
           (\E k \in Pairs : active[k] = i) \/ (thread[t].pc \in Holding /\ i \in thread[t].ids),
         memberIndex' = memberIndex, confState' = confState, confMembers' = confMembers,
         nextId' = nextId,
         \A k \in Pairs : active'[k] = active[k] \/ active'[k] = 0,
         \A i \in CallIds : /\ rows'[i].caller = rows[i].caller /\ rows'[i].callee = rows[i].callee
                            /\ rows'[i].merged = rows[i].merged /\ rows'[i].orig = rows[i].orig
                            /\ rows'[i].status = "none" <=> rows[i].status = "none",
         thread[t].pc = "purge" =>
           \A k \in Pairs : active'[k] # 0 => active'[k] \notin thread[t].ids
  PROVE  IInv'
  <1>1. thread'[t] = j /\ \A u \in Threads \ {t} : thread'[u] = thread[u] BY DEF IInv, TypeOK, Goto
  <1>2. ASSUME NEW u \in Threads \ {t} PROVE Apart(thread'[t], thread[u])
    <2>1. ASSUME Pending(thread[u]), j.pc \in Holding PROVE thread[u].id \notin j.ids
      <3>1. \A k \in Pairs : active[k] # thread[u].id BY <2>1 DEF IInv, JobsOK, JobOK
      <3>2. thread[t].pc \in Holding => thread[u].id \notin thread[t].ids
        BY <2>1 DEF IInv, JobsApart, Apart
      <3> QED BY <2>1, <3>1, <3>2
    <2> QED BY <1>1, <2>1 DEF Apart
  <1> QED BY <1>1, <1>2, MoveInv

(* What most steps carry on with says nothing about the state.             *)
PlainPCs == {"idle", "busyTo", "busyFrom", "busyFromCalls", "addHost", "addHostCalls", "insert",
             "answer", "endLock", "endRow", "clearLock", "clearRows"}

LEMMA PlainJob ==
  ASSUME NEW j, j.pc \in PlainPCs, NEW rs, NEW ac, NEW cs, NEW cm
  PROVE  JobOK(j, rs, ac, cs, cm) /\ ~Pending(j) /\ j.pc # "dropTx" /\ j.pc \notin Holding
  BY DEF JobOK, PlainPCs, Merging, Holding, InConf, Dropping, Pending

LEMMA PlainStep ==
  ASSUME IInv, TypeOK', NEW t \in Threads, NEW j, Goto(t, j),
         j.pc \in PlainPCs, thread[t].pc # "purge",
         memberIndex' = memberIndex, confState' = confState, confMembers' = confMembers,
         nextId' = nextId,
         \A k \in Pairs : active'[k] = active[k] \/ active'[k] = 0,
         \A i \in CallIds : /\ rows'[i].caller = rows[i].caller /\ rows'[i].callee = rows[i].callee
                            /\ rows'[i].merged = rows[i].merged /\ rows'[i].orig = rows[i].orig
                            /\ rows'[i].status = "none" <=> rows[i].status = "none"
  PROVE  IInv'
  BY PlainJob, StepInv

(* A goroutine that only thinks.                                           *)
LEMMA ThinkInv ==
  ASSUME IInv, TypeOK', NEW t \in Threads, NEW j, Goto(t, j),
         JobOK(j, rows, active, confState, confMembers), ~Pending(j), j.pc # "dropTx",
         j.pc \in Holding => \A i \in j.ids :
           (\E k \in Pairs : active[k] = i) \/ (thread[t].pc \in Holding /\ i \in thread[t].ids),
         thread[t].pc # "purge", UNCHANGED <<memory, database>>
  PROVE  IInv'
  <1>1. \A k \in Pairs : active'[k] = active[k] \/ active'[k] = 0 BY DEF memory
  <1> QED BY <1>1, StepInv DEF memory, database

LEMMA ThreeByCardinality ==
  ASSUME NEW a, NEW b, NEW c, Cardinality({a, b, c}) = 3
  PROVE  Three(a, b, c)
  <1>1. ASSUME NEW x, NEW y PROVE IsFiniteSet({x, y}) /\ Cardinality({x, y}) <= 2
    <2>1. IsFiniteSet({}) /\ Cardinality({}) = 0 BY FS_EmptySet
    <2>2. IsFiniteSet({x}) /\ Cardinality({x}) = 1 BY FS_Singleton
    <2>3. /\ IsFiniteSet({x} \cup {y})
          /\ Cardinality({x} \cup {y}) = IF y \in {x} THEN Cardinality({x}) ELSE Cardinality({x}) + 1
      BY <2>2, FS_AddElement
    <2>4. {x} \cup {y} = {x, y} OBVIOUS
    <2> QED BY <2>2, <2>3, <2>4
  <1>2. ASSUME a = b PROVE FALSE
    <2>1. {a, b, c} = {b, c} BY <1>2
    <2>2. Cardinality({b, c}) = 3 BY <2>1
    <2>3. Cardinality({b, c}) <= 2 BY <1>1
    <2> QED BY <2>2, <2>3
  <1>3. ASSUME a = c PROVE FALSE
    <2>1. {a, b, c} = {b, c} BY <1>3
    <2>2. Cardinality({b, c}) = 3 BY <2>1
    <2>3. Cardinality({b, c}) <= 2 BY <1>1
    <2> QED BY <2>2, <2>3
  <1>4. ASSUME b = c PROVE FALSE
    <2>1. {a, b, c} = {a, c} BY <1>4
    <2>2. Cardinality({a, c}) = 3 BY <2>1
    <2>3. Cardinality({a, c}) <= 2 BY <1>1
    <2> QED BY <2>2, <2>3
  <1> QED BY <1>2, <1>3, <1>4 DEF Three

(* A request arrives.                                                      *)
LEMMA RequestInv ==
  ASSUME IInv, NEW t \in Threads, Request(t)
  PROVE  IInv'
  <1>1. TypeOK' BY RequestType DEF IInv
  <1>2. TypeOK BY DEF IInv
  <1>3. ASSUME NEW j, Goto(t, j), j.pc \in PlainPCs, j.ids = {}, thread[t].pc = "idle",
               UNCHANGED <<memory, database>>
        PROVE  IInv'
    <2>1. JobOK(j, rows, active, confState, confMembers) /\ ~Pending(j) /\ j.pc # "dropTx"
      BY <1>3, PlainJob
    <2> QED BY <1>1, <1>3, <2>1, ThinkInv
  <1>4. ASSUME NEW n \in Phones, memberIndex[n] # NoConf
        PROVE  /\ memberIndex[n] \in ConfIds /\ confState[memberIndex[n]] = "active"
               /\ n \in confMembers[memberIndex[n]]
    <2>1. memberIndex[n] \in ConfIds BY <1>2, <1>4 DEF TypeOK
    <2> QED BY <2>1 DEF IInv, ConferenceIndexSound
  <1>5. ASSUME NEW n \in Phones, NEW c \in ConfIds, NEW b, confState[c] # "fresh",
               thread[t].pc = "idle", UNCHANGED <<memory, database>>,
               \/ Goto(t, [Idle EXCEPT !.pc = "endConf", !.num = n, !.conf = c])
               \/ Goto(t, [Idle EXCEPT !.pc = "endConf", !.num = n, !.conf = c, !.clear = b])
               \/ /\ Goto(t, [Idle EXCEPT !.pc = "drop", !.num = n, !.conf = c])
                  /\ n \in confMembers[c]
        PROVE  IInv'
    <2> DEFINE endJob == [Idle EXCEPT !.pc = "endConf", !.num = n, !.conf = c]
               clearJob == [Idle EXCEPT !.pc = "endConf", !.num = n, !.conf = c, !.clear = b]
               dropJob == [Idle EXCEPT !.pc = "drop", !.num = n, !.conf = c]
    <2>1. /\ endJob.pc = "endConf" /\ endJob.conf = c /\ endJob.ids = {}
          /\ clearJob.pc = "endConf" /\ clearJob.conf = c /\ clearJob.ids = {}
          /\ dropJob.pc = "drop" /\ dropJob.conf = c /\ dropJob.ids = {} /\ dropJob.num = n
      BY DEF Idle
    <2>2. PICK j \in {endJob, clearJob, dropJob} : Goto(t, j) /\ (j.pc = "drop" => n \in confMembers[c])
      BY <1>5, <2>1
    <2>3. /\ j.pc \in {"endConf", "drop"} /\ j.conf = c /\ j.ids = {}
          /\ j.pc = "drop" => j.num = n
      BY <2>1
    <2> HIDE DEF endJob, clearJob, dropJob
    <2>4. JobOK(j, rows, active, confState, confMembers) /\ ~Pending(j) /\ j.pc # "dropTx"
      BY <1>5, <2>2, <2>3 DEF JobOK, Merging, Holding, InConf, Dropping, Pending
    <2> QED BY <1>1, <1>5, <2>2, <2>3, <2>4, ThinkInv
  <1>6. ASSUME NEW a \in Phones, NEW b \in Phones, CallStart(t, a, b) PROVE IInv'
    <2> DEFINE j == [Idle EXCEPT !.pc = "busyTo", !.num = a, !.peer = b]
    <2>1. j.pc \in PlainPCs /\ j.ids = {} BY DEF Idle, PlainPCs
    <2>2. Goto(t, j) /\ thread[t].pc = "idle" /\ UNCHANGED <<memory, database>>
      BY <1>6 DEF CallStart, Idles
    <2> HIDE DEF j
    <2> QED BY <1>3, <2>1, <2>2
  <1>7. ASSUME NEW a \in Phones, NEW b \in Phones, AnswerStart(t, a, b) PROVE IInv'
    <2> DEFINE j == [Idle EXCEPT !.pc = "answer", !.num = b, !.peer = a]
    <2>1. j.pc \in PlainPCs /\ j.ids = {} BY DEF Idle, PlainPCs
    <2>2. Goto(t, j) /\ thread[t].pc = "idle" /\ UNCHANGED <<memory, database>>
      BY <1>7 DEF AnswerStart, Idles
    <2> HIDE DEF j
    <2> QED BY <1>3, <2>1, <2>2
  <1>8. ASSUME NEW n \in Phones, HangupStart(t, n) PROVE IInv'
    <2>1. thread[t].pc = "idle" /\ UNCHANGED <<memory, database>>
      BY SMTT(60), <1>8 DEF HangupStart, Idles
    <2>2. CASE memberIndex[n] # NoConf
      <3>1. \/ Goto(t, [Idle EXCEPT !.pc = "endConf", !.num = n, !.conf = memberIndex[n]])
            \/ Goto(t, [Idle EXCEPT !.pc = "drop", !.num = n, !.conf = memberIndex[n]])
        BY <1>8, <2>2 DEF HangupStart
      <3> QED BY <1>4, <1>5, <2>1, <2>2, <3>1
    <2>3. CASE memberIndex[n] = NoConf
      <3> DEFINE j == [Idle EXCEPT !.pc = "endLock", !.num = n, !.peers = AllPeersOf(n)]
      <3>1. j.pc \in PlainPCs /\ j.ids = {} BY DEF Idle, PlainPCs
      <3>2. Goto(t, j) BY <1>8, <2>3 DEF HangupStart
      <3> HIDE DEF j
      <3> QED BY <1>3, <2>1, <3>1, <3>2
    <2> QED BY <2>2, <2>3
  <1>9. ASSUME NEW n \in Phones, DisconnectStart(t, n) PROVE IInv'
    <2>1. thread[t].pc = "idle" /\ UNCHANGED <<memory, database>>
      BY SMTT(60), <1>9 DEF DisconnectStart, Idles
    <2>2. CASE memberIndex[n] # NoConf
      <3>1. Goto(t, [Idle EXCEPT !.pc = "endConf", !.num = n, !.conf = memberIndex[n], !.clear = TRUE])
        BY <1>9, <2>2 DEF DisconnectStart
      <3> QED BY <1>4, <1>5, <2>1, <2>2, <3>1
    <2>3. CASE memberIndex[n] = NoConf
      <3> DEFINE j == [Idle EXCEPT !.pc = "clearLock", !.num = n]
      <3>1. j.pc \in PlainPCs /\ j.ids = {} BY DEF Idle, PlainPCs
      <3>2. Goto(t, j) BY <1>9, <2>3 DEF DisconnectStart
      <3> HIDE DEF j
      <3> QED BY <1>3, <2>1, <3>1, <3>2
    <2> QED BY <2>2, <2>3
  <1>10. ASSUME NEW h \in Phones, NEW x \in Phones, NEW y \in Phones, MergeStart(t, h, x, y)
         PROVE  IInv'
    <2> DEFINE j == [Idle EXCEPT !.pc = "mergeAdded", !.num = h, !.peer = x, !.peers = {x, y}]
    <2>1. Three(h, x, y) BY <1>10, ThreeByCardinality DEF MergeStart
    <2>2. j.pc = "mergeAdded" /\ j.num = h /\ j.peer = x /\ j.peers = {x, y} /\ j.ids = {}
      BY DEF Idle
    <2>3. Goto(t, j) /\ thread[t].pc = "idle" /\ UNCHANGED <<memory, database>>
      BY <1>10 DEF MergeStart, Idles
    <2> HIDE DEF j
    <2>4. JobOK(j, rows, active, confState, confMembers) /\ ~Pending(j) /\ j.pc # "dropTx"
      BY SMTT(60), <2>1, <2>2 DEF JobOK, Merging, Holding, InConf, Dropping, Pending
    <2> QED BY <1>1, <2>2, <2>3, <2>4, ThinkInv
  <1>11. ASSUME NEW c \in ConfIds, NEW n \in Phones, KickStart(t, c, n) PROVE IInv'
    <2>1. confState[c] # "fresh" BY <1>11 DEF KickStart, IInv, ConferencesFilled
    <2> QED BY <1>5, <1>11, <2>1 DEF KickStart, Idles
  <1> QED BY <1>6, <1>7, <1>8, <1>9, <1>10, <1>11 DEF Request

(* The two that a drop connects are phones.                                *)
LEMMA PairOfDrop ==
  ASSUME IInv, NEW t \in Threads, thread[t].pc \in {"dropTx", "register"}
  PROVE  /\ \E x, y \in Phones : /\ ContinuationPair(t) = <<x, y>>
                                 /\ confMembers[thread[t].conf] \ {thread[t].num} = {x, y}
         /\ ContinuationPair(t) = PairLeft(confMembers[thread[t].conf], thread[t].num)
         /\ thread[t].conf \in ConfIds
  <1> DEFINE c == thread[t].conf
             n == thread[t].num
             S == confMembers[c]
  <1>1. c \in ConfIds /\ confState[c] # "fresh" /\ n \in S
    BY DEF IInv, JobsOK, JobOK, InConf, Dropping
  <1>2. ThreePhones(S) BY <1>1 DEF IInv, ConferencesFilled
  <1>3. ContinuationPair(t) = PairLeft(S, n) BY ContinuationPairLeft
  <1>4. \E x, y \in Phones : S \ {n} = {x, y} /\ PairLeft(S, n) = <<x, y>>
    <2> HIDE DEF S, n
    <2> QED BY <1>1, <1>2, PairLeftIsTheRest
  <1> QED BY <1>1, <1>3, <1>4

LEMMA ProceedTypeInv == ASSUME IInv, NEW t \in Threads, Proceed(t) PROVE TypeOK'
  <1>1. thread[t].pc \in Merging => MergeParties(thread[t])
    BY DEF IInv, JobsOK, JobOK, MergeParties
  <1>2. thread[t].pc = "dropTx" => /\ ContinuationPair(t)[1] \in Phones
                                   /\ ContinuationPair(t)[2] \in Phones
    <2> SUFFICES ASSUME thread[t].pc = "dropTx"
                 PROVE  ContinuationPair(t)[1] \in Phones /\ ContinuationPair(t)[2] \in Phones
      OBVIOUS
    <2>1. PICK x \in Phones, y \in Phones : ContinuationPair(t) = <<x, y>> BY PairOfDrop
    <2> QED BY <2>1
  <1> QED BY <1>1, <1>2, ProceedType DEF IInv

(* The statements and the locks that neither insert a row nor touch a      *)
(* conference.                                                             *)
LEMMA NextPeerPlain ==
  ASSUME TypeOK, NEW t \in Threads
  PROVE  NextPeer(t).pc \in PlainPCs /\ AfterConference(t).pc \in PlainPCs
  <1>1. thread[t] \in Job BY DEF TypeOK
  <1>2. Idle.pc = "idle" BY DEF Idle
  <1>3. [thread[t] EXCEPT !.pc = "endLock", !.peer = NoPhone].pc = "endLock" BY <1>1 DEF Job
  <1>4. [Idle EXCEPT !.pc = "clearLock", !.num = thread[t].num].pc = "clearLock" BY DEF Idle
  <1> QED BY <1>2, <1>3, <1>4 DEF NextPeer, AfterConference, PlainPCs

LEMMA EndRowsKeeps ==
  ASSUME TypeOK, RowsInserted, NEW S, EndRows(S), \A i \in S : rows[i].status # "none"
  PROVE  \A i \in CallIds :
           /\ rows'[i].caller = rows[i].caller /\ rows'[i].callee = rows[i].callee
           /\ rows'[i].merged = rows[i].merged /\ rows'[i].orig = rows[i].orig
           /\ rows'[i].status = "none" <=> rows[i].status = "none"
  <1> SUFFICES ASSUME NEW i \in CallIds
               PROVE  /\ rows'[i].caller = rows[i].caller /\ rows'[i].callee = rows[i].callee
                      /\ rows'[i].merged = rows[i].merged /\ rows'[i].orig = rows[i].orig
                      /\ rows'[i].status = "none" <=> rows[i].status = "none"
    OBVIOUS
  <1>1. rows[i] \in Row BY DEF TypeOK
  <1>2. rows'[i] = IF i \in S THEN [rows[i] EXCEPT !.status = "ended"] ELSE rows[i] BY DEF EndRows
  <1>3. CASE i \in S
    <2>1. rows'[i] = [rows[i] EXCEPT !.status = "ended"] BY <1>2, <1>3
    <2> QED BY <1>1, <1>3, <2>1 DEF Row
  <1>4. CASE i \notin S BY <1>2, <1>4
  <1> QED BY <1>3, <1>4

LEMMA OpenRowsInserted ==
  /\ \A S : Newest(S) \subseteq S
  /\ \A i \in CallIds : IsOpen(i) => rows[i].status # "none"
  BY DEF Newest, IsOpen

LEMMA CallStepsInv ==
  ASSUME IInv, NEW t \in Threads, Proceed(t),
         \/ BusyTo(t) \/ BusyFrom(t) \/ CanAddAsHost(t)
         \/ OnCallAnswered(t) \/ (\E p \in Phones : OnCallEndedLock(t, p))
         \/ OnCallEndedRow(t) \/ ClearByNumberLock(t) \/ ClearByNumberRows(t)
  PROVE  IInv'
  <1> DEFINE job == thread[t]
             Kept == \A i \in CallIds :
                       /\ rows'[i].caller = rows[i].caller /\ rows'[i].callee = rows[i].callee
                       /\ rows'[i].merged = rows[i].merged /\ rows'[i].orig = rows[i].orig
                       /\ rows'[i].status = "none" <=> rows[i].status = "none"
             Fewer == \A k \in Pairs : active'[k] = active[k] \/ active'[k] = 0
  <1>1. TypeOK' /\ TypeOK /\ RowsInserted /\ job \in Job BY ProceedTypeInv DEF IInv, TypeOK
  <1>2. Idle.pc = "idle" BY DEF Idle
  <1>4. ASSUME NEW j, Goto(t, j), j.pc \in PlainPCs, job.pc # "purge", Kept, Fewer,
               UNCHANGED <<memberIndex, confState, confMembers, nextId>>
        PROVE  IInv'
    BY <1>1, <1>4, PlainStep
  <1>5. UNCHANGED rows => Kept OBVIOUS
  <1>6. UNCHANGED active => Fewer OBVIOUS
  <1>7. ASSUME NEW S, RemoveActive(S) PROVE Fewer BY <1>7 DEF RemoveActive
  <1>8. CASE BusyTo(t) \/ BusyFrom(t) \/ CanAddAsHost(t)
    <2>1. \A pc \in PlainPCs : [job EXCEPT !.pc = pc].pc \in PlainPCs BY <1>1 DEF Job
    <2>2. /\ {"busyFrom", "busyFromCalls", "addHost", "addHostCalls", "insert"} \subseteq PlainPCs
          /\ Idle.pc \in PlainPCs
      BY <1>2 DEF PlainPCs
    <2>3. [job EXCEPT !.pc = "addHost"].pc \in PlainPCs BY <2>1, <2>2
    <2>4. \E pc \in PlainPCs : \E j : j.pc \in PlainPCs /\ \E ok : Check(t, ok, pc, j)
      BY <1>8, <2>2, <2>3 DEF BusyTo, BusyFrom, CanAddAsHost
    <2>5. PICK pc \in PlainPCs : \E j : j.pc \in PlainPCs /\ \E ok : Check(t, ok, pc, j) BY <2>4
    <2>6. PICK j : j.pc \in PlainPCs /\ \E ok : Check(t, ok, pc, j) BY <2>5
    <2>7. (Goto(t, [job EXCEPT !.pc = pc]) \/ Goto(t, j)) /\ UNCHANGED <<memory, database>>
      BY <2>6, CheckMoves
    <2>8. job.pc # "purge" BY <1>8 DEF BusyTo, BusyFrom, CanAddAsHost, At
    <2>9. PICK k : k.pc \in PlainPCs /\ Goto(t, k) BY <2>1, <2>6, <2>7
    <2> QED BY <1>4, <1>5, <1>6, <2>7, <2>8, <2>9 DEF memory, database
  <1>9. CASE OnCallAnswered(t)
    <2>1. PICK S : /\ S = Newest(RingingRows(job.num, job.peer))
                   /\ rows' = [i \in CallIds |-> IF i \in S THEN [rows[i] EXCEPT !.status = "connected"]
                                                            ELSE rows[i]]
      BY <1>9 DEF OnCallAnswered
    <2>2. \A i \in S : rows[i].status # "none" BY <2>1 DEF Newest, RingingRows
    <2>3. ASSUME NEW i \in CallIds
          PROVE  /\ rows'[i].caller = rows[i].caller /\ rows'[i].callee = rows[i].callee
                 /\ rows'[i].merged = rows[i].merged /\ rows'[i].orig = rows[i].orig
                 /\ rows'[i].status = "none" <=> rows[i].status = "none"
      <3>1. rows[i] \in Row BY <1>1 DEF TypeOK
      <3>2. CASE i \in S
        <4>1. rows'[i] = [rows[i] EXCEPT !.status = "connected"] BY <2>1, <3>2
        <4> QED BY <2>2, <3>1, <3>2, <4>1 DEF Row
      <3>3. CASE i \notin S BY <2>1, <3>3
      <3> QED BY <3>2, <3>3
    <2>4. Goto(t, Idle) /\ job.pc # "purge" /\ UNCHANGED <<memory, nextId>>
      BY <1>9 DEF OnCallAnswered, At
    <2> QED BY <1>2, <1>4, <1>6, <2>3, <2>4 DEF memory, PlainPCs
  <1>10. ASSUME NEW p \in Phones, OnCallEndedLock(t, p) PROVE IInv'
    <2> DEFINE j == [job EXCEPT !.pc = "endRow", !.peer = p, !.peers = @ \ {p}]
    <2>1. Goto(t, j) /\ job.pc # "purge" BY <1>10 DEF OnCallEndedLock, At
    <2>2. j.pc = "endRow" BY <1>1 DEF Job
    <2> HIDE DEF j
    <2>3. Fewer BY <1>7, <1>10 DEF OnCallEndedLock
    <2> QED BY <1>4, <1>5, <1>10, <2>1, <2>2, <2>3 DEF OnCallEndedLock, database, PlainPCs
  <1>11. CASE OnCallEndedRow(t)
    <2>1. PICK S : S = Newest(OpenRowsOfPair(job.num, job.peer)) /\ EndRows(S)
      BY <1>11 DEF OnCallEndedRow
    <2>2. \A i \in S : rows[i].status # "none" BY <2>1, OpenRowsInserted DEF OpenRowsOfPair
    <2>3. Kept BY <1>1, <2>1, <2>2, EndRowsKeeps
    <2>4. Goto(t, NextPeer(t)) /\ job.pc # "purge" /\ UNCHANGED <<memory, nextId>>
      BY <1>11 DEF OnCallEndedRow, At
    <2> QED BY <1>1, <1>4, <1>6, <2>3, <2>4, NextPeerPlain DEF memory
  <1>12. CASE ClearByNumberLock(t)
    <2> DEFINE j == [job EXCEPT !.pc = "clearRows"]
    <2>1. Goto(t, j) /\ job.pc # "purge" BY <1>12 DEF ClearByNumberLock, Become, At
    <2>2. j.pc = "clearRows" BY <1>1 DEF Job
    <2> HIDE DEF j
    <2>3. Fewer BY <1>7, <1>12 DEF ClearByNumberLock
    <2> QED BY <1>4, <1>5, <1>12, <2>1, <2>2, <2>3 DEF ClearByNumberLock, database, PlainPCs
  <1>13. CASE ClearByNumberRows(t)
    <2>1. PICK S : S = OpenRowsOf(job.num) /\ EndRows(S) BY <1>13 DEF ClearByNumberRows
    <2>2. \A i \in S : rows[i].status # "none" BY <2>1, OpenRowsInserted DEF OpenRowsOf
    <2>3. Kept BY <1>1, <2>1, <2>2, EndRowsKeeps
    <2>4. Goto(t, Idle) /\ job.pc # "purge" /\ UNCHANGED <<memory, nextId>>
      BY <1>13 DEF ClearByNumberRows, At
    <2> QED BY <1>2, <1>4, <1>6, <2>3, <2>4 DEF memory, PlainPCs
  <1> QED BY <1>8, <1>9, <1>10, <1>11, <1>12, <1>13

(* A merge that is refused.                                                *)
LEMMA RefusedInv ==
  ASSUME IInv, TypeOK', NEW t \in Threads, Goto(t, Idle), thread[t].pc # "purge",
         UNCHANGED <<memory, database>>
  PROVE  IInv'
  <1>1. Idle.pc = "idle" BY DEF Idle
  <1>2. JobOK(Idle, rows, active, confState, confMembers) /\ ~Pending(Idle) /\ Idle.pc # "dropTx"
       /\ Idle.pc \notin Holding
    BY <1>1, PlainJob DEF PlainPCs
  <1> QED BY <1>1, <1>2, ThinkInv

(* The checks of a merge come before any id is held.                       *)
LEMMA MergeChecksInv ==
  ASSUME IInv, NEW t \in Threads, Proceed(t), MergeChecks(t)
  PROVE  IInv'
  <1> DEFINE job == thread[t]
  <1>1. TypeOK' /\ job \in Job BY ProceedTypeInv DEF IInv, TypeOK
  <1>2. job.pc \in {"mergeAdded", "heldFree", "addedFree"} BY DEF MergeChecks, At
  <1>3. \E ok : \E pc \in {"heldFree", "addedFree", "callId"} : Check(t, ok, pc, Idle)
    BY DEF MergeChecks
  <1>4. PICK pc \in {"heldFree", "addedFree", "callId"} : \E ok : Check(t, ok, pc, Idle) BY <1>3
  <1> DEFINE j == [job EXCEPT !.pc = pc]
  <1>5. (Goto(t, j) \/ Goto(t, Idle)) /\ UNCHANGED <<memory, database>> BY <1>4, CheckMoves
  <1>6. CASE Goto(t, Idle) BY <1>1, <1>2, <1>5, <1>6, RefusedInv
  <1>7. CASE Goto(t, j)
    <2>1. j.pc = pc /\ j.num = job.num /\ j.peer = job.peer /\ j.peers = job.peers /\ j.ids = job.ids
      BY <1>1 DEF Job
    <2>2. job.pc \in Merging /\ job.pc \notin Holding BY <1>2 DEF Merging, Holding
    <2>3. MergeParties(job) /\ job.ids = {}
      BY <2>2 DEF IInv, JobsOK, JobOK, MergeParties
    <2> HIDE DEF j
    <2>4. JobOK(j, rows, active, confState, confMembers)
      BY SMTT(60), <2>1, <2>3 DEF JobOK, MergeParties, Merging, Holding, InConf, Dropping, Pending
    <2>5. ~Pending(j) /\ j.pc # "dropTx" /\ j.pc \notin Holding BY <2>1 DEF Pending, Holding
    <2> QED BY <1>1, <1>2, <1>5, <1>7, <2>4, <2>5, ThinkInv
  <1> QED BY <1>5, <1>6, <1>7

(* The ids of the calls to merge are those of calls in the map, and stay   *)
(* those of rows of the three when the calls leave it.                     *)
LEMMA MergeCallIdsInv ==
  ASSUME IInv, NEW t \in Threads, Proceed(t), MergeCallIds(t)
  PROVE  IInv'
  <1> DEFINE job == thread[t]
             all == {job.num} \cup job.peers
  <1>1. TypeOK' /\ TypeOK /\ job \in Job BY ProceedTypeInv DEF IInv, TypeOK
  <1>2. job.pc \in {"callId", "heldId", "addedId"} BY DEF MergeCallIds, At
  <1>3. MergeParties(job) /\ (job.pc = "callId" => job.ids = {})
    BY <1>2 DEF IInv, JobsOK, JobOK, MergeParties, Merging, Holding
  <1>4. \E p \in {job.peer, Added(t)} : \E pc \in {"heldId", "addedId", "create"} : ReadCallId(t, p, pc)
    BY DEF MergeCallIds
  <1>5. PICK p \in {job.peer, Added(t)} : \E pc \in {"heldId", "addedId", "create"} : ReadCallId(t, p, pc)
    BY <1>4
  <1>6. PICK pc \in {"heldId", "addedId", "create"} : ReadCallId(t, p, pc) BY <1>5
  <1> DEFINE id == CallIDForPair(job.num, p)
  <1>7. UNCHANGED <<memory, database>> /\ job.pc # "purge" BY <1>2, <1>6 DEF ReadCallId
  <1>8. CASE id = 0
    <2>1. Goto(t, Idle) BY <1>6, <1>8 DEF ReadCallId
    <2> QED BY <1>1, <1>7, <2>1, RefusedInv
  <1>9. CASE id # 0
    <2> DEFINE ids == job.ids \cup {id}
               j == [job EXCEPT !.pc = pc, !.ids = @ \cup {id}]
    <2>1. Goto(t, j) BY <1>6, <1>9 DEF ReadCallId
    <2>2. j.pc = pc /\ j.ids = ids /\ j.num = job.num /\ j.peer = job.peer /\ j.peers = job.peers
      <3> HIDE DEF id
      <3> QED BY <1>1 DEF Job
    <2>3. \E k \in Pairs : active[k] = id /\ k[1] \in all /\ k[2] \in all
      <3>1. job.num \in Phones /\ p \in Phones /\ p \in job.peers BY <1>3, <1>5, AddedParty
      <3>2. <<job.num, p>> \in Pairs /\ <<p, job.num>> \in Pairs BY <3>1 DEF Pairs
      <3>3. id = active[<<job.num, p>>] \/ id = active[<<p, job.num>>] BY DEF CallIDForPair
      <3>4. CASE id = active[<<job.num, p>>] BY <3>1, <3>2, <3>4
      <3>5. CASE id = active[<<p, job.num>>] BY <3>1, <3>2, <3>5
      <3> QED BY <3>3, <3>4, <3>5
    <2> HIDE DEF id
    <2>4. rows[id].status # "none" /\ rows[id].caller \in all /\ rows[id].callee \in all
      BY <1>9, <2>3 DEF IInv, ActiveNamesItsRow
    <2>5. ASSUME NEW i \in job.ids
          PROVE  /\ job.pc \in Holding
                 /\ rows[i].status # "none" /\ rows[i].caller \in all /\ rows[i].callee \in all
      <3>1. job.pc \in Holding BY <1>2, <1>3, <2>5 DEF Holding
      <3> QED BY <2>5, <3>1 DEF IInv, JobsOK, JobOK
    <2>6. \A i \in j.ids : (\E k \in Pairs : active[k] = i) \/ (job.pc \in Holding /\ i \in job.ids)
      BY <2>2, <2>3, <2>5
    <2>7. \A i \in j.ids : rows[i].status # "none" /\ rows[i].caller \in all /\ rows[i].callee \in all
      BY <2>2, <2>4, <2>5
    <2> HIDE DEF j, ids
    <2>8. JobOK(j, rows, active, confState, confMembers)
      BY SMTT(60), <1>3, <2>2, <2>7
         DEF JobOK, MergeParties, Merging, Holding, InConf, Dropping, Pending
    <2>9. ~Pending(j) /\ j.pc # "dropTx" BY <2>2 DEF Pending
    <2> QED BY <1>1, <1>7, <2>1, <2>6, <2>8, <2>9, ThinkInv
  <1> QED BY <1>8, <1>9

(* The purge takes every call of a member out of the map, so also the      *)
(* merged ones: each is a call between members.                            *)
LEMMA PurgeInv ==
  ASSUME IInv, NEW t \in Threads, Proceed(t), CreateConferencePurge(t)
  PROVE  IInv'
  <1> DEFINE job == thread[t]
             S == PairsTouching(confMembers[job.conf])
  <1>1. TypeOK' /\ TypeOK /\ job.pc = "purge" BY ProceedTypeInv DEF IInv, CreateConferencePurge, At
  <1>2. /\ Goto(t, Idle) /\ UNCHANGED <<memberIndex, confState, confMembers, database>>
        /\ RemoveActive(S)
    BY DEF CreateConferencePurge
  <1>3. \A k \in Pairs : active'[k] = IF k \in S THEN 0 ELSE active[k] BY <1>2 DEF RemoveActive
  <1>4. Idle.pc = "idle" BY DEF Idle
  <1>5. JobOK(Idle, rows, active, confState, confMembers) /\ ~Pending(Idle) /\ Idle.pc # "dropTx"
       /\ Idle.pc \notin Holding
    BY <1>4, PlainJob DEF PlainPCs
  <1>6. ASSUME NEW k \in Pairs, active'[k] # 0 PROVE active'[k] \notin job.ids
    <2>1. k \notin S /\ active'[k] = active[k] BY <1>3, <1>6
    <2>2. rows[active[k]].caller = k[1] BY <1>6, <2>1 DEF IInv, ActiveNamesItsRow
    <2>3. k[1] \notin confMembers[job.conf] BY <2>1 DEF PairsTouching
    <2>4. JobOK(job, rows, active, confState, confMembers) BY DEF IInv, JobsOK
    <2>5. \A i \in job.ids : rows[i].caller \in confMembers[job.conf]
      BY <1>1, <2>4 DEF JobOK, Holding
    <2> QED BY <2>1, <2>2, <2>3, <2>5
  <1> HIDE DEF S
  <1> QED BY <1>1, <1>2, <1>3, <1>4, <1>5, <1>6, StepInv DEF database

(* A conference that has gone meanwhile: the operation gives up, or, after *)
(* a disconnect, goes on to clear the number.                              *)
LEMMA GivesUpInv ==
  ASSUME IInv, NEW t \in Threads, TypeOK', NEW j, j \in {Idle, AfterConference(t)}, Goto(t, j),
         thread[t].pc # "purge", UNCHANGED <<memory, rows, nextId>>
  PROVE  IInv'
  <1>1. Idle.pc = "idle" BY DEF Idle
  <1>2. j.pc \in PlainPCs BY <1>1, NextPeerPlain DEF IInv, PlainPCs
  <1> QED BY <1>2, PlainStep DEF memory

(* A conference leaves the map and the index; the goroutine that took it   *)
(* out goes on with job j.                                                 *)
LEMMA RemoveConferenceInv ==
  ASSUME IInv, TypeOK', NEW t \in Threads, NEW j, Goto(t, j), NEW c \in ConfIds,
         confState[c] = "active", RemoveConference(c), UNCHANGED database,
         JobOK(j, rows, active, confState', confMembers), ~Pending(j), j.pc \notin Holding,
         j.pc = "dropTx" => j.conf = c,
         thread[t].pc # "purge"
  PROVE  IInv'
  <1>1. TypeOK BY DEF IInv
  <1>2. /\ \A d \in ConfIds : confState'[d] = IF d = c THEN "ended" ELSE confState[d]
        /\ \A p \in Phones : memberIndex'[p] = IF p \in confMembers[c] THEN NoConf ELSE memberIndex[p]
        /\ UNCHANGED <<active, confMembers, rows, nextId>>
    BY <1>1 DEF RemoveConference, TypeOK, database
  <1>3. thread'[t] = j /\ \A u \in Threads \ {t} : thread'[u] = thread[u] BY <1>1 DEF TypeOK, Goto
  <1>4. SameCalls(rows, rows') /\ SameConfs(confState, confMembers, confState', confMembers')
    BY <1>2 DEF SameCalls, SameConfs
  <1>5. JobsOK'
    <2> SUFFICES ASSUME NEW u \in Threads
                 PROVE  JobOK(thread'[u], rows', active', confState', confMembers')
      BY DEF JobsOK
    <2>1. CASE u = t BY <1>2, <1>3, <2>1
    <2>2. CASE u # t
      <3> DEFINE k == thread[u]
      <3>1. k \in Job /\ JobOK(k, rows, active, confState, confMembers) BY <1>1 DEF TypeOK, IInv, JobsOK
      <3>2. Pending(k) => ~rows'[k.id].merged /\ \A q \in Pairs : active'[q] # k.id
        BY <1>2, <3>1 DEF JobOK
      <3>3. k.pc = "dropTx" => \A i \in CallIds : rows'[i].orig # k.conf BY <1>2, <3>1 DEF JobOK
      <3> HIDE DEF k
      <3>4. JobOK(k, rows', active', confState', confMembers')
        BY <1>4, <3>1, <3>2, <3>3, JobKeeps
      <3> QED BY <1>3, <2>2, <3>4 DEF k
    <2> QED BY <2>1, <2>2
  <1>6. JobsApart'
    <2>1. ASSUME NEW u \in Threads \ {t} PROVE Apart(thread'[t], thread[u])
      <3>1. j.pc = "dropTx" /\ thread[u].pc = "dropTx" => j.conf # thread[u].conf
        BY DEF IInv, JobsOK, JobOK
      <3> QED BY <1>3, <3>1 DEF Apart
    <2> QED BY <1>3, <2>1, ApartMove DEF IInv
  <1>7. RowsInserted' BY <1>2 DEF IInv, RowsInserted
  <1>8. ConferencesFilled'
    <2> SUFFICES ASSUME NEW d \in ConfIds
                 PROVE  /\ confState'[d] = "fresh" => confMembers'[d] = {}
                        /\ confState'[d] # "fresh" => ThreePhones(confMembers'[d])
                        /\ confState'[d] # "ended" => \A i \in CallIds : rows'[i].orig # d
      BY DEF ConferencesFilled
    <2>1. /\ confState[d] = "fresh" => confMembers[d] = {}
          /\ confState[d] # "fresh" => ThreePhones(confMembers[d])
          /\ confState[d] # "ended" => \A i \in CallIds : rows[i].orig # d
      BY DEF IInv, ConferencesFilled
    <2> QED BY <1>2, <2>1
  <1>9. ConferenceIndexSound'
    <2> SUFFICES ASSUME NEW p \in Phones, NEW d \in ConfIds
                 PROVE  memberIndex'[p] = d <=> confState'[d] = "active" /\ p \in confMembers'[d]
      BY DEF ConferenceIndexSound
    <2>1. \A e \in ConfIds : memberIndex[p] = e <=> confState[e] = "active" /\ p \in confMembers[e]
      BY DEF IInv, ConferenceIndexSound
    <2> QED BY <1>2, <2>1
  <1>10. ActiveNamesItsRow' BY <1>2 DEF IInv, ActiveNamesItsRow
  <1>11. ContinuationOnce' BY <1>2 DEF IInv, ContinuationOnce
  <1>12. MergedCallsRetired'
    <2> SUFFICES ASSUME NEW k \in Pairs, active[k] # 0, rows[active[k]].merged
                 PROVE  \E u \in Threads : thread'[u].pc = "purge" /\ active[k] \in thread'[u].ids
      BY <1>2 DEF MergedCallsRetired, At
    <2>1. PICK u \in Threads : thread[u].pc = "purge" /\ active[k] \in thread[u].ids
      BY DEF IInv, MergedCallsRetired, At
    <2> QED BY <1>3, <2>1
  <1> QED BY <1>5, <1>6, <1>7, <1>8, <1>9, <1>10, <1>11, <1>12 DEF IInv

(* The three operations that end a conference.                             *)
LEMMA EndStepsInv ==
  ASSUME IInv, NEW t \in Threads, Proceed(t),
         CreateConferenceRollback(t) \/ EndConference(t) \/ EndConferenceTx(t) \/ DropMember(t)
  PROVE  IInv'
  <1> DEFINE job == thread[t]
             c == job.conf
  <1>1. TypeOK' /\ TypeOK /\ job \in Job BY ProceedTypeInv DEF IInv, TypeOK
  <1>2. Idle.pc = "idle" BY DEF Idle
  <1>3. JobOK(job, rows, active, confState, confMembers) BY DEF IInv, JobsOK
  <1>4. CASE UNCHANGED <<memory, rows, nextId>> /\ job.pc # "purge"
               /\ (Goto(t, Idle) \/ Goto(t, AfterConference(t)))
    BY <1>1, <1>4, GivesUpInv
  <1>5. ASSUME NEW j, Goto(t, j), job.pc \in {"rollback", "endConf", "drop"},
               confState[c] = "active", RemoveConference(c), UNCHANGED database,
               \/ j = Idle
               \/ j = [job EXCEPT !.pc = "endConfTx"]
               \/ job.pc = "drop" /\ j = [job EXCEPT !.pc = "dropTx"]
        PROVE  IInv'
    <2>1. c \in ConfIds BY <1>3, <1>5 DEF JobOK, InConf
    <2>2. \/ j.pc = "idle"
          \/ j.pc = "endConfTx" /\ j.conf = c
          \/ job.pc = "drop" /\ j.pc = "dropTx" /\ j.conf = c /\ j.num = job.num
      BY <1>1, <1>2, <1>5 DEF Job
    <2>3. confState'[c] = "ended" BY <1>1, <1>5, <2>1 DEF RemoveConference, TypeOK
    <2>4. \A i \in CallIds : rows[i].orig # c BY <1>5, <2>1 DEF IInv, ConferencesFilled
    <2>5. job.pc = "drop" => job.num \in confMembers[c] BY <1>3 DEF JobOK, Dropping
    <2>6. /\ JobOK(j, rows, active, confState', confMembers)
          /\ ~Pending(j) /\ j.pc \notin Holding /\ (j.pc = "dropTx" => j.conf = c)
      BY <2>1, <2>2, <2>3, <2>4, <2>5 DEF JobOK, Merging, Holding, InConf, Dropping, Pending
    <2> HIDE DEF c
    <2> QED BY <1>1, <1>5, <2>1, <2>6, RemoveConferenceInv
  <1>6. CASE CreateConferenceRollback(t)
    <2>1. Goto(t, Idle) /\ job.pc = "rollback" /\ UNCHANGED database
      BY <1>6 DEF CreateConferenceRollback, At
    <2>2. \/ confState[c] = "active" /\ RemoveConference(c)
          \/ UNCHANGED memory
      BY <1>6 DEF CreateConferenceRollback
    <2> QED BY <1>4, <1>5, <2>1, <2>2 DEF database
  <1>7. CASE EndConference(t)
    <2>1. job.pc = "endConf" /\ UNCHANGED database BY <1>7 DEF EndConference, At
    <2>2. \/ /\ confState[c] = "active" /\ RemoveConference(c)
             /\ Goto(t, [job EXCEPT !.pc = "endConfTx"])
          \/ UNCHANGED memory /\ Goto(t, AfterConference(t))
      BY <1>7 DEF EndConference, Become
    <2> QED BY <1>4, <1>5, <2>1, <2>2 DEF database
  <1>8. CASE EndConferenceTx(t)
    BY <1>4, <1>8 DEF EndConferenceTx, At
  <1>9. CASE DropMember(t)
    <2>1. job.pc = "drop" /\ UNCHANGED database BY <1>9 DEF DropMember, At
    <2>2. \/ /\ confState[c] = "active" /\ RemoveConference(c)
             /\ Goto(t, [job EXCEPT !.pc = "dropTx"])
          \/ UNCHANGED memory /\ Goto(t, Idle)
      BY <1>9 DEF DropMember, Become
    <2> QED BY <1>4, <1>5, <2>1, <2>2 DEF database
  <1> QED BY <1>6, <1>7, <1>8, <1>9

(* A conference enters the map: its three parties were in none.            *)
LEMMA NewConferenceInv ==
  ASSUME IInv, TypeOK', NEW t \in Threads, NEW c \in ConfIds, NEW all,
         all = {thread[t].num} \cup thread[t].peers,
         thread[t].pc = "create", confState[c] = "fresh",
         \A p \in all : memberIndex[p] = NoConf,
         confState' = [confState EXCEPT ![c] = "active"],
         confMembers' = [confMembers EXCEPT ![c] = all],
         memberIndex' = [p \in Phones |-> IF p \in all THEN c ELSE memberIndex[p]],
         Goto(t, [thread[t] EXCEPT !.pc = "createTx", !.conf = c]),
         UNCHANGED <<active, database>>
  PROVE  IInv'
  <1> DEFINE job == thread[t]
             j == [job EXCEPT !.pc = "createTx", !.conf = c]
  <1>1. TypeOK /\ job \in Job /\ JobOK(job, rows, active, confState, confMembers)
    BY DEF IInv, TypeOK, JobsOK
  <1>2. /\ \A d \in ConfIds : /\ confState'[d] = IF d = c THEN "active" ELSE confState[d]
                              /\ confMembers'[d] = IF d = c THEN all ELSE confMembers[d]
        /\ \A p \in Phones : memberIndex'[p] = IF p \in all THEN c ELSE memberIndex[p]
        /\ UNCHANGED <<active, rows, nextId>>
    BY <1>1 DEF TypeOK, database
  <1>3. /\ j.pc = "createTx" /\ j.conf = c /\ j.num = job.num
        /\ j.peers = job.peers /\ j.ids = job.ids
    BY <1>1 DEF Job
  <1>4. thread'[t] = j /\ \A u \in Threads \ {t} : thread'[u] = thread[u] BY <1>1 DEF TypeOK, Goto
  <1> HIDE DEF j
  <1>5. SameCalls(rows, rows') /\ SameConfs(confState, confMembers, confState', confMembers')
    BY <1>2 DEF SameCalls, SameConfs
  <1>6. JobsOK'
    <2> SUFFICES ASSUME NEW u \in Threads
                 PROVE  JobOK(thread'[u], rows', active', confState', confMembers')
      BY DEF JobsOK
    <2>1. CASE u = t
      <3>1. JobOK(j, rows, active, confState', confMembers')
        BY <1>1, <1>2, <1>3 DEF JobOK, Merging, Holding, InConf, Dropping, Pending
      <3> QED BY <1>2, <1>4, <2>1, <3>1
    <2>2. CASE u # t
      <3> DEFINE k == thread[u]
      <3>1. k \in Job /\ JobOK(k, rows, active, confState, confMembers) BY <1>1 DEF TypeOK, IInv, JobsOK
      <3>2. Pending(k) => ~rows'[k.id].merged /\ \A q \in Pairs : active'[q] # k.id
        BY <1>2, <3>1 DEF JobOK
      <3>3. k.pc = "dropTx" => \A i \in CallIds : rows'[i].orig # k.conf BY <1>2, <3>1 DEF JobOK
      <3> HIDE DEF k
      <3>4. JobOK(k, rows', active', confState', confMembers')
        BY <1>5, <3>1, <3>2, <3>3, JobKeeps
      <3> QED BY <1>4, <2>2, <3>4 DEF k
    <2> QED BY <2>1, <2>2
  <1>7. JobsApart'
    <2>1. ASSUME NEW u \in Threads \ {t} PROVE Apart(thread'[t], thread[u])
      <3>1. Pending(thread[u]) => thread[u].id \notin job.ids
        BY DEF IInv, JobsApart, Apart, Holding
      <3> QED BY <1>3, <1>4, <3>1 DEF Apart, Pending
    <2> QED BY <1>4, <2>1, ApartMove DEF IInv
  <1>8. RowsInserted' BY <1>2 DEF IInv, RowsInserted
  <1>9. ThreePhones(all)
    <2>1. PICK a \in Phones, b \in Phones : /\ job.num \in Phones /\ Three(job.num, a, b)
                                            /\ job.peers = {a, b}
      BY <1>1 DEF JobOK, Merging
    <2>2. all = {job.num, a, b} BY <2>1
    <2> QED BY <2>1, <2>2 DEF ThreePhones
  <1>10. \A i \in CallIds : rows[i].orig # c BY DEF IInv, ConferencesFilled
  <1>11. ConferencesFilled'
    <2> SUFFICES ASSUME NEW d \in ConfIds
                 PROVE  /\ confState'[d] = "fresh" => confMembers'[d] = {}
                        /\ confState'[d] # "fresh" => ThreePhones(confMembers'[d])
                        /\ confState'[d] # "ended" => \A i \in CallIds : rows'[i].orig # d
      BY DEF ConferencesFilled
    <2>1. /\ confState[d] = "fresh" => confMembers[d] = {}
          /\ confState[d] # "fresh" => ThreePhones(confMembers[d])
          /\ confState[d] # "ended" => \A i \in CallIds : rows[i].orig # d
      BY DEF IInv, ConferencesFilled
    <2>2. CASE d = c
      <3>1. confMembers'[d] = all /\ confState'[d] = "active" BY <1>2, <2>2
      <3> QED BY <1>2, <1>9, <1>10, <2>2, <3>1
    <2>3. CASE d # c BY <1>2, <2>1, <2>3
    <2> QED BY <2>2, <2>3
  <1>12. ConferenceIndexSound'
    <2> SUFFICES ASSUME NEW p \in Phones, NEW d \in ConfIds
                 PROVE  memberIndex'[p] = d <=> confState'[d] = "active" /\ p \in confMembers'[d]
      BY DEF ConferenceIndexSound
    <2>1. \A e \in ConfIds : memberIndex[p] = e <=> confState[e] = "active" /\ p \in confMembers[e]
      BY DEF IInv, ConferenceIndexSound
    <2> QED BY <1>2, <2>1
  <1>13. ActiveNamesItsRow' BY <1>2 DEF IInv, ActiveNamesItsRow
  <1>14. ContinuationOnce'
    <2> SUFFICES ASSUME NEW i \in CallIds, NEW k \in CallIds,
                        rows'[i].orig # NoConf /\ rows'[i].orig = rows'[k].orig
                 PROVE  /\ i = k
                        /\ {rows'[i].caller, rows'[i].callee} \subseteq confMembers'[rows'[i].orig]
      BY DEF ContinuationOnce
    <2>1. rows[i].orig \in ConfIds BY <1>1, <1>2 DEF TypeOK, Row
    <2> QED BY <1>2, <1>10, <2>1 DEF IInv, ContinuationOnce
  <1>15. MergedCallsRetired'
    <2> SUFFICES ASSUME NEW k \in Pairs, active[k] # 0, rows[active[k]].merged
                 PROVE  \E u \in Threads : thread'[u].pc = "purge" /\ active[k] \in thread'[u].ids
      BY <1>2 DEF MergedCallsRetired, At
    <2>1. PICK u \in Threads : thread[u].pc = "purge" /\ active[k] \in thread[u].ids
      BY SMTT(60) DEF IInv, MergedCallsRetired, At
    <2> QED BY <1>4, <2>1
  <1> QED BY <1>6, <1>7, <1>8, <1>11, <1>12, <1>13, <1>14, <1>15 DEF IInv

LEMMA CreateConferenceInv ==
  ASSUME IInv, NEW t \in Threads, Proceed(t), CreateConference(t)
  PROVE  IInv'
  <1> DEFINE all == {thread[t].num} \cup thread[t].peers
  <1>1. TypeOK' /\ thread[t].pc = "create" /\ UNCHANGED database
    BY ProceedTypeInv DEF CreateConference, At
  <1>2. CASE Goto(t, Idle) /\ UNCHANGED memory
    BY <1>1, <1>2, GivesUpInv DEF database
  <1>3. ASSUME NEW c \in ConfIds,
               \A p \in all : memberIndex[p] = NoConf,
               confState[c] = "fresh",
               confState' = [confState EXCEPT ![c] = "active"],
               confMembers' = [confMembers EXCEPT ![c] = all],
               memberIndex' = [p \in Phones |-> IF p \in all THEN c ELSE memberIndex[p]],
               Goto(t, [thread[t] EXCEPT !.pc = "createTx", !.conf = c]),
               UNCHANGED active
        PROVE  IInv'
    BY <1>1, <1>3, NewConferenceInv
  <1> QED BY <1>2, <1>3 DEF CreateConference

(* The transaction of a merge ends the rows of the calls it merges; no     *)
(* other goroutine is about to put one of them into the map.               *)
LEMMA CreateConferenceTxInv ==
  ASSUME IInv, NEW t \in Threads, Proceed(t), CreateConferenceTx(t)
  PROVE  IInv'
  <1> DEFINE job == thread[t]
             j == [job EXCEPT !.pc = "purge"]
  <1>1. /\ TypeOK' /\ TypeOK /\ job \in Job /\ job.pc = "createTx"
        /\ JobOK(job, rows, active, confState, confMembers)
    BY ProceedTypeInv DEF IInv, TypeOK, JobsOK, CreateConferenceTx, At
  <1>2. UNCHANGED <<memory, nextId>> /\ Goto(t, j) BY DEF CreateConferenceTx, Become
  <1>3. /\ j.pc = "purge" /\ j.conf = job.conf /\ j.num = job.num
        /\ j.peers = job.peers /\ j.ids = job.ids
    BY <1>1 DEF Job
  <1> HIDE DEF j
  <1>4. thread'[t] = j /\ \A u \in Threads \ {t} : thread'[u] = thread[u]
    BY <1>1, <1>2 DEF TypeOK, Goto
  <1>5. ASSUME NEW i \in CallIds
        PROVE  /\ rows'[i].caller = rows[i].caller /\ rows'[i].callee = rows[i].callee
               /\ rows'[i].orig = rows[i].orig
               /\ rows'[i].status = IF i \in job.ids THEN "ended" ELSE rows[i].status
               /\ rows'[i].merged = (i \in job.ids \/ rows[i].merged)
    <2>1. rows[i] \in Row BY <1>1 DEF TypeOK
    <2>2. CASE i \in job.ids
      <3> DEFINE r == rows[i]
      <3>1. rows'[i] = [r EXCEPT !.status = "ended", !.merged = TRUE] BY <2>2 DEF CreateConferenceTx
      <3>2. r \in Row BY <2>1
      <3> HIDE DEF r
      <3>3. rows'[i].caller = r.caller /\ rows'[i].callee = r.callee /\ rows'[i].orig = r.orig
        BY <3>1, <3>2 DEF Row
      <3>4. rows'[i].status = "ended" /\ rows'[i].merged = TRUE BY <3>1, <3>2 DEF Row
      <3> QED BY <2>2, <3>3, <3>4 DEF r
    <2>3. CASE i \notin job.ids
      <3>1. rows'[i] = rows[i] BY <2>3 DEF CreateConferenceTx
      <3>2. rows[i].merged \in BOOLEAN BY <2>1 DEF Row
      <3> QED BY <2>3, <3>1, <3>2
    <2> QED BY <2>2, <2>3
  <1>6. /\ job.ids \subseteq CallIds
        /\ \A i \in job.ids : rows[i].status # "none"
    BY <1>1 DEF Job, JobOK, Holding
  <1>7. SameCalls(rows, rows') /\ SameConfs(confState, confMembers, confState', confMembers')
    BY <1>2, <1>5 DEF SameCalls, SameConfs, memory
  <1>8. \A u \in Threads \ {t} : Pending(thread[u]) => thread[u].id \notin job.ids
    BY <1>1 DEF IInv, JobsApart, Apart, Holding
  <1>9. JobsOK'
    <2> SUFFICES ASSUME NEW u \in Threads
                 PROVE  JobOK(thread'[u], rows', active', confState', confMembers')
      BY DEF JobsOK
    <2>1. CASE u = t
      <3>1. JobOK(j, rows, active, confState, confMembers)
        BY <1>1, <1>3 DEF JobOK, Merging, Holding, InConf, Dropping, Pending
      <3>2. j \in Job /\ ~Pending(j) /\ j.pc # "dropTx" BY <1>1, <1>3, <1>4 DEF TypeOK, Pending
      <3>3. JobOK(j, rows', active', confState', confMembers')
        BY <1>7, <3>1, <3>2, JobKeeps
      <3> QED BY <1>4, <2>1, <3>3
    <2>2. CASE u # t
      <3> DEFINE k == thread[u]
      <3>1. k \in Job /\ JobOK(k, rows, active, confState, confMembers) BY <1>1 DEF TypeOK, IInv, JobsOK
      <3>2. Pending(k) => ~rows'[k.id].merged /\ \A q \in Pairs : active'[q] # k.id
        BY <1>2, <1>5, <1>8, <2>2, <3>1 DEF JobOK, memory
      <3>3. k.pc = "dropTx" => \A i \in CallIds : rows'[i].orig # k.conf BY <1>5, <3>1 DEF JobOK
      <3> HIDE DEF k
      <3>4. JobOK(k, rows', active', confState', confMembers')
        BY <1>7, <3>1, <3>2, <3>3, JobKeeps
      <3> QED BY <1>4, <2>2, <3>4 DEF k
    <2> QED BY <2>1, <2>2
  <1>10. JobsApart'
    <2>1. ASSUME NEW u \in Threads \ {t} PROVE Apart(thread'[t], thread[u])
      BY <1>3, <1>4, <1>8 DEF Apart, Pending
    <2> QED BY <1>4, <2>1, ApartMove DEF IInv
  <1>11. RowsInserted'
    <2> SUFFICES ASSUME NEW i \in CallIds
                 PROVE  /\ rows'[i].status = "none" <=> i >= nextId
                        /\ rows'[i].status = "none" => rows'[i].orig = NoConf /\ ~rows'[i].merged
      BY <1>2 DEF RowsInserted
    <2>1. /\ rows[i].status = "none" <=> i >= nextId
          /\ rows[i].status = "none" => rows[i].orig = NoConf /\ ~rows[i].merged
      BY DEF IInv, RowsInserted
    <2>2. CASE i \in job.ids
      <3>1. rows'[i].status = "ended" /\ rows[i].status # "none" BY <1>5, <1>6, <2>2
      <3> QED BY <2>1, <3>1
    <2>3. CASE i \notin job.ids
      <3>1. /\ rows'[i].status = rows[i].status /\ rows'[i].orig = rows[i].orig
            /\ rows'[i].merged <=> rows[i].merged
        BY <1>5, <2>3
      <3> QED BY <2>1, <3>1
    <2> QED BY <2>2, <2>3
  <1>12. ConferencesFilled' BY <1>2, <1>5 DEF IInv, ConferencesFilled, memory
  <1>13. ConferenceIndexSound' BY <1>2 DEF IInv, ConferenceIndexSound, memory
  <1>14. \A k \in Pairs : active'[k] = active[k] /\ (active[k] # 0 => active[k] \in CallIds)
    BY <1>1, <1>2 DEF TypeOK, CallIds, memory
  <1>15. ActiveNamesItsRow'
    <2> SUFFICES ASSUME NEW k \in Pairs, active[k] # 0
                 PROVE  /\ rows'[active[k]].status # "none"
                        /\ rows'[active[k]].caller = k[1] /\ rows'[active[k]].callee = k[2]
      BY <1>14 DEF ActiveNamesItsRow
    <2> QED BY <1>5, <1>14 DEF IInv, ActiveNamesItsRow
  <1>16. ContinuationOnce' BY <1>2, <1>5 DEF IInv, ContinuationOnce, memory
  <1>17. MergedCallsRetired'
    <2> SUFFICES ASSUME NEW k \in Pairs, active[k] # 0, rows'[active[k]].merged
                 PROVE  \E u \in Threads : thread'[u].pc = "purge" /\ active[k] \in thread'[u].ids
      BY <1>14 DEF MergedCallsRetired, At
    <2>1. CASE active[k] \in job.ids BY <1>3, <1>4, <2>1
    <2>2. CASE active[k] \notin job.ids
      <3>1. rows[active[k]].merged BY <1>5, <1>14, <2>2
      <3>2. PICK u \in Threads : thread[u].pc = "purge" /\ active[k] \in thread[u].ids
        BY <3>1 DEF IInv, MergedCallsRetired, At
      <3> QED BY <1>1, <1>4, <3>2
    <2> QED BY <2>1, <2>2
  <1> QED BY <1>1, <1>9, <1>10, <1>11, <1>12, <1>13, <1>15, <1>16, <1>17 DEF IInv

(* A row is inserted: a call's, or, when o is a conference, the            *)
(* continuation of the conference that this goroutine took apart.          *)
LEMMA InsertInv ==
  ASSUME IInv, TypeOK', NEW t \in Threads, NEW x \in Phones \cup {NoPhone},
         NEW y \in Phones \cup {NoPhone}, NEW st \in {"initiated", "connected"},
         NEW o \in ConfIds \cup {NoConf}, NEW j,
         InsertRow(<<x, y>>, st, o), Goto(t, j), UNCHANGED memory, j.id = nextId,
         thread[t].pc # "purge",
         \/ j.pc = "publish" /\ o = NoConf /\ x = j.num /\ y = j.peer
         \/ /\ j.pc = "register" /\ thread[t].pc = "dropTx"
            /\ o = thread[t].conf /\ j.conf = o /\ j.num = thread[t].num
            /\ <<x, y>> = PairLeft(confMembers[o], j.num) /\ {x, y} \subseteq confMembers[o]
  PROVE  IInv'
  <1>1. TypeOK BY DEF IInv
  <1>2. nextId \in CallIds /\ nextId' = nextId + 1 /\ nextId # 0
    BY <1>1 DEF InsertRow, TypeOK, CallIds
  <1>3. /\ \A i \in CallIds \ {nextId} : rows'[i] = rows[i]
        /\ rows'[nextId].caller = x /\ rows'[nextId].callee = y /\ rows'[nextId].status = st
        /\ rows'[nextId].merged = FALSE /\ rows'[nextId].orig = o
    <2> DEFINE r == [caller |-> x, callee |-> y, status |-> st, merged |-> FALSE, orig |-> o]
    <2>1. rows' = [rows EXCEPT ![nextId] = r] BY DEF InsertRow
    <2>2. r.caller = x /\ r.callee = y /\ r.status = st /\ r.merged = FALSE /\ r.orig = o OBVIOUS
    <2> HIDE DEF r
    <2> QED BY <1>1, <1>2, <2>1, <2>2 DEF TypeOK
  <1>4. thread'[t] = j /\ \A u \in Threads \ {t} : thread'[u] = thread[u] BY <1>1 DEF TypeOK, Goto
  <1>5. /\ \A i \in CallIds : rows[i].status = "none" <=> i >= nextId
        /\ \A i \in CallIds : rows[i].status = "none" => rows[i].orig = NoConf /\ ~rows[i].merged
    BY DEF IInv, RowsInserted
  <1>6. rows[nextId].status = "none" BY <1>2, <1>5 DEF CallIds
  <1>7. \A k \in Pairs : active[k] # nextId /\ (active[k] # 0 => active[k] \in CallIds \ {nextId})
    BY SMTT(60), <1>1, <1>2, <1>6 DEF IInv, ActiveNamesItsRow, TypeOK, CallIds
  <1>8. \A u \in Threads : /\ thread[u].pc \in Holding => nextId \notin thread[u].ids
                           /\ Pending(thread[u]) => thread[u].id # nextId
    BY <1>6 DEF IInv, JobsOK, JobOK
  <1>9. /\ UNCHANGED <<active, memberIndex, confState, confMembers>>
        /\ SameCalls(rows, rows') /\ SameConfs(confState, confMembers, confState', confMembers')
    <2>1. UNCHANGED <<active, memberIndex, confState, confMembers>> BY DEF memory
    <2>2. SameConfs(confState, confMembers, confState', confMembers') BY <2>1 DEF SameConfs
    <2>3. SameCalls(rows, rows')
      <3> SUFFICES ASSUME NEW i \in CallIds, rows[i].status # "none" PROVE rows'[i] = rows[i]
        BY DEF SameCalls
      <3> QED BY <1>3, <1>6
    <2> QED BY <2>1, <2>2, <2>3
  <1>10. \/ o = NoConf
         \/ /\ o \in ConfIds /\ confState[o] = "ended"
            /\ \A i \in CallIds : rows[i].orig # o
    BY DEF IInv, JobsOK, JobOK, InConf
  <1>11. JobsOK'
    <2> SUFFICES ASSUME NEW u \in Threads
                 PROVE  JobOK(thread'[u], rows', active', confState', confMembers')
      BY DEF JobsOK
    <2>1. CASE u = t
      <3>1. CASE j.pc = "publish"
        <4>1. JobOK(j, rows', active, confState, confMembers)
          BY <1>2, <1>3, <1>7, <3>1 DEF JobOK, Merging, Holding, InConf, Dropping, Pending
        <4> QED BY <1>4, <1>9, <2>1, <4>1
      <3>2. CASE j.pc = "register"
        <4>1. o \in ConfIds /\ confState[o] = "ended" /\ j.num \in confMembers[o] /\ j.conf = o
          BY <3>2 DEF IInv, JobsOK, JobOK, InConf, Dropping
        <4>2. <<rows'[j.id].caller, rows'[j.id].callee>> = PairLeft(confMembers[o], j.num)
          BY <1>3, <3>2
        <4>3. Pending(j) => /\ j.id \in CallIds /\ rows'[j.id].status # "none" /\ ~rows'[j.id].merged
                            /\ \A k \in Pairs : active[k] # j.id
          BY <1>2, <1>3, <1>7
        <4>4. JobOK(j, rows', active, confState, confMembers)
          BY <3>2, <4>1, <4>2, <4>3 DEF JobOK, Merging, Holding, InConf, Dropping
        <4> QED BY <1>4, <1>9, <2>1, <4>4
      <3> QED BY <3>1, <3>2
    <2>2. CASE u # t
      <3> DEFINE k == thread[u]
      <3>1. k \in Job /\ JobOK(k, rows, active, confState, confMembers) BY <1>1 DEF TypeOK, IInv, JobsOK
      <3>2. Pending(k) => ~rows'[k.id].merged /\ \A q \in Pairs : active'[q] # k.id
        BY <1>3, <1>8, <1>9, <3>1 DEF JobOK
      <3>3. k.pc = "dropTx" => \A i \in CallIds : rows'[i].orig # k.conf
        <4> SUFFICES ASSUME k.pc = "dropTx", NEW i \in CallIds PROVE rows'[i].orig # k.conf
          OBVIOUS
        <4>1. k.conf \in ConfIds /\ rows[i].orig # k.conf BY <3>1 DEF JobOK, InConf
        <4>2. o # k.conf BY <2>2, <4>1 DEF IInv, JobsApart, Apart
        <4> QED BY <1>3, <4>1, <4>2
      <3> HIDE DEF k
      <3>4. JobOK(k, rows', active', confState', confMembers')
        BY <1>9, <3>1, <3>2, <3>3, JobKeeps
      <3> QED BY <1>4, <2>2, <3>4 DEF k
    <2> QED BY <2>1, <2>2
  <1>12. JobsApart'
    <2>1. ASSUME NEW u \in Threads \ {t} PROVE Apart(thread'[t], thread[u])
      BY <1>4, <1>8 DEF Apart, Holding
    <2> QED BY <1>4, <2>1, ApartMove DEF IInv
  <1>13. RowsInserted'
    <2> SUFFICES ASSUME NEW i \in CallIds
                 PROVE  /\ rows'[i].status = "none" <=> i >= nextId + 1
                        /\ rows'[i].status = "none" => rows'[i].orig = NoConf /\ ~rows'[i].merged
      BY <1>2 DEF RowsInserted
    <2>1. CASE i = nextId
      <3>1. rows'[i].status # "none" BY <1>3, <2>1
      <3>2. ~(i >= nextId + 1) BY <1>2, <2>1 DEF CallIds
      <3> QED BY <3>1, <3>2
    <2>2. CASE i # nextId
      <3>1. rows'[i] = rows[i] BY <1>3, <2>2
      <3>2. i \in Int /\ nextId \in Int BY <1>2 DEF CallIds
      <3>3. i >= nextId + 1 <=> i >= nextId BY <2>2, <3>2
      <3> QED BY <1>5, <3>1, <3>3
    <2> QED BY <2>1, <2>2
  <1>14. ConferencesFilled'
    <2> SUFFICES ASSUME NEW d \in ConfIds
                 PROVE  /\ confState[d] = "fresh" => confMembers[d] = {}
                        /\ confState[d] # "fresh" => ThreePhones(confMembers[d])
                        /\ confState[d] # "ended" => \A i \in CallIds : rows'[i].orig # d
      BY <1>9 DEF ConferencesFilled
    <2>1. /\ confState[d] = "fresh" => confMembers[d] = {}
          /\ confState[d] # "fresh" => ThreePhones(confMembers[d])
          /\ confState[d] # "ended" => \A i \in CallIds : rows[i].orig # d
      BY DEF IInv, ConferencesFilled
    <2>2. confState[d] # "ended" => o # d BY <1>10
    <2>3. ASSUME confState[d] # "ended", NEW i \in CallIds PROVE rows'[i].orig # d
      <3>1. CASE i = nextId BY <1>3, <2>2, <2>3, <3>1
      <3>2. CASE i # nextId BY <1>3, <2>1, <2>3, <3>2
      <3> QED BY <3>1, <3>2
    <2> QED BY <2>1, <2>3
  <1>15. ConferenceIndexSound'
    <2>1. ConferenceIndexSound /\ UNCHANGED <<memberIndex, confState, confMembers>> BY <1>9 DEF IInv
    <2> QED BY <2>1 DEF ConferenceIndexSound
  <1>16. ActiveNamesItsRow'
    <2> SUFFICES ASSUME NEW k \in Pairs, active[k] # 0
                 PROVE  /\ rows'[active[k]].status # "none"
                        /\ rows'[active[k]].caller = k[1] /\ rows'[active[k]].callee = k[2]
      BY <1>9 DEF ActiveNamesItsRow
    <2> QED BY <1>3, <1>7 DEF IInv, ActiveNamesItsRow
  <1>17. ContinuationOnce'
    <2> SUFFICES ASSUME NEW i \in CallIds, NEW k \in CallIds,
                        rows'[i].orig # NoConf /\ rows'[i].orig = rows'[k].orig
                 PROVE  i = k /\ {rows'[i].caller, rows'[i].callee} \subseteq confMembers[rows'[i].orig]
      BY <1>9 DEF ContinuationOnce
    <2>1. CASE i = nextId
      <3>1. o # NoConf /\ rows'[k].orig = o BY <1>3, <2>1
      <3>2. k = nextId BY <1>3, <1>10, <3>1
      <3>3. {x, y} \subseteq confMembers[o] BY <3>1
      <3>4. rows'[i].caller = x /\ rows'[i].callee = y /\ rows'[i].orig = o BY <1>3, <2>1
      <3> QED BY <2>1, <3>2, <3>3, <3>4
    <2>2. CASE i # nextId
      <3>1. rows'[i] = rows[i] /\ k # nextId BY <1>3, <1>10, <2>2
      <3>2. rows'[k] = rows[k] BY <1>3, <3>1
      <3> QED BY <3>1, <3>2 DEF IInv, ContinuationOnce
    <2> QED BY <2>1, <2>2
  <1>18. MergedCallsRetired'
    <2> SUFFICES ASSUME NEW k \in Pairs, active[k] # 0, rows'[active[k]].merged
                 PROVE  \E u \in Threads : thread'[u].pc = "purge" /\ active[k] \in thread'[u].ids
      BY <1>9 DEF MergedCallsRetired, At
    <2>1. rows[active[k]].merged BY <1>3, <1>7
    <2>2. PICK u \in Threads : thread[u].pc = "purge" /\ active[k] \in thread[u].ids
      BY <2>1 DEF IInv, MergedCallsRetired, At
    <2> QED BY <1>4, <2>2
  <1> QED BY <1>11, <1>12, <1>13, <1>14, <1>15, <1>16, <1>17, <1>18 DEF IInv

LEMMA InsertStepsInv ==
  ASSUME IInv, NEW t \in Threads, Proceed(t), OnCallInitiatedInsert(t) \/ DropMemberTx(t)
  PROVE  IInv'
  <1> DEFINE job == thread[t]
  <1>1. TypeOK' /\ TypeOK /\ job \in Job BY ProceedTypeInv DEF IInv, TypeOK
  <1>2. CASE OnCallInitiatedInsert(t)
    <2> DEFINE j == [job EXCEPT !.pc = "publish", !.id = nextId]
    <2>1. j.pc = "publish" /\ j.id = nextId /\ j.num = job.num /\ j.peer = job.peer BY <1>1 DEF Job
    <2>2. job.num \in Phones \cup {NoPhone} /\ job.peer \in Phones \cup {NoPhone} BY <1>1 DEF Job
    <2>3. /\ InsertRow(<<job.num, job.peer>>, "initiated", NoConf) /\ Goto(t, j)
          /\ UNCHANGED memory /\ job.pc # "purge"
      BY <1>2 DEF OnCallInitiatedInsert, At
    <2> HIDE DEF j
    <2> QED BY <1>1, <2>1, <2>2, <2>3, InsertInv
  <1>3. CASE DropMemberTx(t)
    <2>1. job.pc = "dropTx" /\ UNCHANGED memory BY <1>3 DEF DropMemberTx, At
    <2>2. CASE Goto(t, Idle) /\ UNCHANGED database BY <1>1, <2>1, <2>2, GivesUpInv DEF database
    <2>3. CASE /\ InsertRow(ContinuationPair(t), "connected", job.conf)
               /\ Goto(t, [job EXCEPT !.pc = "register", !.id = nextId])
      <3> DEFINE j == [job EXCEPT !.pc = "register", !.id = nextId]
      <3>1. j.pc = "register" /\ j.id = nextId /\ j.num = job.num /\ j.conf = job.conf
        BY <1>1 DEF Job
      <3>2. PICK x \in Phones, y \in Phones : /\ ContinuationPair(t) = <<x, y>>
                                              /\ confMembers[job.conf] \ {job.num} = {x, y}
        BY <2>1, PairOfDrop
      <3>3. /\ <<x, y>> = PairLeft(confMembers[job.conf], job.num) /\ job.conf \in ConfIds
            /\ {x, y} \subseteq confMembers[job.conf]
        BY <2>1, <3>2, PairOfDrop
      <3>4. InsertRow(<<x, y>>, "connected", job.conf) /\ Goto(t, j) BY <2>3, <3>2
      <3> HIDE DEF j
      <3> QED BY <1>1, <2>1, <3>1, <3>3, <3>4, InsertInv
    <2> QED BY <1>3, <2>2, <2>3 DEF DropMemberTx
  <1> QED BY <1>2, <1>3

(* A row that was inserted enters the map, under the pair it was inserted  *)
(* for.                                                                    *)
LEMMA PublishInv ==
  ASSUME IInv, TypeOK', NEW t \in Threads, Pending(thread[t]), NEW k,
         <<rows[thread[t].id].caller, rows[thread[t].id].callee>> = k,
         active' = [active EXCEPT ![k] = thread[t].id], Goto(t, Idle),
         UNCHANGED <<memberIndex, confState, confMembers, database>>
  PROVE  IInv'
  <1> DEFINE id == thread[t].id
  <1>1. TypeOK BY DEF IInv
  <1>2. /\ \A q \in Pairs : active'[q] = IF q = k THEN id ELSE active[q]
        /\ UNCHANGED <<memberIndex, confState, confMembers, rows, nextId>>
    BY <1>1 DEF TypeOK, database
  <1>3. thread'[t] = Idle /\ \A u \in Threads \ {t} : thread'[u] = thread[u]
    BY <1>1 DEF TypeOK, Goto
  <1>4. id \in CallIds /\ rows[id].status # "none" /\ ~rows[id].merged
    BY DEF IInv, JobsOK, JobOK
  <1>5. Idle.pc = "idle" BY DEF Idle
  <1>6. SameCalls(rows, rows') /\ SameConfs(confState, confMembers, confState', confMembers')
    BY <1>2 DEF SameCalls, SameConfs
  <1>7. JobsOK'
    <2> SUFFICES ASSUME NEW u \in Threads
                 PROVE  JobOK(thread'[u], rows', active', confState', confMembers')
      BY DEF JobsOK
    <2>1. CASE u = t BY <1>3, <1>5, <2>1, PlainJob DEF PlainPCs
    <2>2. CASE u # t
      <3> DEFINE j == thread[u]
      <3>1. j \in Job /\ JobOK(j, rows, active, confState, confMembers) BY <1>1 DEF TypeOK, IInv, JobsOK
      <3>2. Pending(j) => j.id # id BY <2>2 DEF IInv, JobsApart, Apart
      <3>3. Pending(j) => ~rows'[j.id].merged /\ \A q \in Pairs : active'[q] # j.id
        BY <1>2, <3>1, <3>2 DEF JobOK
      <3>4. j.pc = "dropTx" => \A i \in CallIds : rows'[i].orig # j.conf BY <1>2, <3>1 DEF JobOK
      <3> HIDE DEF j
      <3>5. JobOK(j, rows', active', confState', confMembers')
        BY <1>6, <3>1, <3>3, <3>4, JobKeeps
      <3> QED BY <1>3, <2>2, <3>5 DEF j
    <2> QED BY <2>1, <2>2
  <1>8. JobsApart'
    <2>1. ASSUME NEW u \in Threads \ {t} PROVE Apart(thread'[t], thread[u])
      BY <1>3, <1>5 DEF Apart, Pending, Holding
    <2> QED BY <1>3, <2>1, ApartMove DEF IInv
  <1>9. RowsInserted' BY <1>2 DEF IInv, RowsInserted
  <1>10. ConferencesFilled' BY <1>2 DEF IInv, ConferencesFilled
  <1>11. ConferenceIndexSound' BY <1>2 DEF IInv, ConferenceIndexSound
  <1>12. ActiveNamesItsRow'
    <2> SUFFICES ASSUME NEW q \in Pairs, active'[q] # 0
                 PROVE  /\ rows[active'[q]].status # "none"
                        /\ rows[active'[q]].caller = q[1] /\ rows[active'[q]].callee = q[2]
      BY <1>2 DEF ActiveNamesItsRow
    <2>1. CASE q = k
      <3>1. q[1] = rows[id].caller /\ q[2] = rows[id].callee BY <2>1
      <3> QED BY <1>2, <1>4, <2>1, <3>1
    <2>2. CASE q # k BY <1>2, <2>2 DEF IInv, ActiveNamesItsRow
    <2> QED BY <2>1, <2>2
  <1>13. ContinuationOnce' BY <1>2 DEF IInv, ContinuationOnce
  <1>14. MergedCallsRetired'
    <2> SUFFICES ASSUME NEW q \in Pairs, active'[q] # 0, rows[active'[q]].merged
                 PROVE  \E u \in Threads : thread'[u].pc = "purge" /\ active'[q] \in thread'[u].ids
      BY <1>2 DEF MergedCallsRetired, At
    <2>1. active'[q] = active[q] BY <1>2, <1>4
    <2>2. PICK u \in Threads : thread[u].pc = "purge" /\ active[q] \in thread[u].ids
      BY <2>1 DEF IInv, MergedCallsRetired, At
    <2> QED BY <1>3, <2>1, <2>2 DEF Pending
  <1> QED BY <1>7, <1>8, <1>9, <1>10, <1>11, <1>12, <1>13, <1>14 DEF IInv

LEMMA PublishStepsInv ==
  ASSUME IInv, NEW t \in Threads, Proceed(t), OnCallInitiatedPublish(t) \/ DropMemberRegister(t)
  PROVE  IInv'
  <1> DEFINE job == thread[t]
             id == job.id
  <1>1. TypeOK' /\ TypeOK /\ job \in Job BY ProceedTypeInv DEF IInv, TypeOK
  <1>2. CASE OnCallInitiatedPublish(t)
    <2>1. Pending(job) /\ <<rows[id].caller, rows[id].callee>> = <<job.num, job.peer>>
      BY <1>2 DEF OnCallInitiatedPublish, At, IInv, JobsOK, JobOK, Pending
    <2> QED BY <1>1, <1>2, <2>1, PublishInv DEF OnCallInitiatedPublish
  <1>3. CASE DropMemberRegister(t)
    <2>1. job.pc = "register" BY <1>3 DEF DropMemberRegister, At
    <2>2. ContinuationPair(t) = PairLeft(confMembers[job.conf], job.num) BY <2>1, PairOfDrop
    <2>3. Pending(job) /\ <<rows[id].caller, rows[id].callee>> = ContinuationPair(t)
      BY <2>1, <2>2 DEF IInv, JobsOK, JobOK, Pending
    <2> QED BY <1>1, <1>3, <2>3, PublishInv DEF DropMemberRegister
  <1> QED BY <1>2, <1>3

-----------------------------------------------------------------------------
(* Every step keeps the invariant.                                         *)

LEMMA ProceedInv == ASSUME IInv, NEW t \in Threads, Proceed(t) PROVE IInv'
  BY CallStepsInv, MergeChecksInv, MergeCallIdsInv, PurgeInv, EndStepsInv, CreateConferenceInv,
     CreateConferenceTxInv, InsertStepsInv, PublishStepsInv
  DEF Proceed

(* A statement fails: what was in memory stays as it is.                   *)
LEMMA DbFailureInv == ASSUME IInv, NEW t \in Threads, DbFailure(t) PROVE IInv'
  <1> DEFINE job == thread[t]
             back == [job EXCEPT !.pc = "rollback"]
  <1>1. TypeOK' /\ TypeOK /\ job \in Job BY DbFailureType DEF IInv, TypeOK
  <1>2. job.pc # "purge" /\ UNCHANGED <<memory, database>> BY DEF DbFailure, DbFails, At
  <1>3. Idle.pc \in PlainPCs BY DEF Idle, PlainPCs
  <1>5. ASSUME NEW j, Goto(t, j), j.pc \in PlainPCs PROVE IInv'
    BY <1>1, <1>2, <1>5, PlainStep DEF memory, database
  <1>6. CASE job.pc = "createTx" /\ Goto(t, back)
    <2>1. back.pc = "rollback" /\ back.conf = job.conf BY <1>1 DEF Job
    <2>2. job.conf \in ConfIds /\ confState[job.conf] # "fresh"
      BY <1>6 DEF IInv, JobsOK, JobOK, InConf
    <2> HIDE DEF back
    <2>3. /\ JobOK(back, rows, active, confState, confMembers)
          /\ ~Pending(back) /\ back.pc # "dropTx" /\ back.pc \notin Holding
      BY <2>1, <2>2 DEF JobOK, Merging, Holding, InConf, Dropping, Pending
    <2> QED BY <1>1, <1>2, <1>6, <2>3, ThinkInv
  <1>7. \/ Goto(t, Idle) \/ Goto(t, NextPeer(t)) \/ Goto(t, AfterConference(t))
        \/ job.pc = "createTx" /\ Goto(t, back)
    BY DEF DbFailure, DbFails, At
  <1> QED BY <1>1, <1>3, <1>5, <1>6, <1>7, NextPeerPlain

(* A restart leaves nothing in memory and nobody in the middle of          *)
(* anything.                                                               *)
LEMMA RestartInv == ASSUME IInv, Restart PROVE IInv'
  <1>1. TypeOK' /\ TypeOK BY RestartType DEF IInv
  <1>2. /\ \A k \in Pairs : active'[k] = 0
        /\ \A p \in Phones : memberIndex'[p] = NoConf
        /\ \A c \in ConfIds : confState'[c] = IF confState[c] = "active" THEN "ended" ELSE confState[c]
        /\ \A t \in Threads : thread'[t] = Idle
        /\ UNCHANGED <<confMembers, rows, nextId>>
    BY DEF Restart, database
  <1>3. Idle.pc = "idle" BY DEF Idle
  <1>4. JobsOK' BY <1>2, <1>3, PlainJob DEF JobsOK, PlainPCs
  <1>5. JobsApart'
    <2>1. Apart(Idle, Idle) BY <1>3 DEF Apart, Pending
    <2> QED BY <1>2, <2>1 DEF JobsApart
  <1>6. RowsInserted' BY <1>2 DEF IInv, RowsInserted
  <1>7. ConferencesFilled'
    <2> SUFFICES ASSUME NEW d \in ConfIds
                 PROVE  /\ confState'[d] = "fresh" => confMembers[d] = {}
                        /\ confState'[d] # "fresh" => ThreePhones(confMembers[d])
                        /\ confState'[d] # "ended" => \A i \in CallIds : rows[i].orig # d
      BY <1>2 DEF ConferencesFilled
    <2>1. /\ confState[d] = "fresh" => confMembers[d] = {}
          /\ confState[d] # "fresh" => ThreePhones(confMembers[d])
          /\ confState[d] # "ended" => \A i \in CallIds : rows[i].orig # d
      BY DEF IInv, ConferencesFilled
    <2> QED BY <1>2, <2>1
  <1>8. ConferenceIndexSound' BY <1>2 DEF ConferenceIndexSound
  <1>9. ActiveNamesItsRow' /\ MergedCallsRetired' BY <1>2 DEF ActiveNamesItsRow, MergedCallsRetired
  <1>10. ContinuationOnce' BY <1>2 DEF IInv, ContinuationOnce
  <1> QED BY <1>1, <1>4, <1>5, <1>6, <1>7, <1>8, <1>9, <1>10 DEF IInv

LEMMA InitInv == Init => IInv
  <1> SUFFICES ASSUME Init PROVE IInv
    OBVIOUS
  <1>1. NoRow \in Row BY DEF NoRow, Row
  <1>2. /\ NoRow.status = "none" /\ NoRow.orig = NoConf /\ NoRow.merged = FALSE
        /\ Idle.pc = "idle"
    BY DEF NoRow, Idle
  <1>3. TypeOK BY <1>1, IdleType DEF Init, TypeOK
  <1>4. RowsInserted
    <2> SUFFICES ASSUME NEW i \in CallIds
                 PROVE  /\ rows[i].status = "none" <=> i >= nextId
                        /\ rows[i].status = "none" => rows[i].orig = NoConf /\ ~rows[i].merged
      BY DEF RowsInserted
    <2>1. rows[i] = NoRow /\ nextId = 1 /\ i >= 1 BY DEF Init, CallIds
    <2> QED BY <1>2, <2>1
  <1>5. ConferencesFilled BY <1>2 DEF Init, ConferencesFilled
  <1>6. JobsOK BY <1>2, PlainJob DEF Init, JobsOK, PlainPCs
  <1>7. JobsApart BY <1>2 DEF Init, JobsApart, Apart, Pending
  <1>8. ConferenceIndexSound BY DEF Init, ConferenceIndexSound
  <1>9. ActiveNamesItsRow /\ MergedCallsRetired BY DEF Init, ActiveNamesItsRow, MergedCallsRetired
  <1>10. ContinuationOnce BY <1>2 DEF Init, ContinuationOnce
  <1> QED BY <1>3, <1>4, <1>5, <1>6, <1>7, <1>8, <1>9, <1>10 DEF IInv

LEMMA StutterInv == ASSUME IInv, UNCHANGED vars PROVE IInv'
  <1>1. UNCHANGED <<active, memberIndex, confState, confHost, confMembers, rows, nextId, confRow,
                    memberRows, thread, failures, restarts>>
    BY DEF vars, memory, database, bounds
  <1> QED BY <1>1 DEF IInv, TypeOK, RowsInserted, ConferencesFilled, JobsOK, JobsApart,
                      ConferenceIndexSound, ActiveNamesItsRow, ContinuationOnce,
                      MergedCallsRetired, At

LEMMA Inductive == Spec => []IInv
  <1>1. IInv /\ [Next]_vars => IInv'
    BY RequestInv, ProceedInv, DbFailureInv, RestartInv, StutterInv DEF Next
  <1> QED BY <1>1, InitInv, PTL DEF Spec

-----------------------------------------------------------------------------
(* The theorems.                                                           *)

(* The maps of tracker.go and conference.go, the rows and the local state  *)
(* of every goroutine keep their types; no more rows are inserted than the *)
(* table's bound admits, although CallStart, HangupStart and KickStart     *)
(* reserve room for a row before it is inserted.                           *)
THEOREM TypeCorrect == Spec => []TypeOK
  BY Inductive, PTL DEF IInv

(* Whatever operations overlap, fail or are cut off by a restart, the      *)
(* member index of ConferenceManager is the membership of the conferences  *)
(* in the map, and an entry of the active map (OnCallInitiated's, or the   *)
(* continuation's of DropMemberPersistent) names its own pair's row.       *)
THEOREM MemoryIsSound == Spec => []MemorySound
  BY Inductive, PTL DEF IInv, MemorySound

(* Of the hangups, kicks and disconnects that race for one conference,     *)
(* only the one that finds it in the map (DropMember, under the lock)      *)
(* inserts a continuation call, and it is a call between two members.      *)
THEOREM OneContinuation == Spec => []ContinuationOnce
  BY Inductive, PTL DEF IInv

(* A row that CreateConferencePersistent excluded from the history as      *)
(* merged is tracked only until the purge that follows its transaction.    *)
THEOREM MergedCallsAreRetired == Spec => []MergedCallsRetired
  BY Inductive, PTL DEF IInv
=============================================================================
