---------------------------- MODULE CallTracker ----------------------------
(***************************************************************************)
(* The call tracker of the signaling server                                *)
(* (server/internal/calls/tracker.go and conference.go): the in-memory map *)
(* of active two-party calls, the in-memory conferences with their member  *)
(* index, and the rows both keep in the database.                          *)
(*                                                                         *)
(* The tracker is called by the goroutines that serve the phones'          *)
(* WebSockets and by the web handlers.  Each of them is a thread here, and *)
(* a tracker operation is split where the code releases a lock or waits    *)
(* for the database, so two operations interleave the way they can in the  *)
(* server.  A database step may fail.  The server may restart: it then     *)
(* loses what is in memory and keeps the rows.                             *)
(*                                                                         *)
(* Left out: the health store, the dashboard observer and the Redis copy   *)
(* of the state (one server process), timestamps and durations.            *)
(***************************************************************************)
EXTENDS Integers, FiniteSets

CONSTANTS
  Phones,          \* line numbers; numbers, because sortedPair orders them
  Callers,         \* bound: the phones that dial
  ConfIds,         \* conference ids that uuid.New may return
  Threads,         \* goroutines that call the tracker
  MaxCalls,        \* bound: rows the calls table may receive
  MaxFailures,     \* bound: database steps that may fail
  MaxRestarts,     \* bound: restarts of the server
  NoConf           \* "no conference"

ASSUME PhonesAssumption == Phones \subseteq Nat \ {0} /\ Callers \subseteq Phones
ASSUME ConfIdsAssumption == NoConf \notin ConfIds
ASSUME BoundsAssumption ==
  MaxCalls \in Nat \ {0} /\ MaxFailures \in Nat /\ MaxRestarts \in Nat

VARIABLES
  active,          \* <<caller, callee>> -> id of the call's row, 0 if absent
  memberIndex,     \* phone -> its conference, or NoConf
  confState,       \* conference -> fresh | active (in the map) | ended
  confHost,        \* conference -> host
  confMembers,     \* conference -> members, the host included
  rows,            \* the calls table: id -> row
  nextId,          \* the id of the next row
  confRow,         \* the conferences table: absent | active | ended
  memberRows,      \* conference_members rows whose left_at is NULL
  thread,          \* what each goroutine is doing
  failures,        \* database failures so far
  restarts         \* restarts so far

memory   == <<active, memberIndex, confState, confHost, confMembers>>
database == <<rows, nextId, confRow, memberRows>>
bounds   == <<failures, restarts>>
vars     == <<memory, database, thread, bounds>>

CallIds == 1 .. MaxCalls
NoPhone == 0
Pairs   == Phones \X Phones

Row == [caller : Phones \cup {NoPhone}, callee : Phones \cup {NoPhone},
        status : {"none", "initiated", "connected", "ended"},
        merged : BOOLEAN,              \* end_reason = 'merged_to_conference'
        orig : ConfIds \cup {NoConf}]  \* originating_conference_id
NoRow == [caller |-> NoPhone, callee |-> NoPhone, status |-> "none",
          merged |-> FALSE, orig |-> NoConf]

Dialling == {"busyTo", "busyFrom", "busyFromCalls", "addHost", "addHostCalls", "insert"}
PCs == {"idle", "busyTo", "busyFrom", "busyFromCalls", "addHost", "addHostCalls", "insert",
        "publish", "answer", "endLock", "endRow", "clearLock", "clearRows",
        "mergeAdded", "heldFree", "addedFree", "callId", "heldId", "addedId",
        "create", "createTx", "rollback", "purge",
        "endConf", "endConfTx", "drop", "dropTx", "register"}

(***************************************************************************)
(* A thread: where it is, and the local variables it carries across locks. *)
(* clear says that ClearByNumber follows the end of the conference.        *)
(***************************************************************************)
Job == [pc : PCs, num : Phones \cup {NoPhone}, peer : Phones \cup {NoPhone},
        conf : ConfIds \cup {NoConf}, id : 0 .. MaxCalls,
        peers : SUBSET Phones, ids : SUBSET CallIds, clear : BOOLEAN]
Idle == [pc |-> "idle", num |-> NoPhone, peer |-> NoPhone, conf |-> NoConf,
         id |-> 0, peers |-> {}, ids |-> {}, clear |-> FALSE]

-----------------------------------------------------------------------------
(* Queries of the tracker, each made under its lock.                       *)

InCall(a, b) == active[<<a, b>>] # 0 \/ active[<<b, a>>] # 0

CallIDForPair(a, b) ==
  IF active[<<a, b>>] # 0 THEN active[<<a, b>>] ELSE active[<<b, a>>]

AllPeersOf(n) == {p \in Phones : InCall(n, p)}

(* Caller of exactly one call, callee of none.                             *)
HostsOneCall(n) ==
  /\ \A p \in Phones : active[<<p, n>>] = 0
  /\ Cardinality({p \in Phones : active[<<n, p>>] # 0}) = 1

inCallOrConference(a, b) ==
  \/ InCall(a, b)
  \/ memberIndex[a] # NoConf /\ b \in confMembers[memberIndex[a]]

(* The rows an UPDATE of the calls table selects.                          *)
IsOpen(i)  == rows[i].status \in {"initiated", "connected"}
OpenRowsOf(n) == {i \in CallIds : IsOpen(i) /\ n \in {rows[i].caller, rows[i].callee}}
(* Mutant: only the row in which the one who hangs up is the caller.       *)
MutOpenRowsOneWay(a, b) ==
  {i \in CallIds : IsOpen(i) /\ rows[i].caller = a /\ rows[i].callee = b}
OpenRowsOfPair(a, b) ==
  {i \in CallIds : IsOpen(i) /\ <<rows[i].caller, rows[i].callee>> \in {<<a, b>>, <<b, a>>}}
RingingRows(a, b) ==
  {i \in CallIds : rows[i].status = "initiated" /\ rows[i].caller = a /\ rows[i].callee = b}

(* ORDER BY started_at DESC LIMIT 1: rows are numbered in insertion order. *)
Newest(S) == {i \in S : \A j \in S : j <= i}

sortedPair(a, b) == IF b < a THEN <<b, a>> ELSE <<a, b>>

-----------------------------------------------------------------------------
(* Small steps the operations are made of.                                 *)

Idles(t)   == thread[t].pc = "idle"
At(t, pc)  == thread[t].pc = pc
Goto(t, job) == thread' = [thread EXCEPT ![t] = job]
Become(t, pc) == Goto(t, [thread[t] EXCEPT !.pc = pc])

(* Threads that may still insert a row: the table's bound counts them.     *)
Inserting == {u \in Threads : thread[u].pc \in Dialling \cup {"drop", "dropTx"}}
RoomForRow == nextId + Cardinality(Inserting) <= MaxCalls

(* A check under one lock: on to pc if it holds, to job if it does not.    *)
Check(t, ok, pc, job) ==
  /\ IF ok THEN Become(t, pc) ELSE Goto(t, job)
  /\ UNCHANGED <<memory, database, bounds>>

EndRows(S) ==
  rows' = [i \in CallIds |-> IF i \in S THEN [rows[i] EXCEPT !.status = "ended"] ELSE rows[i]]

InsertRow(pair, status, orig) ==
  /\ nextId <= MaxCalls
  /\ rows' = [rows EXCEPT ![nextId] = [caller |-> pair[1], callee |-> pair[2],
                                       status |-> status, merged |-> FALSE,
                                       orig |-> orig]]
  /\ nextId' = nextId + 1

RemoveActive(S) ==
  active' = [k \in Pairs |-> IF k \in S THEN 0 ELSE active[k]]

PairsTouching(S) == {k \in Pairs : k[1] \in S \/ k[2] \in S}

(* A database step that fails, after which the thread is at job.           *)
DbFails(t, job) ==
  /\ failures < MaxFailures
  /\ failures' = failures + 1
  /\ Goto(t, job)
  /\ UNCHANGED <<memory, database, restarts>>

(* Mutant: the index forgets the host only.                                *)
MutRemoveHostOnly(c) ==
  /\ confState' = [confState EXCEPT ![c] = "ended"]
  /\ memberIndex' = [p \in Phones |-> IF p = confHost[c] THEN NoConf ELSE memberIndex[p]]
  /\ UNCHANGED <<active, confHost, confMembers>>

(* EndConference and DropMember: out of the map and out of the index.      *)
RemoveConference(c) ==
  /\ confState' = [confState EXCEPT ![c] = "ended"]
  /\ memberIndex' = [p \in Phones |-> IF p \in confMembers[c] THEN NoConf ELSE memberIndex[p]]
  /\ UNCHANGED <<active, confHost, confMembers>>

-----------------------------------------------------------------------------
(* handleCall and OnCallInitiated.  Busy and CanAddAsHost look at the      *)
(* conferences under one lock and then at the calls under another; the     *)
(* INSERT and the entry in the active map follow.  A failed INSERT leaves  *)
(* the call untracked.                                                     *)

CallStart(t, from, to) ==
  /\ Idles(t) /\ from # to
  /\ RoomForRow
  /\ memberIndex[to] = NoConf
  /\ Goto(t, [Idle EXCEPT !.pc = "busyTo", !.num = from, !.peer = to])
  /\ UNCHANGED <<memory, database, bounds>>

(* The callee must be idle.                                                *)
BusyTo(t) ==
  /\ At(t, "busyTo")
  /\ Check(t, AllPeersOf(thread[t].peer) = {}, "busyFrom", Idle)

(* So must the caller, or it adds a third party.                           *)
BusyFrom(t) ==
  LET n == thread[t].num
      busy == [thread[t] EXCEPT !.pc = "addHost"]
  IN  \/ At(t, "busyFrom") /\ Check(t, memberIndex[n] = NoConf, "busyFromCalls", busy)
      \/ At(t, "busyFromCalls") /\ Check(t, AllPeersOf(n) = {}, "insert", busy)

CanAddAsHost(t) ==
  LET n == thread[t].num
  IN  \/ At(t, "addHost") /\ Check(t, memberIndex[n] = NoConf, "addHostCalls", Idle)
      \/ At(t, "addHostCalls") /\ Check(t, HostsOneCall(n), "insert", Idle)

OnCallInitiatedInsert(t) ==
  /\ At(t, "insert")
  /\ InsertRow(<<thread[t].num, thread[t].peer>>, "initiated", NoConf)
  /\ Goto(t, [thread[t] EXCEPT !.pc = "publish", !.id = nextId])
  /\ UNCHANGED <<memory, confRow, memberRows, bounds>>

OnCallInitiatedPublish(t) ==
  /\ At(t, "publish")
  /\ active' = [active EXCEPT ![<<thread[t].num, thread[t].peer>>] = thread[t].id]
  /\ Goto(t, Idle)
  /\ UNCHANGED <<memberIndex, confState, confHost, confMembers, database, bounds>>

-----------------------------------------------------------------------------
(* handleAnswer and OnCallAnswered: from answers the call of caller.       *)

AnswerStart(t, from, caller) ==
  /\ Idles(t) /\ from # caller
  /\ inCallOrConference(from, caller)
  /\ Goto(t, [Idle EXCEPT !.pc = "answer", !.num = caller, !.peer = from])
  /\ UNCHANGED <<memory, database, bounds>>

OnCallAnswered(t) ==
  /\ At(t, "answer")
  /\ LET S == Newest(RingingRows(thread[t].num, thread[t].peer))
     IN  rows' = [i \in CallIds |-> IF i \in S THEN [rows[i] EXCEPT !.status = "connected"]
                                               ELSE rows[i]]
  /\ Goto(t, Idle)
  /\ UNCHANGED <<memory, nextId, confRow, memberRows, bounds>>

-----------------------------------------------------------------------------
(* handleHangup.  In a conference the host ends it and a member drops out; *)
(* otherwise every call of the phone is ended, one peer after another.     *)
(* The expiry of a grace window takes the last branch too.                 *)

HangupStart(t, n) ==
  /\ Idles(t)
  /\ LET c == memberIndex[n]
     IN  \/ /\ c # NoConf /\ confHost[c] = n
            /\ Goto(t, [Idle EXCEPT !.pc = "endConf", !.num = n, !.conf = c])
         \/ /\ c # NoConf /\ confHost[c] # n
            /\ RoomForRow
            /\ Goto(t, [Idle EXCEPT !.pc = "drop", !.num = n, !.conf = c])
         \/ /\ c = NoConf /\ AllPeersOf(n) # {}
            /\ Goto(t, [Idle EXCEPT !.pc = "endLock", !.num = n, !.peers = AllPeersOf(n)])
  /\ UNCHANGED <<memory, database, bounds>>

(* The rest of a hangup after one peer: the next peer, or done.            *)
NextPeer(t) ==
  IF thread[t].peers = {} THEN Idle ELSE [thread[t] EXCEPT !.pc = "endLock", !.peer = NoPhone]

(* OnCallEndedWithReason under the lock: both directions leave the map.    *)
OnCallEndedLock(t, peer) ==
  /\ At(t, "endLock") /\ peer \in thread[t].peers
  /\ RemoveActive({<<thread[t].num, peer>>, <<peer, thread[t].num>>})
  /\ Goto(t, [thread[t] EXCEPT !.pc = "endRow", !.peer = peer, !.peers = @ \ {peer}])
  /\ UNCHANGED <<memberIndex, confState, confHost, confMembers, database, bounds>>

(* OnCallEndedWithReason's UPDATE: the newest open row of the pair.        *)
OnCallEndedRow(t) ==
  /\ At(t, "endRow")
  /\ EndRows(Newest(OpenRowsOfPair(thread[t].num, thread[t].peer)))
  /\ Goto(t, NextPeer(t))
  /\ UNCHANGED <<memory, nextId, confRow, memberRows, bounds>>

-----------------------------------------------------------------------------
(* OnDisconnect of the last device of a line: its conference is ended and  *)
(* the number cleared; a line in no call is only cleared.  A line in a     *)
(* call is held by a grace timer, whose expiry is HangupStart's branch.    *)

DisconnectStart(t, n) ==
  /\ Idles(t)
  /\ LET c == memberIndex[n]
     IN  \/ /\ c # NoConf
            /\ Goto(t, [Idle EXCEPT !.pc = "endConf", !.num = n, !.conf = c, !.clear = TRUE])
         \/ /\ c = NoConf /\ AllPeersOf(n) = {}
            /\ Goto(t, [Idle EXCEPT !.pc = "clearLock", !.num = n])
  /\ UNCHANGED <<memory, database, bounds>>

ClearByNumberLock(t) ==
  /\ At(t, "clearLock")
  /\ RemoveActive(PairsTouching({thread[t].num}))
  /\ Become(t, "clearRows")
  /\ UNCHANGED <<memberIndex, confState, confHost, confMembers, database, bounds>>

ClearByNumberRows(t) ==
  /\ At(t, "clearRows")
  /\ EndRows(OpenRowsOf(thread[t].num))
  /\ Goto(t, Idle)
  /\ UNCHANGED <<memory, nextId, confRow, memberRows, bounds>>

-----------------------------------------------------------------------------
(* handleConferenceMerge and CreateConferencePersistent.                   *)

(* The handler's checks, one lock after the other.  A merge carries the    *)
(* held party in peer.                                                     *)
MergeStart(t, host, held, added) ==
  /\ Idles(t) /\ Cardinality({host, held, added}) = 3
  /\ InCall(host, held)
  /\ Goto(t, [Idle EXCEPT !.pc = "mergeAdded", !.num = host, !.peer = held,
                          !.peers = {held, added}])
  /\ UNCHANGED <<memory, database, bounds>>

Added(t) == CHOOSE p \in thread[t].peers : p # thread[t].peer

MergeChecks(t) ==
  LET held == thread[t].peer
  IN  \/ At(t, "mergeAdded") /\ Check(t, InCall(thread[t].num, Added(t)), "heldFree", Idle)
      \/ At(t, "heldFree")   /\ Check(t, memberIndex[held] = NoConf, "addedFree", Idle)
      \/ At(t, "addedFree")  /\ Check(t, memberIndex[Added(t)] = NoConf, "callId", Idle)

(* The originating call, then the call of each of the two, looked up one   *)
(* by one: rejected if one has gone meanwhile.                             *)
ReadCallId(t, p, pc) ==
  /\ LET id == CallIDForPair(thread[t].num, p)
     IN  Goto(t, IF id = 0 THEN Idle
                 ELSE [thread[t] EXCEPT !.pc = pc, !.ids = @ \cup {id}])
  /\ UNCHANGED <<memory, database, bounds>>

MergeCallIds(t) ==
  \/ At(t, "callId")  /\ ReadCallId(t, thread[t].peer, "heldId")
  \/ At(t, "heldId")  /\ ReadCallId(t, thread[t].peer, "addedId")
  \/ At(t, "addedId") /\ ReadCallId(t, Added(t), "create")

(* CreateConference: refused if one of the three is indexed by now.        *)
CreateConference(t) ==
  /\ At(t, "create")
  /\ LET all == {thread[t].num} \cup thread[t].peers
     IN  \/ /\ \E p \in all : memberIndex[p] # NoConf
            /\ Goto(t, Idle)
            /\ UNCHANGED memory
         \/ /\ \A p \in all : memberIndex[p] = NoConf
            /\ \E c \in ConfIds :
                 /\ confState[c] = "fresh"
                 /\ confState' = [confState EXCEPT ![c] = "active"]
                 /\ confHost' = [confHost EXCEPT ![c] = thread[t].num]
                 /\ confMembers' = [confMembers EXCEPT ![c] = all]
                 /\ memberIndex' = [p \in Phones |-> IF p \in all THEN c ELSE memberIndex[p]]
                 /\ Goto(t, [thread[t] EXCEPT !.pc = "createTx", !.conf = c])
            /\ UNCHANGED active
  /\ UNCHANGED <<database, bounds>>

(* One transaction: the conference, its members, the merged calls' rows.   *)
CreateConferenceTx(t) ==
  /\ At(t, "createTx")
  /\ LET c == thread[t].conf
     IN  /\ confRow' = [confRow EXCEPT ![c] = "active"]
         /\ memberRows' = [memberRows EXCEPT ![c] = confMembers[c]]
  /\ rows' = [i \in CallIds |-> IF i \in thread[t].ids
                                THEN [rows[i] EXCEPT !.status = "ended", !.merged = TRUE]
                                ELSE rows[i]]
  /\ Become(t, "purge")
  /\ UNCHANGED <<memory, nextId, bounds>>

(* Mutant: the purge looks at one side of the key only.                    *)
MutPurgeOneSide(t) ==
  /\ At(t, "purge")
  /\ RemoveActive({k \in Pairs : k[1] \in confMembers[thread[t].conf] \ {thread[t].num}})
  /\ Goto(t, Idle)
  /\ UNCHANGED <<memberIndex, confState, confHost, confMembers, database, bounds>>

(* The members leave the two-party map.                                    *)
CreateConferencePurge(t) ==
  /\ At(t, "purge")
  /\ RemoveActive(PairsTouching(confMembers[thread[t].conf]))
  /\ Goto(t, Idle)
  /\ UNCHANGED <<memberIndex, confState, confHost, confMembers, database, bounds>>

(* The transaction failed: EndConference takes the conference back.        *)
CreateConferenceRollback(t) ==
  /\ At(t, "rollback")
  /\ IF confState[thread[t].conf] = "active"
       THEN RemoveConference(thread[t].conf)
       ELSE UNCHANGED memory
  /\ Goto(t, Idle)
  /\ UNCHANGED <<database, bounds>>

-----------------------------------------------------------------------------
(* EndConferencePersistent.                                                *)

AfterConference(t) ==
  IF thread[t].clear THEN [Idle EXCEPT !.pc = "clearLock", !.num = thread[t].num] ELSE Idle

EndConference(t) ==
  /\ At(t, "endConf")
  /\ IF confState[thread[t].conf] = "active"
       THEN RemoveConference(thread[t].conf) /\ Become(t, "endConfTx")
       ELSE Goto(t, AfterConference(t)) /\ UNCHANGED memory
  /\ UNCHANGED <<database, bounds>>

(* An UPDATE: a conference whose row is not there yet stays without one.   *)
EndConferenceTx(t) ==
  /\ At(t, "endConfTx")
  /\ LET c == thread[t].conf
     IN  /\ confRow' = [confRow EXCEPT ![c] = IF @ = "active" THEN "ended" ELSE @]
         /\ memberRows' = [memberRows EXCEPT ![c] = {}]
  /\ Goto(t, AfterConference(t))
  /\ UNCHANGED <<memory, rows, nextId, bounds>>

-----------------------------------------------------------------------------
(* DropMemberPersistent: any drop ends the conference, and the two that    *)
(* remain get a continuation call.                                         *)

(* The kick from the web page, for any member but the host.  The page goes *)
(* by the conference's row, which may be stale.                            *)
KickStart(t, c, phone) ==
  /\ Idles(t)
  /\ confRow[c] = "active" /\ phone \in confMembers[c] \ {confHost[c]}
  /\ RoomForRow
  /\ Goto(t, [Idle EXCEPT !.pc = "drop", !.num = phone, !.conf = c])
  /\ UNCHANGED <<memory, database, bounds>>

(* Mutant: the conference is not looked up again under the lock.           *)
MutDropUnchecked(t) ==
  /\ At(t, "drop")
  /\ RemoveConference(thread[t].conf) /\ Become(t, "dropTx")
  /\ UNCHANGED <<database, bounds>>

DropMember(t) ==
  /\ At(t, "drop")
  /\ IF confState[thread[t].conf] = "active"
       THEN RemoveConference(thread[t].conf) /\ Become(t, "dropTx")
       ELSE Goto(t, Idle) /\ UNCHANGED memory
  /\ UNCHANGED <<database, bounds>>

Remaining(t) == confMembers[thread[t].conf] \ {thread[t].num}

ContinuationPair(t) ==
  LET a == CHOOSE p \in Remaining(t) : \A q \in Remaining(t) : p <= q
      b == CHOOSE p \in Remaining(t) : p # a
  IN  sortedPair(a, b)

(* The continuation's row refers to the conference's row, which must exist *)
(* (a foreign key): if the merge has not committed yet, the transaction    *)
(* fails and the pair gets no call.                                        *)
DropMemberTx(t) ==
  /\ At(t, "dropTx")
  /\ LET c == thread[t].conf
     IN  \/ /\ confRow[c] # "absent"
            /\ confRow' = [confRow EXCEPT ![c] = "ended"]
            /\ memberRows' = [memberRows EXCEPT ![c] = {}]
            /\ InsertRow(ContinuationPair(t), "connected", c)
            /\ Goto(t, [thread[t] EXCEPT !.pc = "register", !.id = nextId])
         \/ /\ confRow[c] = "absent"
            /\ Goto(t, Idle)
            /\ UNCHANGED database
  /\ UNCHANGED <<memory, bounds>>

DropMemberRegister(t) ==
  /\ At(t, "register")
  /\ active' = [active EXCEPT ![ContinuationPair(t)] = thread[t].id]
  /\ Goto(t, Idle)
  /\ UNCHANGED <<memberIndex, confState, confHost, confMembers, database, bounds>>

-----------------------------------------------------------------------------
(* Failure and restart.                                                    *)

(* A failed statement: a call stays untracked, an answer or an end is only *)
(* logged, a merge is rolled back, a drop leaves the pair without a call.  *)
DbFailure(t) ==
  \/ At(t, "insert")    /\ DbFails(t, Idle)
  \/ At(t, "answer")    /\ DbFails(t, Idle)
  \/ At(t, "endRow")    /\ DbFails(t, NextPeer(t))
  \/ At(t, "clearRows") /\ DbFails(t, Idle)
  \/ At(t, "createTx")  /\ DbFails(t, [thread[t] EXCEPT !.pc = "rollback"])
  \/ At(t, "endConfTx") /\ DbFails(t, AfterConference(t))
  \/ At(t, "dropTx")    /\ DbFails(t, Idle)

(* New: empty maps; the tables keep what the dead process left in them.    *)
Restart ==
  /\ restarts < MaxRestarts
  /\ restarts' = restarts + 1
  /\ active' = [k \in Pairs |-> 0]
  /\ memberIndex' = [p \in Phones |-> NoConf]
  /\ confState' = [c \in ConfIds |-> IF confState[c] = "active" THEN "ended" ELSE confState[c]]
  /\ thread' = [t \in Threads |-> Idle]
  /\ UNCHANGED <<confHost, confMembers, database, failures>>

Init ==
  /\ active = [k \in Pairs |-> 0]
  /\ memberIndex = [p \in Phones |-> NoConf]
  /\ confState = [c \in ConfIds |-> "fresh"]
  /\ confHost = [c \in ConfIds |-> NoPhone]
  /\ confMembers = [c \in ConfIds |-> {}]
  /\ rows = [i \in CallIds |-> NoRow]
  /\ nextId = 1
  /\ confRow = [c \in ConfIds |-> "absent"]
  /\ memberRows = [c \in ConfIds |-> {}]
  /\ thread = [t \in Threads |-> Idle]
  /\ failures = 0
  /\ restarts = 0

(* A message or a web request arrives at an idle goroutine.                *)
Request(t) ==
  \/ \E a \in Callers, b \in Phones : CallStart(t, a, b)
  \/ \E a, b \in Phones : AnswerStart(t, a, b)
  \/ \E n \in Phones : HangupStart(t, n)
  \/ \E n \in Phones : DisconnectStart(t, n)
  \/ \E h, x, y \in Phones : MergeStart(t, h, x, y)
  \/ \E c \in ConfIds, p \in Phones : KickStart(t, c, p)

(* A goroutine goes on with what it is doing.                              *)
Proceed(t) ==
  \/ BusyTo(t) \/ BusyFrom(t) \/ CanAddAsHost(t)
  \/ OnCallInitiatedInsert(t) \/ OnCallInitiatedPublish(t)
  \/ OnCallAnswered(t)
  \/ \E p \in Phones : OnCallEndedLock(t, p)
  \/ OnCallEndedRow(t)
  \/ ClearByNumberLock(t) \/ ClearByNumberRows(t)
  \/ MergeChecks(t) \/ MergeCallIds(t)
  \/ CreateConference(t) \/ CreateConferenceTx(t) \/ CreateConferencePurge(t)
  \/ CreateConferenceRollback(t)
  \/ EndConference(t) \/ EndConferenceTx(t)
  \/ DropMember(t) \/ DropMemberTx(t) \/ DropMemberRegister(t)

Next ==
  \/ \E t \in Threads : Request(t) \/ Proceed(t) \/ DbFailure(t)
  \/ Restart

Spec == Init /\ [][Next]_vars

-----------------------------------------------------------------------------
(* Properties.                                                             *)

(* Types: maps, tables and the local state of every goroutine in tracker.go*)
(* and conference.go; every status the statements write is one of the      *)
(* table's.                                                                *)
TypeOK ==
  /\ active \in [Pairs -> 0 .. MaxCalls]
  /\ memberIndex \in [Phones -> ConfIds \cup {NoConf}]
  /\ confState \in [ConfIds -> {"fresh", "active", "ended"}]
  /\ confHost \in [ConfIds -> Phones \cup {NoPhone}]
  /\ confMembers \in [ConfIds -> SUBSET Phones]
  /\ rows \in [CallIds -> Row]
  /\ nextId \in 1 .. (MaxCalls + 1)
  /\ confRow \in [ConfIds -> {"absent", "active", "ended"}]
  /\ memberRows \in [ConfIds -> SUBSET Phones]
  /\ thread \in [Threads -> Job]
  /\ failures \in 0 .. MaxFailures
  /\ restarts \in 0 .. MaxRestarts

(* The member index is exactly the membership of the conferences in the    *)
(* map: a phone is in at most one conference, no phone is left indexed by  *)
(* a conference that is gone (it would be busy for ever), and none is      *)
(* missing (it could be called), whatever operations overlap.              *)
ConferenceIndexSound ==
  \A p \in Phones, c \in ConfIds :
    memberIndex[p] = c <=> confState[c] = "active" /\ p \in confMembers[c]

(* An entry of the active map names the row inserted for that very caller  *)
(* and callee, and no two entries name one row: CallIDForPair never hands  *)
(* out the row of another pair, however calls, merges and drops overlap.   *)
ActiveNamesItsRow ==
  \A k \in Pairs : active[k] # 0 =>
    /\ rows[active[k]].status # "none"
    /\ rows[active[k]].caller = k[1] /\ rows[active[k]].callee = k[2]

(* The tracker's memory as a whole: its types, the member index and the    *)
(* active map.                                                             *)
MemorySound == TypeOK /\ ConferenceIndexSound /\ ActiveNamesItsRow

(* A conference leaves at most one continuation call, between two of its   *)
(* members: a hangup, a kick and a disconnect that race for the same       *)
(* conference cannot each drop from it.                                    *)
ContinuationOnce ==
  \A i, j \in CallIds :
    rows[i].orig # NoConf /\ rows[i].orig = rows[j].orig =>
      /\ i = j
      /\ {rows[i].caller, rows[i].callee} \subseteq confMembers[rows[i].orig]

(* A call whose row was excluded from the history as merged is no longer   *)
(* tracked as a two-party call once its merge has finished.                *)
MergedCallsRetired ==
  \A k \in Pairs : active[k] # 0 /\ rows[active[k]].merged =>
    \E t \in Threads : At(t, "purge") /\ active[k] \in thread[t].ids

AllIdle == \A t \in Threads : Idles(t)
Untroubled == failures = 0 /\ restarts = 0

(* Callee must be idle (handleCall): a phone has two calls only as the     *)
(* caller of both, never more, and none while it is in a conference.       *)
PartyLimit ==
  AllIdle =>
    \A n \in Phones :
      /\ \A p, q \in Phones : active[<<p, n>>] # 0 /\ InCall(n, q) => p = q
      /\ Cardinality(AllPeersOf(n)) <= 2
      /\ memberIndex[n] # NoConf => AllPeersOf(n) = {}

(* What is tracked is open in the database: an active call has an open     *)
(* row, an active conference an active row with exactly its members.       *)
TrackedIsOpen ==
  AllIdle =>
    /\ \A k \in Pairs : active[k] # 0 => IsOpen(active[k])
    /\ \A c \in ConfIds : confState[c] = "active" =>
         confRow[c] = "active" /\ memberRows[c] = confMembers[c]

(* What is open in the database is tracked, unless a statement failed or   *)
(* the server restarted: no row is left open by an operation that          *)
(* succeeded.                                                              *)
OpenIsTracked ==
  AllIdle /\ Untroubled =>
    \A i \in CallIds : IsOpen(i) => \E k \in Pairs : active[k] = i

(* CreateConferencePersistent writes the conference "atomically": a        *)
(* conference that memory has ended is not left active in the table.       *)
ConferenceAtomic ==
  AllIdle /\ Untroubled =>
    \A c \in ConfIds : confRow[c] = "active" => confState[c] = "active"

(* Memory and tables tell the same story between operations.               *)
TablesAgree == TrackedIsOpen /\ OpenIsTracked /\ ConferenceAtomic
=============================================================================
