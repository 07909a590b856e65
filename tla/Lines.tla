------------------------------- MODULE Lines -------------------------------
(***************************************************************************)
(* Lines, devices and the numbers they answer to.  The tables lines and    *)
(* devices, the hub's registry, the configuration each handset keeps on    *)
(* disk and the messages queued for it are separate copies of one fact,    *)
(* who answers which number; pairing, renumbering, moving and deleting     *)
(* change them one statement at a time while handsets register and calls   *)
(* are set up.                                                             *)
(***************************************************************************)
EXTENDS Naturals, Sequences, FiniteSets

CONSTANTS
  Devices,      \* handsets, named by their hardware id
  Lines,        \* ids of the rows of the table lines
  Numbers,      \* seven-digit numbers
  Homes,        \* households
  Tasks,        \* requests and registrations the server handles at once
  FirstLine,    \* the line each handset is on if it was paired earlier
  FirstNumber,  \* the number such a line was given
  FirstHome,    \* the household it was set up in
  FirstPaired,  \* which handsets may have been paired earlier: sets of them
  MaxRequests,  \* bound: requests, resets and calls
  MaxFaults,    \* bound: failing statements, lost connections and messages
  Null

ConstantsOK ==
  /\ FirstLine \in [Devices -> Lines] /\ FirstHome \in Homes
  /\ FirstNumber \in [Lines -> Numbers]
  /\ \A k, l \in Lines : FirstNumber[k] = FirstNumber[l] => k = l
  /\ FirstPaired \subseteq SUBSET Devices
  /\ Null \notin Lines \cup Numbers /\ Null \notin [number : Numbers, home : Homes]
  /\ "unpaired" \notin Numbers \cup {Null}
  /\ MaxRequests \in Nat /\ MaxFaults \in Nat
ASSUME LinesAssumption == ConstantsOK

VARIABLES
  line,      \* table lines: id -> Null or [number, home]
  dev,       \* table devices: hardware id -> Null or [line, paired, token, code]
  conn,      \* the hub: hardware id -> Null, "unpaired" or the number registered
  outbox,    \* messages queued on that connection
  cfg,       \* the handset's own configuration: [number, token]
  active,    \* the tracker's active calls, <<caller, callee>>
  rows,      \* open rows of the table calls
  task,      \* where each request stands
  minted,    \* device tokens handed out
  unused,    \* ids no line has had
  spent,     \* requests so far
  faults,    \* faults so far
  lost,      \* history: handsets whose token or reset message was lost or overtaken
  overlapped,\* history: handsets whose registration met a change under way, or whose
             \* change was given back while another was under way
  slipped    \* history: a call came after the busy check of a rename, or would not revert

linesVars == <<line, dev, conn, outbox, cfg, active, rows, task, minted, unused, spent,
               faults, lost, overlapped, slipped>>
ids == <<minted, unused>>
history == <<lost, overlapped, slipped>>

Idle == [pc |-> "idle"]
NoToken == 0
Messages == [type : {"paired"}, token : Nat, number : Numbers]
              \cup [type : {"renumber"}, number : Numbers] \cup [type : {"close"}]

NumberTaken(n) == \E l \in Lines : line[l] # Null /\ line[l].number = n

\* BoundLineNumber: the number of the line a paired device belongs to.
BoundLineNumber(d) ==
  IF dev[d] = Null THEN Null
  ELSE IF ~dev[d].paired \/ dev[d].line = Null THEN Null
  ELSE IF line[dev[d].line] = Null THEN Null ELSE line[dev[d].line].number

\* AuthStatus: whether the row is paired, and whether the handset's token is its.
Paired(d) == dev[d] # Null /\ dev[d].paired
TokenValid(d) == Paired(d) /\ cfg[d].token # NoToken /\ cfg[d].token = dev[d].token

ListByLine(l) == {d \in Devices : dev[d] # Null /\ dev[d].line = l}
Busy(n) == \E c \in active : n \in {c[1], c[2]}

\* Tasks that have changed, or are about to change, who answers a number.
Changing(t) == task[t].pc \in {"number_update", "number_recheck", "number_rename",
  "number_close", "delete_row", "delete_close", "move_row", "move_recheck",
  "move_close", "move_list", "move_delete"}

Spend == spent < MaxRequests /\ spent' = spent + 1
Fault == faults < MaxFaults /\ faults' = faults + 1
Goto(t, r) == task' = [task EXCEPT ![t] = r]
Done(t) == Goto(t, Idle)

\* What is queued for a handset dies with its connection.
Undelivered(q) == \E i \in DOMAIN q : q[i].type = "paired"
Disconnect(d) ==
  /\ conn' = [conn EXCEPT ![d] = Null]
  /\ outbox' = [outbox EXCEPT ![d] = <<>>]

\* Hub.CloseLine and Hub.CloseHardware: a farewell, then the close sentinel.
CloseConnsOf(D, farewell) ==
  outbox' = [d \in Devices |-> IF d \in D THEN outbox[d] \o farewell \o <<[type |-> "close"]>>
                                          ELSE outbox[d]]

\* DELETE FROM lines, and ON DELETE CASCADE with it.
DeleteLine(l) ==
  /\ line' = [line EXCEPT ![l] = Null]
  /\ dev' = [d \in Devices |-> IF d \in ListByLine(l) THEN Null ELSE dev[d]]

LinesInit ==
  /\ \E P \in FirstPaired :
       LET first(d) == FirstLine[d]
           existing == {first(d) : d \in P}
       IN /\ line = [l \in Lines |-> IF l \in existing
                      THEN [number |-> FirstNumber[l], home |-> FirstHome] ELSE Null]
          /\ dev = [d \in Devices |-> IF d \in P
                     THEN [line |-> first(d), paired |-> TRUE, token |-> 1, code |-> "none"]
                     ELSE Null]
          /\ cfg = [d \in Devices |-> IF d \in P
                     THEN [number |-> FirstNumber[first(d)], token |-> 1]
                     ELSE [number |-> Null, token |-> NoToken]]
          /\ unused = Lines \ existing
  /\ conn = [d \in Devices |-> Null]
  /\ outbox = [d \in Devices |-> <<>>]
  /\ active = {} /\ rows = {}
  /\ task = [t \in Tasks |-> Idle]
  /\ minted = 1 /\ spent = 0 /\ faults = 0
  /\ lost = {} /\ overlapped = {} /\ slipped = FALSE

-----------------------------------------------------------------------------
(* Pairing                                                                 *)

\* The transaction of a claim: the code is fresh and its device unpaired.
Claimable(d) == dev[d] # Null /\ ~dev[d].paired /\ dev[d].code = "fresh"
Bind(d, l) ==
  /\ dev' = [dev EXCEPT ![d] = [line |-> l, paired |-> TRUE, token |-> minted + 1, code |-> "none"]]
  /\ minted' = minted + 1

\* The id of a new line is one no line has had.
ClaimDevice(t, d, l, n, home) ==
  /\ task[t] = Idle /\ Spend
  /\ Claimable(d) /\ l \in unused /\ ~NumberTaken(n)
  /\ unused' = unused \ {l}
  /\ line' = [line EXCEPT ![l] = [number |-> n, home |-> home]]
  /\ Bind(d, l)
  /\ Goto(t, [pc |-> "pair_notify", dev |-> d, token |-> minted + 1, new |-> n])
  /\ UNCHANGED <<conn, outbox, cfg, active, rows, faults, history>>

ClaimDeviceToLine(t, d, l, home) ==
  /\ task[t] = Idle /\ Spend
  /\ Claimable(d) /\ line[l] # Null /\ line[l].home = home
  /\ Bind(d, l)
  /\ Goto(t, [pc |-> "pair_number", dev |-> d, token |-> minted + 1, line |-> l])
  /\ UNCHANGED <<line, unused, conn, outbox, cfg, active, rows, faults, history>>

\* The number of the line is read after the claim; the line may be gone.
PairNumber(t) ==
  /\ task[t].pc = "pair_number"
  /\ IF line[task[t].line] = Null
       THEN Done(t) /\ lost' = lost \cup {task[t].dev}
       ELSE /\ Goto(t, [pc |-> "pair_notify", dev |-> task[t].dev, token |-> task[t].token,
                        new |-> line[task[t].line].number])
            /\ UNCHANGED lost
  /\ UNCHANGED <<line, dev, conn, outbox, cfg, active, rows, ids, spent, faults,
                 overlapped, slipped>>

\* SendToHardware: a handset that is not connected never hears of its token, and
\* a late message overwrites the token of a newer claim.
PairNotify(t) ==
  /\ task[t].pc = "pair_notify"
  /\ LET d == task[t].dev
         superseded == Paired(d) /\ dev[d].token # task[t].token
     IN /\ outbox' = IF conn[d] = Null THEN outbox
                     ELSE [outbox EXCEPT ![d] = Append(@,
                       [type |-> "paired", token |-> task[t].token, number |-> task[t].new])]
        /\ lost' = IF conn[d] = Null \/ superseded THEN lost \cup {d} ELSE lost
  /\ Done(t)
  /\ UNCHANGED <<line, dev, conn, cfg, active, rows, ids, spent, faults, overlapped, slipped>>

CodeExpires(d) ==
  /\ dev[d] # Null /\ dev[d].code = "fresh"
  /\ dev' = [dev EXCEPT ![d].code = "expired"]
  /\ UNCHANGED <<line, conn, outbox, cfg, active, rows, task, ids, spent, faults, history>>

CleanupExpired ==
  /\ \E d \in Devices : dev[d] # Null /\ dev[d].code = "expired" /\ ~dev[d].paired
  /\ dev' = [d \in Devices |-> IF dev[d] = Null THEN Null
                               ELSE IF dev[d].code = "expired" /\ ~dev[d].paired
                                 THEN [dev[d] EXCEPT !.code = "none"] ELSE dev[d]]
  /\ UNCHANGED <<line, conn, outbox, cfg, active, rows, task, ids, spent, faults, history>>

-----------------------------------------------------------------------------
(* Registration of a handset (handleWS)                                    *)

\* AuthStatus.  A paired row and a wrong or missing token is refused.
RegisterAuth(t, d) ==
  /\ task[t] = Idle /\ conn[d] = Null
  /\ \A u \in Tasks : task[u].pc \in {"register_code", "register_bound", "register_hub"}
                        => task[u].dev # d
  /\ \/ ~Paired(d) /\ Goto(t, [pc |-> "register_code", dev |-> d])
     \/ TokenValid(d) /\ Goto(t, [pc |-> "register_bound", dev |-> d])
  /\ UNCHANGED <<line, dev, conn, outbox, cfg, active, rows, ids, spent, faults, history>>

\* GenerateCode leaves a row that has been paired meanwhile alone; the handset
\* is registered as unpaired all the same.
GenerateCode(t) ==
  /\ task[t].pc = "register_code"
  /\ LET d == task[t].dev IN
       /\ dev' = IF Paired(d) THEN dev
                 ELSE IF dev[d] = Null
                   THEN [dev EXCEPT ![d] = [line |-> Null, paired |-> FALSE,
                                            token |-> NoToken, code |-> "fresh"]]
                   ELSE [dev EXCEPT ![d].code = "fresh"]
       /\ Goto(t, [pc |-> "register_hub", dev |-> d, new |-> "unpaired"])
  /\ UNCHANGED <<line, conn, outbox, cfg, active, rows, ids, spent, faults, history>>

\* The bound number is authoritative; without one the handset is refused.
RegisterBound(t) ==
  /\ task[t].pc = "register_bound"
  /\ IF BoundLineNumber(task[t].dev) = Null
       THEN Done(t)
       ELSE Goto(t, [pc |-> "register_hub", dev |-> task[t].dev,
                     new |-> BoundLineNumber(task[t].dev)])
  /\ UNCHANGED <<line, dev, conn, outbox, cfg, active, rows, ids, spent, faults, history>>

RegisterHub(t) ==
  /\ task[t].pc = "register_hub"
  /\ LET d == task[t].dev
         n == task[t].new
     IN /\ conn' = [conn EXCEPT ![d] = n]
        /\ outbox' = [outbox EXCEPT ![d] = IF n # "unpaired" /\ n # cfg[d].number
                        THEN <<[type |-> "renumber", number |-> n]>> ELSE <<>>]
        /\ overlapped' = IF n # "unpaired" /\
                              (n # BoundLineNumber(d) \/ \E u \in Tasks : Changing(u))
                           THEN overlapped \cup {d} ELSE overlapped \ {d}
  /\ Done(t)
  /\ UNCHANGED <<line, dev, cfg, active, rows, ids, spent, faults, lost, slipped>>

-----------------------------------------------------------------------------
(* The handset (external to the server)                                    *)

\* TypePaired and TypeLineRenumber save the configuration and restart the
\* daemon; a renumber to the number it has is ignored; a close ends the socket.
Deliver(d) ==
  /\ conn[d] # Null /\ outbox[d] # <<>>
  /\ LET m == Head(outbox[d]) IN
       IF m.type = "renumber" /\ m.number = cfg[d].number
         THEN outbox' = [outbox EXCEPT ![d] = Tail(@)] /\ UNCHANGED <<conn, cfg, lost>>
         ELSE /\ cfg' = [cfg EXCEPT ![d] =
                   CASE m.type = "paired"   -> [number |-> m.number, token |-> m.token]
                     [] m.type = "renumber" -> [@ EXCEPT !.number = m.number]
                     [] OTHER               -> @]
              /\ Disconnect(d)
              /\ lost' = IF Undelivered(Tail(outbox[d])) THEN lost \cup {d}
                         ELSE IF m.type = "paired" /\ Paired(d) /\ m.token = dev[d].token
                           THEN lost \ {d} ELSE lost
  /\ UNCHANGED <<line, dev, active, rows, task, ids, spent, faults, overlapped, slipped>>

\* The connection breaks, or an unpaired handset drops it for a fresh code.
Drop(d) ==
  /\ conn[d] # Null
  /\ \/ conn[d] = "unpaired" /\ cfg[d].token = NoToken /\ dev[d] # Null
        /\ dev[d].code # "fresh" /\ UNCHANGED faults
     \/ Fault
  /\ Disconnect(d)
  /\ lost' = IF Undelivered(outbox[d]) THEN lost \cup {d} ELSE lost
  /\ UNCHANGED <<line, dev, cfg, active, rows, task, ids, spent, overlapped, slipped>>

\* TypeRepair before a reset: the row is unpaired, then the token is wiped and
\* the handset reboots.  Sent on a dead connection it is lost.
MutRepairKeepsPairing(d) ==
  /\ cfg[d].token # NoToken /\ Spend /\ conn[d] # Null
  /\ dev' = IF dev[d] = Null THEN dev ELSE [dev EXCEPT ![d].code = "none"]
  /\ cfg' = [cfg EXCEPT ![d].token = NoToken]
  /\ Disconnect(d)
  /\ UNCHANGED <<line, active, rows, task, ids, faults, history>>

Repair(d) ==
  /\ cfg[d].token # NoToken /\ Spend
  /\ \/ /\ conn[d] # Null /\ UNCHANGED faults
        /\ dev' = IF dev[d] = Null THEN dev
                  ELSE [dev EXCEPT ![d].paired = FALSE, ![d].token = NoToken]
        /\ lost' = lost \ {d}
     \/ Fault /\ UNCHANGED dev /\ lost' = lost \cup {d}
  /\ cfg' = [cfg EXCEPT ![d].token = NoToken]
  /\ Disconnect(d)
  /\ UNCHANGED <<line, active, rows, task, ids, overlapped, slipped>>

-----------------------------------------------------------------------------
(* Changing a number (handlePhoneNumberPost)                               *)

NumberCheck(t, l, n) ==
  /\ task[t] = Idle /\ Spend
  /\ line[l] # Null /\ line[l].number # n
  /\ ~Busy(line[l].number) /\ ~NumberTaken(n)
  /\ Goto(t, [pc |-> "number_update", line |-> l, old |-> line[l].number, new |-> n])
  /\ UNCHANGED <<line, dev, conn, outbox, cfg, active, rows, ids, faults, history>>

\* UPDATE lines: no row, or a number taken meanwhile, ends the request.
NumberUpdate(t) ==
  /\ task[t].pc = "number_update"
  /\ LET l == task[t].line IN
       IF line[l] = Null \/ NumberTaken(task[t].new)
         THEN Done(t) /\ UNCHANGED line
         ELSE /\ line' = [line EXCEPT ![l].number = task[t].new]
              /\ Goto(t, [task[t] EXCEPT !.pc = "number_recheck"])
  /\ UNCHANGED <<dev, conn, outbox, cfg, active, rows, ids, spent, faults, history>>

\* A call that started on the old number takes the number back, if it can.
\* The number may by now be the one another change of the line has yet to leave.
Renumbering(u, l) == task[u].pc \in {"number_update", "number_recheck"} /\ task[u].line = l

MutNoRecheck(t) ==
  /\ task[t].pc = "number_recheck"
  /\ Goto(t, [task[t] EXCEPT !.pc = "number_rename"])
  /\ UNCHANGED <<line, dev, conn, outbox, cfg, active, rows, ids, spent, faults, history>>

NumberRecheck(t) ==
  /\ task[t].pc = "number_recheck"
  /\ LET l == task[t].line
         back == line[l] # Null /\ ~NumberTaken(task[t].old)
         change == Goto(t, [task[t] EXCEPT !.pc = "number_rename"]) /\ UNCHANGED line
     IN \/ ~Busy(task[t].old) /\ change /\ UNCHANGED <<faults, slipped, overlapped>>
        \/ /\ Busy(task[t].old) /\ back
           /\ line' = [line EXCEPT ![l].number = task[t].old]
           /\ overlapped' = IF \E u \in Tasks \ {t} : Renumbering(u, l)
                              THEN overlapped \cup {d \in Devices : conn[d] = task[t].old}
                              ELSE overlapped
           /\ Done(t) /\ UNCHANGED <<faults, slipped>>
        \/ /\ Busy(task[t].old) /\ ~back /\ change
           /\ slipped' = TRUE /\ UNCHANGED <<faults, overlapped>>
        \/ /\ Busy(task[t].old) /\ Fault /\ change
           /\ slipped' = TRUE /\ UNCHANGED overlapped
  /\ UNCHANGED <<dev, conn, outbox, cfg, active, rows, ids, spent, lost>>

\* RenameNumber rewrites the rows in one transaction, which may fail; the
\* tracker's map keeps the numbers its calls started with.
RenameNumber(t) ==
  /\ task[t].pc = "number_rename"
  /\ LET ren(n) == IF n = task[t].old THEN task[t].new ELSE n IN
       \/ rows' = {<<ren(c[1]), ren(c[2])>> : c \in rows} /\ UNCHANGED faults
       \/ Fault /\ UNCHANGED rows
  /\ Goto(t, [task[t] EXCEPT !.pc = "number_close"])
  /\ UNCHANGED <<line, dev, conn, outbox, cfg, active, ids, spent, history>>

MutCloseNewNumber(t) ==
  /\ task[t].pc = "number_close"
  /\ CloseConnsOf({d \in Devices : conn[d] = task[t].new},
                  <<[type |-> "renumber", number |-> task[t].new]>>)
  /\ Done(t)
  /\ UNCHANGED <<line, dev, conn, cfg, active, rows, ids, spent, faults, history>>

NumberClose(t) ==
  /\ task[t].pc = "number_close"
  /\ CloseConnsOf({d \in Devices : conn[d] = task[t].old},
                  <<[type |-> "renumber", number |-> task[t].new]>>)
  /\ Done(t)
  /\ UNCHANGED <<line, dev, conn, cfg, active, rows, ids, spent, faults, history>>

-----------------------------------------------------------------------------
(* Deleting a line (handlePhoneDelete), moving a handset (handlePhoneConvert) *)

DeleteCheck(t, l) ==
  /\ task[t] = Idle /\ Spend
  /\ line[l] # Null /\ ~Busy(line[l].number)
  /\ Goto(t, [pc |-> "delete_row", line |-> l, old |-> line[l].number])
  /\ UNCHANGED <<line, dev, conn, outbox, cfg, active, rows, ids, faults, history>>

DeleteRow(t) ==
  /\ task[t].pc = "delete_row"
  /\ IF line[task[t].line] = Null
       THEN Done(t) /\ UNCHANGED <<line, dev>>
       ELSE DeleteLine(task[t].line) /\ Goto(t, [task[t] EXCEPT !.pc = "delete_close"])
  /\ UNCHANGED <<conn, outbox, cfg, active, rows, ids, spent, faults, history>>

DeleteClose(t) ==
  /\ task[t].pc = "delete_close"
  /\ CloseConnsOf({d \in Devices : conn[d] = task[t].old}, <<>>)
  /\ Done(t)
  /\ UNCHANGED <<line, dev, conn, cfg, active, rows, ids, spent, faults, history>>

\* The devices of a line are listed whether they are paired or not.
MoveCheck(t, d, to) ==
  /\ task[t] = Idle /\ Spend
  /\ dev[d] # Null /\ dev[d].line \notin {Null, to}
  /\ LET from == dev[d].line IN
       /\ line[from] # Null /\ ~Busy(line[from].number)
       /\ line[to] # Null /\ line[to].home = line[from].home
       /\ Goto(t, [pc |-> "move_row", dev |-> d, line |-> from, to |-> to,
                   old |-> line[from].number, new |-> line[to].number])
  /\ UNCHANGED <<line, dev, conn, outbox, cfg, active, rows, ids, faults, history>>

\* Reassign fails when the device or the target line is gone.
Reassign(d, l) == dev' = [dev EXCEPT ![d].line = l]
CanReassign(d, l) == dev[d] # Null /\ line[l] # Null

MoveRow(t) ==
  /\ task[t].pc = "move_row"
  /\ IF CanReassign(task[t].dev, task[t].to)
       THEN Reassign(task[t].dev, task[t].to) /\ Goto(t, [task[t] EXCEPT !.pc = "move_recheck"])
       ELSE Done(t) /\ UNCHANGED dev
  /\ UNCHANGED <<line, conn, outbox, cfg, active, rows, ids, spent, faults, history>>

Moving(u, d) == task[u].pc \in {"move_row", "move_recheck"} /\ task[u].dev = d

MoveRecheck(t) ==
  /\ task[t].pc = "move_recheck"
  /\ LET back == CanReassign(task[t].dev, task[t].line)
         move == Goto(t, [task[t] EXCEPT !.pc = "move_close"]) /\ UNCHANGED dev
     IN \/ ~Busy(task[t].old) /\ move /\ UNCHANGED <<faults, overlapped>>
        \/ /\ Busy(task[t].old) /\ back
           /\ Reassign(task[t].dev, task[t].line)
           /\ overlapped' = IF \E u \in Tasks \ {t} : Moving(u, task[t].dev)
                              THEN overlapped \cup {task[t].dev} ELSE overlapped
           /\ Done(t) /\ UNCHANGED faults
        \/ Busy(task[t].old) /\ ~back /\ move /\ UNCHANGED <<faults, overlapped>>
        \/ Busy(task[t].old) /\ Fault /\ move /\ UNCHANGED overlapped
  /\ UNCHANGED <<line, conn, outbox, cfg, active, rows, ids, spent, lost, slipped>>

MoveClose(t) ==
  /\ task[t].pc = "move_close"
  /\ CloseConnsOf({d \in {task[t].dev} : conn[d] # Null},
                  <<[type |-> "renumber", number |-> task[t].new]>>)
  /\ Goto(t, [task[t] EXCEPT !.pc = "move_list"])
  /\ UNCHANGED <<line, dev, conn, cfg, active, rows, ids, spent, faults, history>>

\* A line nobody is left on is deleted; a handset may join it in between.
MoveList(t) ==
  /\ task[t].pc = "move_list"
  /\ IF ListByLine(task[t].line) = {} /\ line[task[t].line] # Null
       THEN Goto(t, [task[t] EXCEPT !.pc = "move_delete"]) ELSE Done(t)
  /\ UNCHANGED <<line, dev, conn, outbox, cfg, active, rows, ids, spent, faults, history>>

MoveDelete(t) ==
  /\ task[t].pc = "move_delete"
  /\ DeleteLine(task[t].line)
  /\ Done(t)
  /\ UNCHANGED <<conn, outbox, cfg, active, rows, ids, spent, faults, history>>

-----------------------------------------------------------------------------
(* Calls, as far as numbers matter to them                                 *)

\* handleCall: authorization asks the lines, then the call is entered.
CallCheck(t, d, n) ==
  /\ task[t] = Idle /\ Spend
  /\ conn[d] \in Numbers \ {n}
  /\ NumberTaken(conn[d]) /\ NumberTaken(n)
  /\ \E e \in Devices : conn[e] = n
  /\ ~Busy(conn[d]) /\ ~Busy(n)
  /\ Goto(t, [pc |-> "call_enter", old |-> conn[d], new |-> n])
  /\ UNCHANGED <<line, dev, conn, outbox, cfg, active, rows, ids, faults, history>>

CallEnter(t) ==
  /\ task[t].pc = "call_enter"
  /\ active' = active \cup {<<task[t].old, task[t].new>>}
  /\ rows' = rows \cup {<<task[t].old, task[t].new>>}
  /\ slipped' = (slipped \/ \E u \in Tasks : /\ task[u].pc = "number_rename"
                                             /\ task[u].old \in {task[t].old, task[t].new})
  /\ Done(t)
  /\ UNCHANGED <<line, dev, conn, outbox, cfg, ids, spent, faults, lost, overlapped>>

\* A hangup or a disconnect ends the call under the numbers it started with.
CallEnds(c) ==
  /\ c \in active
  /\ active' = active \ {c}
  /\ rows' = rows \ {c}
  /\ UNCHANGED <<line, dev, conn, outbox, cfg, task, ids, spent, faults, history>>

-----------------------------------------------------------------------------
LinesNext ==
  \/ \E t \in Tasks :
       \/ \E d \in Devices, l \in Lines, home \in Homes :
            \/ \E n \in Numbers : ClaimDevice(t, d, l, n, home)
            \/ ClaimDeviceToLine(t, d, l, home)
       \/ \E d \in Devices, l \in Lines : MoveCheck(t, d, l)
       \/ \E l \in Lines, n \in Numbers : NumberCheck(t, l, n)
       \/ \E l \in Lines : DeleteCheck(t, l)
       \/ \E d \in Devices, n \in Numbers : CallCheck(t, d, n)
       \/ \E d \in Devices : RegisterAuth(t, d)
       \/ PairNumber(t) \/ PairNotify(t)
       \/ GenerateCode(t) \/ RegisterBound(t) \/ RegisterHub(t)
       \/ NumberUpdate(t) \/ NumberRecheck(t) \/ RenameNumber(t) \/ NumberClose(t)
       \/ DeleteRow(t) \/ DeleteClose(t)
       \/ MoveRow(t) \/ MoveRecheck(t) \/ MoveClose(t) \/ MoveList(t) \/ MoveDelete(t)
       \/ CallEnter(t)
  \/ \E d \in Devices : Deliver(d) \/ Drop(d) \/ Repair(d) \/ CodeExpires(d)
  \/ \E c \in active : CallEnds(c)
  \/ CleanupExpired

LinesSpec == LinesInit /\ [][LinesNext]_linesVars

-----------------------------------------------------------------------------
LinesTypeOK ==
  /\ line \in [Lines -> [number : Numbers, home : Homes] \cup {Null}]
  /\ dev \in [Devices -> [line : Lines \cup {Null}, paired : BOOLEAN, token : Nat,
                          code : {"none", "fresh", "expired"}] \cup {Null}]
  /\ cfg \in [Devices -> [number : Numbers \cup {Null}, token : Nat]]
  /\ conn \in [Devices -> Numbers \cup {Null, "unpaired"}]
  /\ outbox \in [Devices -> Seq(Messages)]
  /\ active \subseteq Numbers \X Numbers /\ rows \subseteq Numbers \X Numbers
  /\ minted \in Nat /\ unused \subseteq Lines /\ spent \in 0..MaxRequests /\ faults \in 0..MaxFaults
  /\ lost \subseteq Devices /\ overlapped \subseteq Devices /\ slipped \in BOOLEAN

Settled(d) == (\A t \in Tasks : task[t] = Idle) /\ outbox[d] = <<>>

\* Once no request is under way and nothing is queued for it, a paired handset
\* is registered under the number of the line it belongs to, however renumbering,
\* moving, deleting and pairing overlapped (handlePhoneNumberPost,
\* handlePhoneConvert, handlePhoneDelete, handleWS).  There are two exceptions.  A
\* handset that entered the hub while such a change was under way: the close has
\* passed it by, and it keeps answering the old number.  And a handset whose line
\* was given its number back (or that was moved back) because of a call while a
\* second change of the same line (move of the same handset) was under way: the
\* second one closes the number it read, under which nobody is registered.
RegisteredWhereBound ==
  \A d \in Devices :
    (Settled(d) /\ conn[d] \in Numbers /\ Paired(d))
      => conn[d] = BoundLineNumber(d) \/ d \in overlapped

\* A handset that is paired in the table holds the token stored there or is about
\* to receive it, so it can register again; the one way to be locked out is a
\* pairing or reset message that was lost or overtaken by a newer claim (handlePhonesPairPost, TypeRepair).
TokenReachesDevice ==
  \A d \in Devices :
    Paired(d) => \/ cfg[d].token = dev[d].token
                 \/ \E i \in DOMAIN outbox[d] : /\ outbox[d][i].type = "paired"
                                                /\ outbox[d][i].token = dev[d].token
                 \/ \E t \in Tasks : /\ task[t].pc \in {"pair_number", "pair_notify"}
                                     /\ task[t].dev = d
                 \/ d \in lost

\* An open row of the call history belongs to a call that is still active: the
\* rewriting of old numbers (RenameNumber) leaves no row behind that no hangup
\* can find, unless a call came between the second busy check and the rename, or
\* the number could not be given back.
RowsFollowRename == slipped \/ rows \subseteq active
=============================================================================
