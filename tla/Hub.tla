-------------------------------- MODULE Hub --------------------------------
(***************************************************************************)
(* The hub of the signaling server (server/internal/signaling/hub.go): the *)
(* registry of WebSocket connections by line number and by hardware id,    *)
(* and the send channel of each connection.                                *)
(*                                                                         *)
(* A connection has a read loop and a write pump (web/handler_ws.go).  The *)
(* hub puts frames on the connection's channel, always under its lock and  *)
(* never blocking; the pump takes them off without the lock.  Removing a   *)
(* connection closes its channel: in Go a send on a closed channel, or a   *)
(* second close, panics, and with it the server dies.  CloseLine and       *)
(* CloseHardware queue a farewell and then a sentinel, on which the pump   *)
(* closes the socket; a full channel is retried in the background.         *)
(*                                                                         *)
(* One server process: the Redis bridge is left out.                       *)
(***************************************************************************)
EXTENDS Naturals, Sequences

CONSTANTS
  Conns,          \* connections
  Hardware,       \* hardware ids
  HardwareOf,     \* the device behind each connection
  LineNumbers,    \* line numbers
  Cap,            \* capacity of a send channel (wsSendBuf)
  MaxCloses,      \* bound: closes of one connection under way at a time
  None            \* "no connection", "no number"

ASSUME HardwareOfAssumption == HardwareOf \in [Conns -> Hardware]
ASSUME CapAssumption == Cap \in Nat \ {0} /\ MaxCloses \in Nat
ASSUME NoneAssumption == None \notin Conns /\ None \notin LineNumbers

VARIABLES
  reader,      \* the read loop: new | reading | unwinding | locking | done
  registered,  \* the connections in the buckets h.conns
  number,      \* the number a connection was registered under
  hwConns,     \* hardware id -> its connection
  queue,       \* what is buffered in the send channel
  closed,      \* connections whose channel is closed
  pump,        \* the write pump: running | closing | stopped
  socket,      \* open | shut
  offering,    \* connection -> closes under way that owe it the sentinel
  retrying,    \* connections a retryClose goroutine works on
  draining,    \* the server is shutting down
  panicked,    \* a send on a closed channel, or a second close, happened
  doomed       \* history: connections that were told to close

hubVars == <<reader, registered, number, hwConns, queue, closed, pump, socket,
             offering, retrying, draining, panicked, doomed>>

Frames == {"data", "farewell", "sentinel"}

HasRoom(c) == Len(queue[c]) < Cap

(* A non-blocking send to each of S: a full channel drops the frame.       *)
Offer(S, frame) ==
  queue' = [c \in Conns |-> IF c \in S /\ HasRoom(c) THEN Append(queue[c], frame) ELSE queue[c]]
SendPanics(S) == S \cap closed # {}

OnLine(n)   == {c \in registered : number[c] = n}
OfDevice(h) == {c \in Conns : hwConns[h] = c}

(* h.mu is a sync.RWMutex.  A writer waits for the closes that are under   *)
(* way, which read; a reader waits for a read loop that waits to write.    *)
Offering == {c \in Conns : offering[c] > 0}
Lockable == Offering = {}
Readable == \A c \in Conns : reader[c] # "locking"

-----------------------------------------------------------------------------
(* Registration.                                                           *)

(* Register, and the read loop and write pump that follow it.  A device    *)
(* has one connection: the old one's socket is closed and it is removed.   *)
Register(c, n) ==
  /\ reader[c] = "new" /\ Lockable /\ ~ draining
  /\ LET h == HardwareOf[c]
         old == OfDevice(h) \cap registered
     IN  /\ registered' = (registered \ old) \cup {c}
         /\ closed' = closed \cup old
         /\ panicked' = (panicked \/ old \cap closed # {})
         /\ socket' = [d \in Conns |-> IF d \in OfDevice(h) THEN "shut" ELSE socket[d]]
         /\ hwConns' = [hwConns EXCEPT ![h] = c]
  /\ number' = [number EXCEPT ![c] = n]
  /\ reader' = [reader EXCEPT ![c] = "reading"]
  /\ pump' = [pump EXCEPT ![c] = "running"]
  /\ UNCHANGED <<queue, offering, retrying, draining, doomed>>

(* While draining, Register fails and the handler closes the socket.       *)
RegisterRefused(c) ==
  /\ reader[c] = "new" /\ draining
  /\ reader' = [reader EXCEPT ![c] = "done"]
  /\ socket' = [socket EXCEPT ![c] = "shut"]
  /\ UNCHANGED <<registered, number, hwConns, queue, closed, pump, offering, retrying,
                 draining, panicked, doomed>>

(* A read fails: the socket is shut, or the device or the network ended it.*)
ReadFails(c) ==
  /\ reader[c] = "reading"
  /\ reader' = [reader EXCEPT ![c] = "unwinding"]
  /\ UNCHANGED <<registered, number, hwConns, queue, closed, pump, socket, offering,
                 retrying, draining, panicked, doomed>>

(* The read loop returns and asks for the write lock to unregister.        *)
AskToUnregister(c) ==
  /\ reader[c] = "unwinding"
  /\ reader' = [reader EXCEPT ![c] = "locking"]
  /\ UNCHANGED <<registered, number, hwConns, queue, closed, pump, socket, offering,
                 retrying, draining, panicked, doomed>>

(* Mutant: the channel is closed although a newer connection took over.    *)
MutUnregisterCloses(c) ==
  /\ reader[c] = "locking" /\ Lockable
  /\ reader' = [reader EXCEPT ![c] = "done"]
  /\ registered' = registered \ {c}
  /\ closed' = closed \cup {c}
  /\ panicked' = (panicked \/ c \in closed)
  /\ hwConns' = [h \in Hardware |-> IF hwConns[h] = c THEN None ELSE hwConns[h]]
  /\ socket' = [socket EXCEPT ![c] = "shut"]
  /\ UNCHANGED <<number, queue, pump, offering, retrying, draining, doomed>>

(* Mutant: the device's entry goes, whichever connection it names.         *)
MutUnregisterDevice(c) ==
  /\ reader[c] = "locking" /\ Lockable
  /\ reader' = [reader EXCEPT ![c] = "done"]
  /\ registered' = registered \ {c}
  /\ closed' = IF c \in registered THEN closed \cup {c} ELSE closed
  /\ hwConns' = [hwConns EXCEPT ![HardwareOf[c]] = None]
  /\ socket' = [socket EXCEPT ![c] = "shut"]
  /\ UNCHANGED <<number, queue, pump, offering, retrying, draining, panicked, doomed>>

(* Unregister: removes this very connection, if it is still there, and the *)
(* handler returns, which closes the socket.                               *)
Unregister(c) ==
  /\ reader[c] = "locking" /\ Lockable
  /\ reader' = [reader EXCEPT ![c] = "done"]
  /\ registered' = registered \ {c}
  /\ closed' = IF c \in registered THEN closed \cup {c} ELSE closed
  /\ panicked' = (panicked \/ (c \in registered /\ c \in closed))
  /\ hwConns' = [h \in Hardware |->
                   IF c \in registered /\ hwConns[h] = c THEN None ELSE hwConns[h]]
  /\ socket' = [socket EXCEPT ![c] = "shut"]
  /\ UNCHANGED <<number, queue, pump, offering, retrying, draining, doomed>>

-----------------------------------------------------------------------------
(* Sending.                                                                *)

(* SendTo: every device on the line.                                       *)
SendTo(n) ==
  /\ Readable /\ OnLine(n) # {}
  /\ Offer(OnLine(n), "data")
  /\ panicked' = (panicked \/ SendPanics(OnLine(n)))
  /\ UNCHANGED <<reader, registered, number, hwConns, closed, pump, socket, offering,
                 retrying, draining, doomed>>

(* SendToHardware: the device's connection.                                *)
SendToHardware(h) ==
  /\ Readable /\ OfDevice(h) # {}
  /\ Offer(OfDevice(h), "data")
  /\ panicked' = (panicked \/ SendPanics(OfDevice(h)))
  /\ UNCHANGED <<reader, registered, number, hwConns, closed, pump, socket, offering,
                 retrying, draining, doomed>>

(* CloseLine and CloseHardware, the farewell: the pumps, other sends and   *)
(* other closes run on between it and the sentinel.                        *)
CloseConns(S) ==
  /\ Readable /\ S # {}
  /\ \A c \in S : offering[c] < MaxCloses
  /\ Offer(S, "farewell")
  /\ panicked' = (panicked \/ SendPanics(S))
  /\ offering' = [c \in Conns |-> IF c \in S THEN offering[c] + 1 ELSE offering[c]]
  /\ doomed' = doomed \cup S
  /\ UNCHANGED <<reader, registered, number, hwConns, closed, pump, socket, retrying, draining>>

CloseLine(n)     == CloseConns(OnLine(n))
CloseHardware(h) == CloseConns(OfDevice(h))

(* Mutant: a full channel drops the sentinel for good.                     *)
MutCloseNoRetry(c) ==
  /\ c \in Offering
  /\ offering' = [offering EXCEPT ![c] = @ - 1]
  /\ Offer({c}, "sentinel")
  /\ panicked' = (panicked \/ SendPanics({c}))
  /\ UNCHANGED <<reader, registered, number, hwConns, closed, pump, socket, retrying, draining, doomed>>

(* closeConn's sentinel; a full channel starts retryClose.                 *)
closeConn(c) ==
  /\ c \in Offering
  /\ offering' = [offering EXCEPT ![c] = @ - 1]
  /\ Offer({c}, "sentinel")
  /\ retrying' = IF HasRoom(c) THEN retrying ELSE retrying \cup {c}
  /\ panicked' = (panicked \/ SendPanics({c}))
  /\ UNCHANGED <<reader, registered, number, hwConns, closed, pump, socket, draining, doomed>>

(* offerClose, when it settles the matter: the connection is gone, or the  *)
(* sentinel fits.                                                          *)
offerClose(c) ==
  /\ c \in retrying /\ Readable
  /\ \/ /\ c \notin registered
        /\ UNCHANGED <<queue, panicked>>
     \/ /\ c \in registered /\ HasRoom(c)
        /\ Offer({c}, "sentinel")
        /\ panicked' = (panicked \/ SendPanics({c}))
  /\ retrying' = retrying \ {c}
  /\ UNCHANGED <<reader, registered, number, hwConns, closed, pump, socket, offering,
                 draining, doomed>>

(* closeRetryTimeout has passed: retryClose shuts the socket.              *)
RetryTimesOut(c) ==
  /\ c \in retrying
  /\ retrying' = retrying \ {c}
  /\ socket' = [socket EXCEPT ![c] = "shut"]
  /\ UNCHANGED <<reader, registered, number, hwConns, queue, closed, pump, offering,
                 draining, panicked, doomed>>

-----------------------------------------------------------------------------
(* The write pump.  When it returns it shuts the socket.                   *)

Stop(c) ==
  /\ pump' = [pump EXCEPT ![c] = "stopped"]
  /\ socket' = [socket EXCEPT ![c] = "shut"]

(* A frame is written.                                                     *)
PumpWrites(c) ==
  /\ pump[c] = "running" /\ queue[c] # <<>> /\ Head(queue[c]) # "sentinel"
  /\ queue' = [queue EXCEPT ![c] = Tail(@)]
  /\ UNCHANGED <<pump, socket>>

(* A write or a ping fails, or times out.                                  *)
PumpFails(c) ==
  /\ pump[c] = "running"
  /\ Stop(c)
  /\ UNCHANGED queue

(* The sentinel: closeQueuedConn sends a close frame and waits.            *)
PumpSentinel(c) ==
  /\ pump[c] = "running" /\ queue[c] # <<>> /\ Head(queue[c]) = "sentinel"
  /\ queue' = [queue EXCEPT ![c] = Tail(@)]
  /\ pump' = [pump EXCEPT ![c] = "closing"]
  /\ UNCHANGED socket

(* closeQueuedConn discards what comes meanwhile.                          *)
PumpDiscards(c) ==
  /\ pump[c] = "closing" /\ queue[c] # <<>>
  /\ queue' = [queue EXCEPT ![c] = Tail(@)]
  /\ UNCHANGED <<pump, socket>>

(* The wait expires.                                                       *)
PumpWaitExpires(c) ==
  /\ pump[c] = "closing"
  /\ Stop(c)
  /\ UNCHANGED queue

(* The channel is closed and drained.                                      *)
PumpSeesClosed(c) ==
  /\ pump[c] \in {"running", "closing"} /\ c \in closed /\ queue[c] = <<>>
  /\ Stop(c)
  /\ UNCHANGED queue

PumpStep(c) ==
  /\ \/ PumpWrites(c) \/ PumpFails(c) \/ PumpSentinel(c)
     \/ PumpDiscards(c) \/ PumpWaitExpires(c) \/ PumpSeesClosed(c)
  /\ UNCHANGED <<reader, registered, number, hwConns, closed, offering, retrying,
                 draining, panicked, doomed>>

-----------------------------------------------------------------------------
(* Shutdown.                                                               *)

StartDraining ==
  /\ Lockable /\ ~ draining
  /\ draining' = TRUE
  /\ UNCHANGED <<reader, registered, number, hwConns, queue, closed, pump, socket,
                 offering, retrying, panicked, doomed>>

(* DrainAndClose: the close frames it writes end in ReadFails; when its    *)
(* deadline has passed, forceCloseAll shuts what is left.                  *)
ForceCloseAll ==
  /\ draining
  /\ \E c \in registered : socket[c] = "open"
  /\ socket' = [c \in Conns |-> IF c \in registered THEN "shut" ELSE socket[c]]
  /\ UNCHANGED <<reader, registered, number, hwConns, queue, closed, pump, offering,
                 retrying, draining, panicked, doomed>>

-----------------------------------------------------------------------------

HubInit ==
  /\ reader = [c \in Conns |-> "new"]
  /\ registered = {}
  /\ number = [c \in Conns |-> None]
  /\ hwConns = [h \in Hardware |-> None]
  /\ queue = [c \in Conns |-> <<>>]
  /\ closed = {}
  /\ pump = [c \in Conns |-> "stopped"]
  /\ socket = [c \in Conns |-> "open"]
  /\ offering = [c \in Conns |-> 0]
  /\ retrying = {}
  /\ draining = FALSE
  /\ panicked = FALSE
  /\ doomed = {}

HubNext ==
  \/ \E c \in Conns, n \in LineNumbers : Register(c, n)
  \/ \E c \in Conns : \/ RegisterRefused(c) \/ ReadFails(c) \/ AskToUnregister(c) \/ Unregister(c)
                      \/ closeConn(c) \/ offerClose(c) \/ RetryTimesOut(c) \/ PumpStep(c)
  \/ \E n \in LineNumbers : SendTo(n) \/ CloseLine(n)
  \/ \E h \in Hardware : SendToHardware(h) \/ CloseHardware(h)
  \/ StartDraining \/ ForceCloseAll

(* The goroutines go on, each with its next step: a write ends, in success *)
(* or by its deadline; a read on a shut socket fails; retries and the drain*)
(* end by their timeout.  No new reader passes a waiting writer, so closes *)
(* of the line cannot starve Unregister.                                   *)
ReaderGoesOn(c) == (ReadFails(c) /\ socket[c] = "shut") \/ AskToUnregister(c) \/ Unregister(c)

PumpGoesOn(c) ==
  PumpStep(c) /\ (PumpWrites(c) \/ PumpSentinel(c) \/ PumpWaitExpires(c) \/ PumpSeesClosed(c))

HubFairness ==
  /\ \A c \in Conns : /\ WF_hubVars(ReaderGoesOn(c))
                     /\ WF_hubVars(PumpGoesOn(c))
                     /\ WF_hubVars(closeConn(c))
                     /\ WF_hubVars(offerClose(c) \/ RetryTimesOut(c))
  /\ WF_hubVars(ForceCloseAll)

HubSpec == HubInit /\ [][HubNext]_hubVars /\ HubFairness

-----------------------------------------------------------------------------
(* Properties.                                                             *)

(* Types: the registries, channels and goroutines of hub.go; what is on a  *)
(* channel are frames, and each device has an entry in the hardware index. *)
HubTypeOK ==
  /\ reader \in [Conns -> {"new", "reading", "unwinding", "locking", "done"}]
  /\ registered \in SUBSET Conns
  /\ number \in [Conns -> LineNumbers \cup {None}]
  /\ hwConns \in [Hardware -> Conns \cup {None}]
  /\ queue \in [Conns -> Seq(Frames)]
  /\ closed \in SUBSET Conns
  /\ pump \in [Conns -> {"running", "closing", "stopped"}]
  /\ socket \in [Conns -> {"open", "shut"}]
  /\ offering \in [Conns -> 0..MaxCloses]
  /\ retrying \in SUBSET Conns
  /\ draining \in BOOLEAN
  /\ panicked \in BOOLEAN
  /\ doomed \in SUBSET Conns

(* No frame is ever put on a closed channel and none is closed twice, with *)
(* any number of sends, closes, retries and reconnects in progress: the    *)
(* server does not panic.                                                  *)
NoPanic == ~ panicked

(* The two indexes agree: a device is found by its hardware id exactly     *)
(* when its connection is on a line, and it has one connection at most,    *)
(* also while the loop of a replaced connection is still unwinding.        *)
IndexesAgree ==
  \A c \in Conns : c \in registered <=> hwConns[HardwareOf[c]] = c

(* A connection that left the registry never comes back, and keeps the     *)
(* number it registered under for as long as it lives (CloseLine relies on *)
(* it).                                                                    *)
NumberIsFixed ==
  [][\A c \in Conns :
       /\ number[c] # None => number'[c] = number[c]
       /\ c \in closed => c \notin registered']_hubVars

(* A connection told to close, or whose pump has died, or that is there    *)
(* when the server drains, leaves the registry: a full channel, a dead     *)
(* peer or a lost race does not keep it answering for its line.  There are *)
(* finitely many and none comes back, so each has left when all have.      *)
DoomedConnLeaves ==
  []<>(\A c \in registered : ~ (c \in doomed \/ pump[c] = "stopped" \/ draining))
=============================================================================
