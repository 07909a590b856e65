# A TLA+ model of digits

digits is a telephone network for children's phones: a signaling server in Go,
a Raspberry Pi in every phone that runs the daemon `digitsd`, and a Pico
microcontroller on the hook switch, the keypad and the bell. This directory
holds TLA+ modules for the parts where steps of several actors meet, TLC
configurations for small instances, and TLAPS proofs of the server's hub, call
tracker, relay, cluster, lines, line settings, accounts and deployment, and of
the phone's three-way calls, recovery, updates and voicemail.
`PROJECT.json` maps every definition to the lines it models and lists the
hazards of the code with the properties that would catch each of them.

## The system

| Part | State | Operations | What makes it correct |
|---|---|---|---|
| Call tracker (`server/internal/calls`) | map of active calls, conferences and member index, tables `calls`, `conferences`, `conference_members` | initiate, answer, end, clear, merge, end conference, drop member, restart | map, index and tables agree; nobody exceeds the party limit |
| Relay (`server/internal/signaling/relay.go`, `conference.go`) | extensions, grace timers, pending call returns | one handler per message type, disconnect, reconnect, timer | a call survives a reconnect and ends when a phone is gone for good; a retry of *69 is not forgotten |
| Hub (`signaling/hub.go`, `web/handler_ws.go`) | connections by line and by hardware, send channels, read loops, write pumps | register, unregister, send, close with retries, drain | no send on a closed channel; the indexes agree; a connection told to close leaves |
| Cluster (`signaling/state_redis.go`, `redis.go`, `calls/*_redis.go`) | presence records, call and conference membership in Redis, the messages between pods | publish, deliver, set and clear presence | a phone that is connected is present, wherever it is; messages arrive once |
| Link health (`calls/linkhealth.go` and its streams) | rings per session, subscribers | record, subscribe, evict, sweep | a stream ends with its call |
| Lines and pairing (`pairing`, `device`, `line`, `web/handler_phones.go`) | rows, codes, tokens, the phone's configuration | generate, claim, move, renumber, delete, reset, register | who answers a number: tables, hub and phone agree |
| Line settings (`line/settings.go`, `line/quiethours.go`, `signaling/quiethours.go`) | settings row, the phone's copy | save, Do Not Disturb, registration, scheduler | the phone is silent when it should be |
| Accounts and households (`auth`, `household`) | users, sessions, members, links, invites, onboarding cache | sign in, create, invite, link, revoke, remove, delete | no household without a member; households are linked once |
| Automatic deployment (`autodeploy`) | state file, containers | poll, pull, up, health check, revert | the file tells what runs; no release is missed |
| Phone controller (`pi/digitsd/internal/phone/controller.go`) | phone state, generations of timers, held and added peers | hook, key, dial, ring, answer, hangup, busy, error, conference events | agrees with the handset and with the server |
| digitsd call side (`cmd/digitsd/dispatch.go`, `webrtc.go`, `conference.go`) | peer, prepared peer, mesh, timers | initiate, prepare, answer, hang up, connect deadline, ICE recovery, mesh | the peer belongs to the call the phone is in |
| Voicemail (`cmd/digitsd/voicemail.go`, `internal/voicemail`) | recorder, playback session, message files, published count | greet, record, play, delete | messages go only when they may; no recorder is forgotten |
| UART (`phone/serial.go`, `firmware/src/uart_proto.c`) | lines on the wire | send, read, filter | no event that the other side waits for is lost |
| Pico firmware (`firmware/src/phone_fsm.c`, `hook.c`) | phone state, digits, debounced hook, flash window | one loop | reports what the user did |
| Updates (`internal/updater`, `main.go`) | staged and installed binary and firmware, pending push | check, download, install, flash, self test | only whole releases; latest never goes back |
| Boot, setup and recovery (`boot-check.sh`, `main.go`, `recovery.go`, `setup.go`) | boot counter, flags, root, phase byte | boot, set up, reset, recover | a bad root is given up; the phone never hangs |
| Configuration (`internal/config`) | `config.json` and `.bak` | load, save | survives a power cut or one damaged file |

How they interact: a phone's Pico sends events over the UART to the daemon's
main loop, which drives the controller; the controller calls back into the
daemon, which sends commands to the Pico and messages over a WebSocket. On the
server every connection has a read loop, which runs the relay's handlers, and a
write pump. Handlers of different phones run at the same time and meet in the
hub, the tracker and the database; web handlers (kick, close a line, renumber)
join them from other goroutines, and other pods through Redis.

What is hard to test there: checks and updates that are under different locks
or in different statements; an in-memory change followed by a transaction that
may fail; a connection replaced while its old loop still unwinds; timers that
race what they guard; full channels; copies of one fact on the server, in Redis
and on the phone; two state machines on either side of a UART whose messages
cross; power that goes at any step.

## Modules

| Module | Models | Steps |
|---|---|---|
| `CallTracker` | tracker, conferences, their tables, and the relay handlers that call them | what a goroutine does under one lock or in one statement; database failures; restarts |
| `Relay` | read loops, two-party calls, extensions, the reconnect grace window | what a loop or a timer callback does under one lock |
| `Hub` | registry, send channels, write pumps, close retries, draining | one critical section of the hub, one step of a pump or a retry |
| `Pico` | the firmware's loop, hook and keypad, the wires | one iteration of the loop |
| `Handset` | a phone as a whole: `Pico`, the read filter of the UART, the controller and the daemon's side of a two-party call, the server's leg of the line | one event or message in the main loop, one step of a goroutine, one message at the server |
| `CallReturn` | *69 and *89 between one phone and the server | one look under a lock, one message, one key or hook movement |
| `ConferencePhone`, `ThreeWay` | one daemon in two-party and three-way calls; three of them with the relay, their sockets and their media | one handler with all it sends; loss of a socket with what is on it |
| `Cluster`, `HealthStore` | pods with Redis between them; telemetry sessions and streams | one Redis round trip, one message between pods |
| `Lines` | pairing, numbers, moves, deletion, registration, the phone's configuration | one statement or one critical section of a request |
| `LineSettings` | settings, Do Not Disturb, quiet hours, pushes | one statement or one push |
| `Accounts` | users, sessions, households, links, invites | one statement or transaction of a request |
| `Mailbox` | what an answering machine promises of its messages | |
| `MessageStore`, `Voicemail` | the files; the machine around them | one handler, one step of a goroutine, one failure or restart |
| `Updates` | release index, pushes, runs, downloads, flashing, self test | one step of a run, a block of a download, a power cut |
| `Deploy` | the server's own deployment | one command, one write of the state file |
| `ConfigFile`, `Recovery` | `config.json`; boots, setup, recovery, and the saves of the daemon | one write, one stage of a boot, a power cut at any of them |
| `HubProofs`, `CallTrackerProofs`, `RelayProofs`, `ClusterProofs`, `RecoveryProofs`, `UpdatesProofs`, `VoicemailProofs`, `AccountsProofs` | theorems about the module they are named for; `HubProofs` also about `Lines` and `LineSettings`, `RelayProofs` also about `ThreeWay`, `UpdatesProofs` also about `Deploy`, `RecoveryProofs` also about `CallReturn` and `Handset` | |
| `HubSettings`, `RelayThreeWay`, `Renewal`, `PhoneCalls` | `LineSettings`, `ThreeWay`, `Deploy` and `CallReturn` instantiated beside the hub, the relay, the phone's updates and the handset: what their runs and their proofs have in common | |
| `MC*` | instances for TLC | |

`Handset` extends `Pico`, `ThreeWay` extends `ConferencePhone`, `Cluster`
extends `HealthStore`, `Voicemail` extends `MessageStore`, `Recovery` extends
`ConfigFile`. Some modules share a run, in which a behaviour is of one of them and
the others stay as they are: `Relay` and `Hub` (`MCRelay`), `Accounts` and
`LineSettings` (`MCAccounts`), `Handset`, `CallReturn` and `Voicemail`
(`MCHandset`), `Updates` and `Deploy` (`MCUpdates`). `CallTracker`,
`Relay` and `Hub` look at the server from three sides and do not extend each
other: `Relay` keeps the tracker as a set of calls and the hub as the current
connection of each device, `ThreeWay` and `CallReturn` keep both as sets, which
are the abstractions the other two justify.

`Voicemail` implements `Mailbox`: `mailbox` maps the files of the store to the
abstract state of every message (none, unheard, heard, gone), and the run checks
`Mailbox`'s specification as the property `StoreIsAMailbox`. The theorem
`StoreRefinesMailbox` proves it for every instance.

### How state and actions correspond to the code

*CallTracker.* `active`, `memberIndex` and `conf*` are the maps of `Tracker` and
`ConferenceTracker`; `rows`, `confRow`, `memberRows` the tables. A thread
carries the local variables of its handler across locks. `CallStart`, `BusyTo`,
`BusyFrom` and `CanAddAsHost` are the checks of `handleCall`, each a look at the
conferences under one lock and at the calls under another; `OnCallInitiatedInsert`
and `OnCallInitiatedPublish` are the INSERT and the entry into the map. Ends, merges
and drops are split in the same way: a merge makes its four checks and reads its
three call ids one lock after the other (`MergeStart`, `MergeChecks`,
`MergeCallIds`). A failing statement (`DbFailure`) takes the error path of the
operation. `Restart` empties memory, keeps rows.

*Relay.* `loop[d][e]` is the read loop of a device's e-th connection. After the
socket closes it runs `OnConnClosed`, `OnDisconnect` (count the siblings, look
at the peer, arm the timer or clear the line) and `Unregister`. A grace timer
fires (`GraceFires`), looks again (`GraceRecheck`) and ends the calls
(`GraceEnds`). Two timing assumptions: a handler finishes before the device's
next connection has come and gone again; and when a grace timer fires, seconds
after it was armed, the loop that armed it has unregistered and the callback of
an earlier timer has ended. `vanished` is a history variable: the lines of which
every device left while it counted on another one to stay.

*Hub.* The buckets are `registered` with `number`; `queue`, `closed` are the
send channels. `panicked` turns true if a step would send on a closed channel or
close one twice. A close queues a farewell, then offers the sentinel on which
the pump closes the socket (`closeConn`, `offerClose`); a full channel starts
`retryClose`. Closes only take the read lock, and several may be under way at once;
a writer waits for them (`Lockable`) and keeps later ones out (`Readable`). Two
retries of one connection run as one. The frame that renumbering sends before
`Register` is a `SendTo` right after it here. The specification is `HubSpec`, with
`HubInit` and `HubNext`.

*Pico.* `set_state`, `hook_poll`, `process_pi_command`, `process_key` keep
their names and are functions of the firmware's state; an action composes them
in the loop's order: hook, commands, hook event, follow the hook, keys,
timeouts. `lost` is a history variable: RING:START has discarded a hook event
that was not reported yet.

*Handset.* A handler of the controller is an operator on the daemon's record
`d`; commands and messages it sends are collected and leave with the step.
Calls are numbers: an incoming call and its caller are one (callers differ), an
outgoing call is the attempt. The peer, the prepared peer, the pending offer and
the pending caller are the call they belong to. The dial delay and the connect
deadline are tasks; the deadline looks at the peer under one lock and tells the
controller under another, so these are two steps. A pickup promotes the prepared
peer or makes one, which may fail or refuse the offer (`Answers`); nobody is told
then. Tones are left out: the
sequences that play them change nothing else.

*CallReturn.* `pending` is the requester's entry in `pendingReturns`, `last` the
newest inbound row. `handler` holds the goroutines that look at it: the
requester's read loop and one other; each step of `checkPendingReturn`
(`CheckPendingReturn`, `AskBusy`, `AskOnline`, `RingRequester`) is one look
under one lock. `excused` is history: a line was unreachable, in a conference,
or its end was not recorded while the retry waited.

*ConferencePhone, ThreeWay.* A daemon is a record: the controller's fields, the
two-party peer `pm`, the mesh, the tasks that sleep. A peer connection is its
signaling state, the number of its negotiation (`sid`) and its mutes. A handler
returns the new daemon with its messages in `out`, which leave in the same step
in order. `inbox` and `outbox` are the two directions of a WebSocket; a break
loses both. At the relay one message is handled in one step. Time is left out
but for one thing: an add is not dialled while the dial delay of an aborted one
still runs (`AddDial`), since 0.8 s (`controller.go:89`) is less than two flashes
and seven keys take. `Held` is the party the controller holds, which is not
always the one the user talked to last (see the findings).

*Cluster, HealthStore.* `sock` is the truth about a phone, `hub[p]` what each
pod holds, `presence` and `member` what Redis holds. A connection registers,
writes its presence and announces itself in separate steps, and unwinds in
separate steps on the pod it left. `mail[p]` is the subscription of a pod,
delivered in order. In `HealthStore` a session's rings are reduced to their age;
`deck` is the handler of a stream, which checks, gets the session under the map's
lock (`GetSession`), subscribes under the session's (`subscribeSession`) and checks
again; an eviction between the two locks leaves it on rings that are out of the map
(`orphan`, then `stranded`).

*Lines, LineSettings, Accounts.* A `task` (`req`) is a web request or a
registration between two statements; its record holds what it has read.
Statements and transactions are atomic, a failing one takes the handler's error
path. The queue of a handset is its send channel with the messages that change
its configuration; losing a connection loses them. Foreign keys cascade as the
migrations say.

*Voicemail, MessageStore.* `d` is the daemon: the controller's voicemail states,
the recorder, the playback session, the files, and the sleeping goroutines as
tasks that carry the generation they were started with. Ids of messages are
times. `ws` is whether the phone is connected, `badge` what the server has of its
count, -1 for nothing. The saved messages still to be
reviewed are a set: the code keeps a list sorted by id and takes its first.

*Recovery, ConfigFile.* `data` is the data partition: boot counter, flags, token
and the two configuration files, each with a shape (good, nulls, garbled,
missing), whether it holds the pairing, and which of the last two saves it is
from. `mode` is where the phone is in its boot. The boot script truncates its
counter, writes it and compares what it counted (`Count`) with the threshold, not
what it wrote: the write may fail and leave the old counter or an empty one, which
reads as 0, and so may a cut (`WriteCount`, `PowerCut`). The daemon's own writes of the
counter are atomic; one that fails where it clears the counter only brings
recovery nearer, and is left out. `lost` counts the boot script's lost writes.
`DaemonDies` is a start that ends in a fatal error, after which systemd starts the
daemon again. `Alone` says that no other save is under way: the code has no lock
around Save.

*Updates, Deploy.* A version is a number, a file a sequence of blocks of
versions, so that a download that mixes two releases is visible. A slot is a
goroutine that runs an update. In `Deploy`, `file` is the state file, `run` the
process with its own copy, `running` what every container runs. A Pico that
did not answer is flashed, and once more with the same file if it then names
another version than the bundled one; the model flashes it once. The development
flag that skips the flash (`main.go:1553`) is left out.

## Runs

| Run | Instance | Shows |
|---|---|---|
| `calls` | 3 phones, 2 callers, 1 conference, 4 rows; 2 goroutines at once, or one at a time with 1 failing statement or 1 restart | index and map name calls that exist (`MemorySound`), two drops leave one continuation, a merge retires both calls; one at a time also memory and tables agree and the party limit holds (`SerialTablesAgree`) |
| `relay` | 2 lines, two devices on the caller's and one on the other, of which one connects twice; or a hub with 2 connections of 1 device, 1 line number, capacity 1, 2 closes | `ReconnectKeepsCall`, `NoOrphanCall`, and in the end `CallerGoneEndsCall`; `NoPanic`, `IndexesAgree`, and in the end `DoomedConnLeaves` |
| `handset` | 3 hook movements, 1 incoming call, 1 digit; or call return with 2 other lines, 4 moves of theirs and 1 of the requester's network; or an answering machine with room for 2 messages, 3 recordings, 2 calls, 5 hook movements and keys, 1 fault | `ControllerFollowsHook`, `NobodyOnACradledPhone`; `FreeRetryFires`; `OneRecorder`, `BadgeIsNotStale`, and the refinement `StoreIsAMailbox` |
| `threeway` | 3 phones, four budgets of hook movements, flashes, broken sockets and lost media | `MutesMatchHold`, `MeshIsComplete`, `DeadPeersAreDropped`, `RecoveryIsTimed` |
| `cluster` | 2 pods, 1 phone, 2 connections at a time, a call and a conference, five budgets | `PresenceIsLive`, `EveryHandsetOnce`, `CallSurvivesMove`, `EndedConferenceHasNoDeck`, and in the end `DecksClose` |
| `lines` | 2 devices, 2 lines, 4 numbers, 1 household, 3 requests of which 2 overlap, 1 failing statement | `RegisteredWhereBound`, `TokenReachesDevice`, `RowsFollowRename` |
| `accounts` | 4 addresses, 3 users in 2 households with pending links and an invite, 3 requests of which 2 overlap, 1 failing statement; or 2 settings requests, 2 changes, 1 lost message, a week of 2 days of 3 minutes, two window shapes | `HouseholdsHaveMembers`, `LinkedOnce`; `WindowsSilenceTheirMinutes`, `SilentStateConverges` |
| `recovery` | 2 power cuts, 2 faults, 4 requests of user and server | `BadBootsAreBounded`, `ConfigSurvives`, and for ever `NeverWedged` |
| `updates` | 2 replicas, 2 runs at once, 2 versions of 2 blocks, 1 fault, 1 action; or 2 containers, 3 releases, 2 faults, 1 action | `GenuineArtifacts`, `PowerCutIsRepaired`, `LatestNeverDowngrades`; `FileTellsWhatRuns`, `NoReleaseIsMissed` |
| `badge` (violated) | an answering machine, 2 messages, no fault | `BadgeIsSeeded` |
| `hold` (violated) | 3 phones, 2 hook movements, 3 flashes | `HoldIsSilent` |
| `stranded` (violated) | 2 pods, 1 call, 1 deck | `EveryDeckCloses` |

The first nine runs pass. The last three state what a comment or a document promises
and show how the code breaks it; they are the first findings below, and
`PROJECT.json` quotes the lines. Where the code leaves a window open that nothing
promises to be shut, the property of a passing run names it, with
a history variable that is true only inside it (`crossed`, `doubled`,
`overlapped`, `slipped`, `lost`, `stale`, `overtaken`, `excused`, `vanished`); these
variables record that the window was entered and guard nothing. Such a property
says that nothing else goes wrong, and does not catch what happens inside its
window: the hazards of `PROJECT.json` say so where that is the hazard. The windows are
listed under "What the models also reached".

Every property of a passing run has a mutant: a plausible slip in one mapped definition
(`Mut...`, next to it) under which TLC finds the property violated. The
properties of a module that are not in a run are the types (`TypeOK`) and parts
of those that are.

### Bounds

* `calls`: races are between two operations, so two goroutines; a conference
  needs three phones and one host; four rows are two calls, and two
  continuations in case two racing drops both inserted one. With two goroutines
  at once phone 1 dials, phone 2 first, and the last row is left to a continuation;
  an answer is to a row that rings. The serial mode has two callers and spends one
  failure or one restart, at any point.
* `relay`: two connections of a device are the old loop and the new one that
  overlap; two devices of a line count each other. That only one device connects
  again keeps the liveness property in reach; the proofs need no such bound.
  Only A dials; B's disconnects are still those of a callee. At the hub the second
  connection of a device replaces the first, and with capacity 1 a channel is full
  after one frame. It has one line number; a renumbering, which would need a
  second, is covered by the proofs, which lift the other bounds too.
* `handset`: three movements are lift, cradle, lift, enough for a redial and
  for events of two lifts on the wire. `MaxUart` keeps the user from pressing a
  key while an event waits; the number has one digit, since digits before the
  last are only counted. For call return, two other lines are the one asked for
  and one that keeps it busy; four moves let both of them talk and hang up twice. A
  call that is there at the start is one that the last caller of the requester is
  in. The answering machine has a mailbox of two, full at the third message; the disk
  may hold two at the start, so that the third recording evicts, and a recording
  has room for two frames, so that it may end on a hang-up or on its cap.
* `threeway`: a conference has three parties. The budgets are separate so that
  users go furthest where the network is whole. A third flash is the one after a merge
  that was rejected: that is the run `hold`. `MutesMatchHold` is about the party that
  the controller holds and would hold there too; the proofs have no budget.
* `cluster`: a move is a lost connection and a new one on any pod; two moves
  overtake a message. One phone, because messages and records of two phones do
  not meet.
* `lines`, `accounts`: races are between two requests; the third
  sees what they left behind. In `lines` two lines are set up at the start, with
  one handset or both paired, and two numbers are free; the id of a deleted line
  is not given out again, as in the table. A change that is given back while a
  second change of the same line is under way needs three requests at once,
  which is beyond the run and covered by the proof. A day has three minutes, so that a window opens,
  covers a minute and closes; a week has two days, so that a window wraps past
  its end. The two windows are one that wraps past the end of the week and one within
  a day; an empty one, and windows on a clock of any size, are covered by the proof.
* `recovery`: a second cut hits the recovery from the first; two faults or cuts may
  both lose a write of the counter. Boots are not bounded, the boot counter is.
* `updates`: two slots overlap once; a second version arrives during a download
  of the first, and two blocks can come from different ones.

Deadlock is not checked: every instance stops when its bounds are used up.

### Fairness

* `Relay`: weak fairness of every read loop's next step and of every grace
  timer's. A loop that is not blocked runs, a timer that is armed fires. Nothing
  is assumed of users: devices need not connect, dial or come back.
* `Hub`: weak fairness of every goroutine, that is, of each read loop whose socket
  is shut (`ReaderGoesOn`), of each pump (`PumpGoesOn`), of each close and its retries,
  and of the forced close at the end of a drain. `Unregister` needs the write lock,
  which closers keep taking to read; `sync.RWMutex` lets no new reader past a waiting
  writer, and the model says so (`AskToUnregister`, `Readable`), so that weak fairness
  is enough.
* `Cluster`: weak fairness of the goroutines of the connections, of each pod's
  subscription, timers and sweeps, and of the streams' handlers.
* `Recovery`: weak fairness of what runs by itself, boot and daemon, and of the
  user's pulling the plug of a phone that hangs. Neither the portal nor recovery
  is assumed to be used.
* The other modules have safety properties only, and no fairness.

## What the models also reached

Situations in which the code does not do what a comment or a document says, or
that it leaves open. The first three are runs that expect a violation; the
properties of the other runs hold up to the rest. Those of calls and reconnects
were found by TLC as violations of a property that stated the comment; the others
are states or behaviours of the models, or were met while reading for them.

*Violated promises.*
* `badge`: the comments say that the count of unheard messages is sent
  unconditionally on every reconnect, to seed the server (`main.go:487`, `524`, and
  `hub.go:468` relies on it); `reconnectLoop` sends it only if it changed
  (`main.go:2667`). A phone that was away for a moment shows no messages until
  its next one. `BadgeIsNotStale` therefore allows none.
* `hold`: when a merge is rejected after the added party has hung up on the way,
  `TearDownPeer` finds its peer in the mesh and leaves `callPeer` at the party that
  is gone (`cmd/digitsd/conference.go:132`; a merge has moved it from `pm`). The next
  flash puts that one on hold, and the party that is still there hears the whole
  second add, which `docs/architecture/party-line.md:19` says it does not.
  `MutesMatchHold` says what the code does keep: the party the controller holds is
  silent, and no mute outlives its add.
* `stranded`: a deck gets the session under one lock and subscribes under another
  (`linkhealth.go:276`). A call's eviction between the two leaves it on rings that
  are out of the map; the row is updated after the eviction (`tracker.go:240`), so the
  check after subscribing passes, and the sweep, which the comment at
  `linkhealth.go:270` relies on, walks the map only. The deck never closes.
  `DecksClose` is about decks on a session of the map.

*Calls and reconnects.*
* `handleCall` checks that callee and caller are idle and enters the call later
  (`relay.go:332`); two calls set up at once both pass.
* `OnDisconnect` counts siblings before either of two loops has unregistered
  (`relay.go:801`); the call of a line whose two devices vanish together is
  never ended.
* `handleExtensionPickup` stores an extension after its call has ended
  (`relay.go:977`); it then swallows that device's next hang-up.
* TIMEOUT:DIAL_TONE is in neither of the lists by which the read loop of the
  UART lets lines pass (`serial.go:364`). The firmware is BUSY and ignores keys
  while the controller waits for a number (`phone_fsm.c:526`).
* A caller that hangs up while the phone rings leaves its prepared peer
  (`webrtc.go:722`); the next caller's pickup answers the first. The peer lives
  for 85 seconds, after which `ensureLivePreAnswer` discards it.
* `enterPanicRecovery` sets the boot counter and the recovery flag and then
  reboots through `doReboot`, whose `clearRecoveryFlags` clears both
  (`main.go:1218`, `docs/architecture/updates-and-recovery.md:81`).
* `boot-check.sh` writes its counter in place and reads an empty or garbled one as 0
  (`boot-check.sh:70`): a partition that is full or read-only, or a cut in the write,
  lets a bad root boot twice more for each write that is lost
  (`BadBootsAreBounded` counts them), and a partition that stays read-only lets it
  boot for ever.
* RING:START discards a hook event in the same iteration of the firmware's loop,
  after which the two state machines disagree until the handset moves again.

*Call return.* The ring that a retry brings is ignored by a phone that is still
off-hook with its busy tone, and the retry is used up
(`docs/user-guide.md:191`). A retry is not looked at when a line comes online,
when a conference ends, or when the row of an ended call cannot be written. A
check that was made for one target takes the entry of a newer retry
(`relay.go:1156`). *69 without a caller leaves the origin set, so that an
unrelated busy registers a retry. The dial-tone reset belongs to no request
(`dispatch.go:583`): it resets a newer one, or a phone that was put down.

*Three-way calls.* An aborted add does not tell the third party, which keeps
ringing; its later hang-up ends the host's call with the held party
(`docs/architecture/party-line.md:62`). The held party's hang-up is ignored
during an add. A hang-up that crosses a new ring ends the new call at the server
while the phone rings on. Conference messages lost in an outage that nobody
noticed leave a member outside the mesh; an answer that arrives late leaves a
mesh peer on a cradled phone. A call on hold is not resumed after the WebSocket
was lost. The restart timer hangs up whatever call is current.

*Cluster.* A call that ends on a pod that did not start it is not evicted
elsewhere, and its streams live until the sweep. A conference is ended, or a
member kicked, only by the pod that knows it (`conference.go:97`). A socket that
dies late on the pod a phone has left can end its conference. A presence write of
an older connection to the same pod can come last (`state_redis.go:130`). A
device that moves gets a message twice or never, if the move falls between the
look at its pod and the delivery.

*Lines and settings.* A handset that enters the hub during a renumbering stays
under the old number. A change that is given back because a call came
(`handler_phones.go:627`, `1267`) closes nobody, and a second change of the same
line, or move of the same handset, that is under way by then closes the handsets
of the number it read, or has its row overwritten: a handset can stay registered
under a number its line no longer has (`overlapped`; found by TLC). A pairing or reset message that is lost leaves the phone
paired in the table with a token it never got. Two settings requests can
overwrite each other's fields, and Do Not Disturb can un-silence a line within
its quiet window. Two saves of `config.json` are not ordered, and the older one
may win.

*Accounts.* Two invitations accepted at once link two households twice. A link
whose inviter was deleted cannot be read, and so not be revoked. A membership
that changes between the count and its use can leave a household empty.

*Voicemail.* The goroutine that plays the greeting belongs to no call
(`voicemail.go:350`): if its caller hangs up and the next call reaches its own
greeting before the old one is over (a greeting may last a minute, the phone
rings as little as five seconds), it arms the recorder and moves the controller
to recording, and the message of the second caller begins with what he says to
the greeting, which the comment at `voicemail.go:293` wants kept out. A hang-up that races the announcements of *98 can leave a cradled
phone outside IDLE, where it cannot be rung.

*Updates and recovery.* A run that was started by an older push clears a newer
one (`main.go:845`). Once firmware was sent over the air, `firmware.elf` is that file
(`updater.go:441`) while the version file still names the bundled version, so
that the same firmware is flashed again at every start (`main.go:1560`). A reset that failed cannot be
started again, and Try Again on the web page can meet a reset under way
(`recovery.go:121`, `299`). The first save after a reset has no backup. A
deployment that is cut off by its time limit marks a healthy release as failed
until somebody retries it.

## Proofs

Each proof module defines an inductive invariant `IInv`, which TLC checked on
the instance of its run first, and proves `Init => IInv`,
`IInv /\ [Next]_vars => IInv'`, with one step or lemma per action, and that
`IInv` implies the properties. The theorems hold for every value of the constants
that the module's named assumptions admit: sets of actors of any size, any
number of faults, restarts, messages and requests (`Cluster` follows one message
that is fanned out). No assumption says more than what a constant is: names of
"nobody" are not names of somebody, bounds are natural numbers, capacities are
positive, a device has a line, the rows that are there at the start refer to
each other. What is assumed of the constants of a module that is instantiated
(`LineSettings`, `ThreeWay`, `Deploy`, `Handset`, `CallReturn`) is stated by the
module that instantiates it (`HubSettings`, `RelayThreeWay`, `Renewal`,
`PhoneCalls`), which the run and the proofs share.

| Module | Theorems | States |
|---|---|---|
| `HubProofs` | `TypeCorrect`, `HubNeverPanics`, `HubIndexesAgree`, `HubNumberIsFixed` | `TypeOK`, `NoPanic`, `IndexesAgree`, `NumberIsFixed` |
| (`LineSettings`) | `WindowsAreExact`, `HandsetHoldsTheSilentState` | `WindowsSilenceTheirMinutes`, `SilentStateConverges` |
| (`Lines`) | `HandsetAnswersItsLine`, `TokenFindsItsHandset`, `HistoryFollowsNumbers` | `RegisteredWhereBound`, `TokenReachesDevice`, `RowsFollowRename` |
| `CallTrackerProofs` | `TypeCorrect`, `MemoryIsSound`, `OneContinuation`, `MergedCallsAreRetired` | `TypeOK`, `MemorySound`, `ContinuationOnce`, `MergedCallsRetired` |
| `RelayProofs` | `TypeCorrect`, `ReconnectKept`, `NoOrphans` | `TypeOK`, `ReconnectKeepsCall`, `NoOrphanCall` |
| (`ThreeWay`) | `RecoveriesEnd`, `MutesEnd` | `RecoveryIsTimed`, `MutesEndWithTheAdd` (a part of `MutesMatchHold`) |
| `ClusterProofs` | `TypeCorrect`, `PresenceKept`, `MovedCallsSurvive`, `EndedConferencesDark`, `EachHandsetOnce` | `TypeOK`, `PresenceIsLive`, `CallSurvivesMove`, `EndedConferenceHasNoDeck`, `EveryHandsetOnce` |
| `RecoveryProofs` | `TypeCorrect`, `BootsAreBounded`, `OneDamageIsSurvived` | `TypeOK`, `BadBootsAreBounded`, `ConfigSurvives` |
| (`CallReturn`) | `RetriesAreNotForgotten` | `FreeRetryFires` |
| (`Handset`) | `HandsetIsFollowed`, `CradledPhoneIsAlone` | `ControllerFollowsHook`, `NobodyOnACradledPhone` |
| `UpdatesProofs` | `TypeCorrect`, `GenuineFiles`, `PowerCutRepaired`, `NeverDowngrades` | `TypeOK`, `GenuineArtifacts`, `PowerCutIsRepaired`, `LatestNeverDowngrades` |
| (`Deploy`) | `FileTellsTheTruth`, `EveryReleaseIsSeen` | `FileTellsWhatRuns`, `NoReleaseIsMissed` |
| `VoicemailProofs` | `TypeCorrect`, `RecordersAreFinished`, `StoreRefinesMailbox`, `BadgeIsRight` | `TypeOK`, `OneRecorder`, `StoreIsAMailbox`, `BadgeIsNotStale` |
| `AccountsProofs` | `TypeCorrect`, `NoHouseholdIsAbandoned`, `NoLinkIsDoubled` | `TypeOK`, `HouseholdsHaveMembers`, `LinkedOnce` |

*Hub.* That a send does not panic follows from the channel being open, that from
the connection being registered, and that, for a send by hardware id, from the
two indexes agreeing. `IInv` joins `ChannelsOpen` (a registered connection's
channel is open), `OfferingIsHere` (the connections a close has yet to offer the
sentinel are registered), `NewIsNowhere` and `DoneIsGone` (a connection that has
not begun, or whose loop has ended, is in no index, so nothing is closed twice)
and `HardwareMatches` (the index entry of a device is a connection of it) with
the types and the properties. `RegisterStep` and `UnregisterStep` are the
actions that change the registry, `SendStep` whatever puts a frame on channels,
`QuietStep` all the rest.

*Line settings.* `WindowsSilenceTheirMinutes` is arithmetic about windows that
wrap past midnight and past the end of the week, on a clock of any size. For
`SilentStateConverges`, `Converging` looks at the last message in the channel
instead of at an empty one (`LastTold`): it is what is in force, unless a push is
still to come, one failed or was overtaken, or the scheduler has yet to look and
will see a difference.

*Lines.* `LinesInv` relates rows, the hub and what requests carry. `Answering`
gives for every connected, paired handset the reason why its registration is
right or will go: some request is past its update and will close it (`Leaving`),
a move has changed the row and will look at the old line again (`Rechecks`), or
it stays, and then the line it is bound to has the number it is registered under
or will have it again (`Covered`: a renumbering that may give its change back
still has to look). The races are those of two changes to one line, and a step
of one request has to keep the reason of every handset that another one is
responsible for (`KeptByOthers`). `ClaimableIsSilent`: a handset whose code may
be claimed answers no number and is not about to, so that a claim needs no
close. `TokenTraced`: the token of a paired row is with the handset, in a message
on its channel behind which none undoes it, in a request that has yet to send it,
or was lost. `RowsTraced` is what a rename may rely on when it copies the
history.

*Call tracker.* Between two of its locks a goroutine relies on what it carries.
`JobOK` says what that is, for the program counter it is at: the three parties of
a merge, the rows it will retire, a conference that is in the map or has left
it, a row that is inserted and not yet in the map. `Apart` says that two
goroutines never carry the same row and never drop from the same conference.
`RowsInserted` and `ConferencesFilled` tie the ids of rows and the members of
conferences to what was handed out. With these the races need no case analysis
over pairs of goroutines: a step of one preserves the other's `JobOK`, because
what it changes is not what the other carries.

*Relay.* `ConnIsNewest` and `EpochsInOrder`: a device's connections begin in
order and the hub has the newest. `HandlersConnected`: a handler at work means
that the device has been connected since. `CallsHeld` is the argument of
`NoOrphanCall`: as long as a call is active, a device of its caller has still to
pass `OnDisconnect`, or a timer is armed, or a callback will look and find nobody,
or the line's last devices counted on each other (`vanished`).

*Three-way calls.* `Good` is an invariant of one daemon that every handler keeps,
whatever message, timer or key it is given, so that the system needs no more than
that messages of the right kinds are under way (`Mail`). `Placed`: a two-party
peer is the connected party's or the added one's, and `callPeer` names it, so
that whatever leaves an add tears the added party's peer down. `Delayed`: at most
one dialled add waits for its delay, and in ADD_CALLING it is the current one and
has no peer yet, so that a call never takes the place of another's peer. With
these, `Timed`: the hang-up a recovery asked for meets either its peer or none.
`Muted`: only the held party's peer is muted, in the mesh, in an add; a flash
moves the peer into the mesh before it mutes it (`EnterGood`), and every way out
of an add unmutes (`AddLeft`). `Untimed` is the state between the end of the
goroutine that asked for a hang-up and that hang-up, within one step.

*Cluster.* `SocketsServed`: the socket a phone has is served by the goroutine of
its own connection, which has not begun to end; with it `PresenceIsLive` is
inductive, and a grace window that runs out (`GraceExpires`) finds the presence
of a phone that is back. For the streams, `EvictionUnderWay`: while a deck shows a
conference that has ended, some pod still has its eviction to publish, or the
deck's pod has it in its subscription; `EndsForget` and `EndsKnown` say that the
pod which ends a session has taken it out of its map, so that a deck opened later
is refused. For the messages, `HandsetInv`: a pod's hub names only goroutines of
its own that have not unregistered (`HubServes`); a pod has at most one copy of
the message to deliver (`OneLetter`), a connection that has the message is on a
pod with no copy left (`AtMostOnce`), and one that is due to get it is still in
its pod's hub and has it, or its pod has the copy (`DueServed`). `due` and `got`
are about one message, which is what `Budget` says of `sends`; any number of
reconnect notices may be between it and the head of the queue.

*Recovery.* The counter is on disk and the bad boots are a history that a power
cut does not touch, so `BootInv` bounds the bad boots by the counter, and by two
more for each of its writes that was lost, strictly in the mode where the boot
script has counted and let the root boot; each place that clears the counter is
in a mode in which no bad boot is remembered, or is a write that counts as lost. `ConfigInv` says what the
two files hold after two saves: unhurt, the file is the last save and the backup
the last or the one before it (the last, when the file is about to be written);
hurt once, one of them is recent, and a daemon that may save has a file that
parses, so that the copy to the backup cannot overwrite the good one with the
bad one.

*Call return.* A missed wake-up would be a call that ends after a goroutine has
asked for its line and before that goroutine lets go of the retry. `ReturnInv`
rules it out: while a retry waits, one of its lines is busy or some goroutine
`Covers` it, and while nothing excuses the retry both lines are connected and in
no conference. The end of a call puts its goroutine before the look
(`CallEndStep`); a goroutine that finds a line busy may leave because the line is
busy at that moment (`LookStep`), and one that finds both free rings.

*Handset.* The properties speak of quiet wires; `PhoneInv` says what they are
while something is under way, for any number of hook movements, calls and
messages. `HookInv`: played back (`Replay`), the hook events on the wire lead from
what the daemon thinks of the hook to what the handset is, each of them a change.
An open flash window counts as lifted, so the close that reports it late, or that
HOOK:FLASH:OFF brings about, is such a change too (`Iterated`). `BellInv`: on a
cradled phone of which the daemon knows, the last RING command on the wire, or the
firmware's state if there is none, is what the controller thinks of the bell
(`BellMore`, `BellServed`). `CallInv`: whatever gives the line a call at the
server, one it has or an answer or placement on the way to it, is followed by a
hangup, unless the controller is in a call. A handler keeps the three because of
what its commands and messages are (`BellMoves`, `CallMoves`), and that is all the
steps of the main loop and of the goroutines need (`DaemonKeeps`, `HookHeard`). The
firmware runs any number of commands in one iteration; what they do together is
proved along the first command that would do otherwise (`FromTheFirst`), because
the library's induction theorems are out of reach.

*Updates.* `LockHeld`: past the lock there is one run. So what that run knows
stays true between its steps (`TaskOK`): the marker names the release it copies,
what it has seen of a partial file is what is there, the target of a run for the
latest release is newer than what is installed.

*Deploy.* A run carries the tag and the ETag that the file holds until it writes
them (`CarriesFile`). Up to its first command the file tells of containers nobody
has touched (`FileIsTrue`); from there on the file says that a deployment is in
progress, and what the run will write at its end is what it has seen of the
containers (`ResultIsTrue`). `Looked`: an ETag is never newer than the list, and
while it is the list's, the newest release is the one that goes with it.

*Voicemail.* `DiskOK`: the recording under way has the last number handed out,
every message on disk has an earlier one, and no recording under way or to come is
marked as heard; `StoreOK`: a session never plays the recording under way;
`CallOK`: a recorder needs a peer, and a phone with a peer has no offer, so the
next call cannot be answered into an open recorder. Handlers are operators from
daemon to daemon; `Keeps` (the mailbox is as it was) and `Moves` (one step of
it) compose (`Composed`), and every handler is shown to be one or the other, so
that every action is a step of `Mailbox` or a stutter. The step that needs most
is eviction: that the oldest of the files by their rank are those below some
number, and that fewer than the limit remain beside the new one, is proved from
the cardinality lemmas of the library without induction (`Oldest`, `Evicted`).
`BadgeOK` is the argument of `BadgeIsNotStale`: as long as no disk or peer has
failed, a connected server shows the last count published or none, and that is
the count, or some goroutine `Owes` it: it will publish, or ends in one that
will. `Told` says of a handler that what was owed still is and that, where
nothing is owed, no unheard message came or went; it composes like `Keeps`.

*Accounts.* Five parts say that the tables refer to rows that exist (`UsersOK` to
`InvitesOK`; together they are what the foreign keys of the migrations enforce).
`Knows` is what a request carries from one statement to the next. `Counted`: a
request that has counted a household's members and is about to remove one finds
two still there, or the membership has changed since and the household is in
`crossed`. `Accepting`: a request about to commit the acceptance of a link code
holds that row alone, and no other row links the two households unless their
acceptances overlapped. Most requests leave all of this alone (`Plainly`), so that
their steps need one lemma; `WatchersKnow` and `LinksMove` are the lemmas for the
steps that change memberships and links.

### What stays with TLC, and why

* Liveness: `CallerGoneEndsCall`, `DoomedConnLeaves`, `DecksClose`,
  `NeverWedged`. Fairness is beyond this prover.
* `SerialTablesAgree`: it holds when operations do not overlap, which is a mode of
  the run and not of the specification; with two at once the tables may disagree.
* `MeshIsComplete` and `DeadPeersAreDropped`: they speak of the two ends of a
  negotiation at rest, and an invariant for them has to follow every negotiation
  through both phones, both queues and the server: not proved. The same holds for
  the other part of `MutesMatchHold`, that the host and the party its controller
  holds do not hear each other.
* `BadgeIsSeeded`, `HoldIsSilent`, `EveryDeckCloses`: they are false.

## Not modelled

* The rate limiter (arithmetic under one lock), the dashboard's broadcaster
  (`HealthStore` has the same pattern of subscribers), call history (queries).
* The Wi-Fi fallback supervisor: a tick that starts system tools. Its access
  point script runs as the user `digits` and without the privileges the script
  needs, and with them it would stop its own service before the access point is
  up, so there is no behaviour of it in `src/` that a model could hold it to.
* Redis keys that expire after a pod has crashed: presence and calls come back
  by their lifetimes only.
* A root partition that does not mount at all: the recovery hook runs only after
  the initramfs has mounted it (`recovery-root.sh:9`), and without it nothing of
  this repository runs.
* On the phone: tones and announcements, the service codes that only play
  something, synchronous UART commands and a reopened port, contacts, volume,
  the watchdog's pings, asset extraction.
* An operator's --retry while a deployment runs.
* Pages, rendering, mail, metrics, audio and codecs: input and output or signal
  processing without a protocol.

## Plan

1. A proof about `ThreeWay` that a dead peer is dropped (`DeadPeersAreDropped`).
2. Models that could still be added: the broadcaster, key expiry in Redis,
   tones with the call they belong to.
