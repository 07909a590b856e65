------------------------------- MODULE Cluster -------------------------------
(***************************************************************************)
(* The server's replicas with Redis between them: the connections of the   *)
(* phones to the pods' hubs, the presence records, the fan-out of messages *)
(* over the digits:signal channel, the grace timers, and the calls and     *)
(* conferences whose membership is in Redis while each pod remembers only  *)
(* the ones it started.  Link health is the module it extends.             *)
(*                                                                         *)
(* A phone is a line with one device.  A connection is a goroutine of the  *)
(* pod that accepted it, and ends when that pod notices.                   *)
(***************************************************************************)
EXTENDS HealthStore

CONSTANTS
  Phones,
  Conferences,  \* the sessions that are conferences; the others are calls
  Conns,        \* connections at a time
  Budgets       \* of lost connections (moves), messages (sends), decks, samples
                \* and forced ends, and the sessions that are started (keys)

ASSUME ConferencesAssumption == Conferences \subseteq Sessions
\* due and got are about one message: a behaviour has no second one.
Budget == [moves : Nat, sends : 0 .. 1, decks : Nat, samples : Nat, forced : Nat,
           keys : SUBSET Sessions]
ASSUME BudgetsAssumption == \A b \in Budgets : b \in Budget

VARIABLES
  sock,       \* each phone's live connection, or NoConn
  conn,       \* the connections' goroutines
  hub,        \* each pod's current connection of a phone
  presence,   \* Redis: the pod in the device's record
  member,     \* Redis: the devices of the line
  overtaken,  \* phones whose record a presence write of an older connection took
  mail,       \* what each pod has to deliver of digits:signal
  due,        \* the connections a message was addressed to
  got,        \* how often each connection got it
  timer,      \* grace timers
  active,     \* the sessions a pod remembers
  shared,     \* Redis: the sessions of the phones
  job,        \* the start or the end of a session in progress on a pod
  left        \* what is left of the budgets

linkVars == <<sock, conn, hub, presence, member, overtaken>>
mailVars == <<mail, due, got>>
callVars == <<active, shared, job>>
vars == <<healthVars, linkVars, mailVars, timer, callVars, left>>

NoConn == "unconnected"
None == "none"
Bare == "bare"                \* a record TouchLastSeen made: no pod, no number
ASSUME NamesAssumption == NoConn \notin Conns /\ {None, Bare} \cap Pods = {}
Free == [pc |-> "free", pod |-> None, phone |-> None, key |-> None]
NoJob == [pc |-> "none", known |-> FALSE]

\* Every phone is connected, anywhere, and nobody talks.
Init ==
  /\ HealthInit
  /\ sock \in [Phones -> Conns] /\ \A d, e \in Phones : sock[d] = sock[e] => d = e
  /\ \E at \in [Phones -> Pods] :
       /\ presence = at
       /\ conn = [c \in Conns |->
            IF \E d \in Phones : sock[d] = c
              THEN LET d == CHOOSE d \in Phones : sock[d] = c
                   IN  [pc |-> "read", pod |-> at[d], phone |-> d, key |-> None]
              ELSE Free]
       /\ hub = [p \in Pods |-> [d \in Phones |-> IF at[d] = p THEN sock[d] ELSE NoConn]]
  /\ member = [d \in Phones |-> TRUE] /\ overtaken = {}
  /\ mail = [p \in Pods |-> <<>>] /\ due = {} /\ got = [c \in Conns |-> 0]
  /\ timer = [p \in Pods |-> [d \in Phones |-> "none"]]
  /\ active = [p \in Pods |-> {}] /\ shared = {}
  /\ job = [p \in Pods |-> [k \in Sessions |-> NoJob]]
  /\ left \in Budgets

Goto(c, pc) == conn' = [conn EXCEPT ![c].pc = pc]
Pod(c) == conn[c].pod
Phone(c) == conn[c].phone
Live(c) == conn[c].pc # "free" /\ sock[Phone(c)] = c
Reading(c) == conn[c].pc = "read" /\ Live(c)

-----------------------------------------------------------------------------
(* Messages between pods.                                                  *)

\* Mutant: the sender's copy is delivered too.
MutOwnCopyToo(p, env) == [q \in Pods |-> Append(mail[q], env)]

\* Publish and Subscribe: every other pod gets the envelope, the sender's own
\* copy is dropped.
Deliveries(p, env) ==
  [q \in Pods |-> IF q = p THEN mail[q] ELSE Append(mail[q], env)]
RoomIn(p) == \A q \in Others(p) : Len(mail[q]) < MaxMail

Enqueue(p, d) == IF hub[p][d] = NoConn THEN got ELSE [got EXCEPT ![hub[p][d]] = @ + 1]

\* SendTo: to the line's connections here, and to every other pod.
SendTo(p, d) ==
  /\ left.sends > 0 /\ left' = [left EXCEPT !.sends = @ - 1]
  /\ RoomIn(p)
  /\ due' = {hub[q][d] : q \in Pods} \ {NoConn}
  /\ got' = Enqueue(p, d)
  /\ mail' = Deliveries(p, [type |-> "number", phone |-> d])
  /\ UNCHANGED <<healthVars, linkVars, timer, callVars>>

\* deliverFromRedis.
deliverFromRedis(p) ==
  /\ mail[p] # <<>>
  /\ mail' = [mail EXCEPT ![p] = Tail(@)]
  /\ LET env == Head(mail[p])
     IN  \/ /\ env.type = "number"
            /\ got' = Enqueue(p, env.phone) /\ UNCHANGED timer
         \/ /\ env.type = "reconnect"
            /\ timer' = [timer EXCEPT ![p][env.phone] = IF @ = "armed" THEN "none" ELSE @]
            /\ UNCHANGED got
  /\ UNCHANGED <<healthVars, linkVars, due, callVars, left>>

-----------------------------------------------------------------------------
(* Connections and presence.                                               *)

\* The phone's connection breaks: the phone knows, the pod does not yet.
ConnectionLost(d) ==
  /\ sock[d] # NoConn /\ left.moves > 0
  /\ left' = [left EXCEPT !.moves = @ - 1]
  /\ sock' = [sock EXCEPT ![d] = NoConn]
  /\ UNCHANGED <<healthVars, conn, hub, presence, member, overtaken, mailVars, timer, callVars>>

\* Register: the pod's older connection of the device gives way.
Register(c, p, d) ==
  /\ conn[c] = Free /\ sock[d] = NoConn
  /\ sock' = [sock EXCEPT ![d] = c]
  /\ conn' = [conn EXCEPT ![c] = [pc |-> "online", pod |-> p, phone |-> d, key |-> None]]
  /\ hub' = [hub EXCEPT ![p][d] = c]
  /\ due' = due \ {hub[p][d]}
  /\ UNCHANGED <<healthVars, presence, member, overtaken, mail, got, timer, callVars, left>>

SetOnline(c) ==
  /\ conn[c].pc = "online"
  /\ presence' = [presence EXCEPT ![Phone(c)] = Pod(c)]
  /\ member' = [member EXCEPT ![Phone(c)] = TRUE]
  /\ overtaken' = overtaken \ {Phone(c)}
  /\ Goto(c, "announce")
  /\ UNCHANGED <<healthVars, sock, hub, mailVars, timer, callVars, left>>

\* OnReconnect: a grace timer of this pod is cancelled, the others are told.
OnReconnect(c) ==
  /\ conn[c].pc = "announce" /\ RoomIn(Pod(c))
  /\ timer' = [timer EXCEPT ![Pod(c)][Phone(c)] = IF @ = "armed" THEN "none" ELSE @]
  /\ mail' = Deliveries(Pod(c), [type |-> "reconnect", phone |-> Phone(c)])
  /\ Goto(c, "read")
  /\ UNCHANGED <<healthVars, sock, hub, presence, member, overtaken, due, got, callVars, left>>

\* A pong writes last_seen, which creates the record if it is gone.
TouchLastSeen(c) ==
  /\ Reading(c) /\ presence[Phone(c)] = None
  /\ presence' = [presence EXCEPT ![Phone(c)] = Bare]
  /\ UNCHANGED <<healthVars, sock, conn, hub, member, overtaken, mailVars, timer, callVars, left>>

\* deviceTTL runs out when no pong comes.
PresenceExpires(d) ==
  /\ presence[d] # None /\ sock[d] = NoConn
  /\ presence' = [presence EXCEPT ![d] = None] /\ member' = [member EXCEPT ![d] = FALSE]
  /\ UNCHANGED <<healthVars, sock, conn, hub, overtaken, mailVars, timer, callVars, left>>

\* The pod's read loop ends.
ReadFails(c) ==
  /\ conn[c].pc = "read" /\ ~Live(c)
  /\ Goto(c, "closed")
  /\ UNCHANGED <<healthVars, sock, hub, presence, member, overtaken, mailVars, timer, callVars, left>>

SessionsOf(kind) == {k \in shared : (k \in Conferences) = kind}

\* OnConnClosed and OnDisconnect, for the pod's current connection only: the
\* conference ends, a call gets a grace timer.
OnConnClosed(c) ==
  LET p == Pod(c)
      d == Phone(c)
      confs == SessionsOf(TRUE) \cap active[p]
  IN  /\ conn[c].pc = "closed"
      /\ Goto(c, "unregister")
      /\ IF hub[p][d] # c THEN UNCHANGED <<timer, callVars>>
         ELSE \/ /\ SessionsOf(TRUE) # {} /\ UNCHANGED timer
                 /\ active' = [active EXCEPT ![p] = @ \ confs]
                 /\ shared' = shared \ confs
                 /\ job' = [job EXCEPT ![p] = [k \in Sessions |->
                      IF k \in confs THEN [pc |-> "row", known |-> TRUE] ELSE @[k]]]
              \/ /\ SessionsOf(TRUE) = {} /\ SessionsOf(FALSE) # {}
                 /\ timer' = [timer EXCEPT ![p][d] = "armed"]
                 /\ UNCHANGED callVars
              \/ shared = {} /\ UNCHANGED <<timer, callVars>>
      /\ UNCHANGED <<healthVars, sock, hub, presence, member, overtaken, mailVars, left>>

\* Unregister: nothing to do for a connection that was replaced.
Release(c) == conn' = [conn EXCEPT ![c] = Free] /\ due' = due \ {c}
                /\ got' = [got EXCEPT ![c] = 0]
Unregister(c) ==
  /\ conn[c].pc = "unregister"
  /\ \/ /\ hub[Pod(c)][Phone(c)] = c
        /\ hub' = [hub EXCEPT ![Pod(c)][Phone(c)] = NoConn]
        /\ Goto(c, "offline") /\ due' = due \ {c} /\ UNCHANGED got
     \/ hub[Pod(c)][Phone(c)] # c /\ Release(c) /\ UNCHANGED hub
  /\ UNCHANGED <<healthVars, sock, presence, member, overtaken, mail, timer, callVars, left>>

\* Mutant: the record is deleted whoever wrote it.
MutDeleteAnyRecord(c) ==
  /\ conn[c].pc = "offline"
  /\ presence' = [presence EXCEPT ![Phone(c)] = None]
  /\ member' = [member EXCEPT ![Phone(c)] = FALSE]
  /\ Release(c)
  /\ UNCHANGED <<healthVars, sock, hub, overtaken, mail, timer, callVars, left>>

\* SetOffline: the script deletes the record unless another pod's is in it.
SetOffline(c) ==
  LET d == Phone(c)
      mine == presence[d] \in {None, Bare, Pod(c)}
  IN  /\ conn[c].pc = "offline"
      /\ presence' = IF mine THEN [presence EXCEPT ![d] = None] ELSE presence
      /\ member' = IF mine THEN [member EXCEPT ![d] = FALSE] ELSE member
      /\ overtaken' = IF mine /\ sock[d] # NoConn THEN overtaken \cup {d} ELSE overtaken
      /\ Release(c)
      /\ UNCHANGED <<healthVars, sock, hub, mail, timer, callVars, left>>

-----------------------------------------------------------------------------
(* The grace window.                                                       *)

HardwareOnlineOnLine(d) == presence[d] \in Pods

\* Mutant: what the timer saw when it was armed is good enough.
MutNoRecheck(p, d) ==
  /\ timer[p][d] = "armed"
  /\ timer' = [timer EXCEPT ![p][d] = "expired"]
  /\ UNCHANGED <<healthVars, linkVars, mailVars, callVars, left>>

\* The timer fires, and asks Redis whether the device is back.
GraceExpires(p, d) ==
  /\ timer[p][d] = "armed"
  /\ timer' = [timer EXCEPT ![p][d] = IF HardwareOnlineOnLine(d) THEN "none" ELSE "expired"]
  /\ UNCHANGED <<healthVars, linkVars, mailVars, callVars, left>>

-----------------------------------------------------------------------------
(* Calls and conferences.                                                  *)

\* OnCallInitiated and CreateConferencePersistent, on the caller's pod.
Start(p, k) ==
  /\ k \in left.keys /\ row[k] = "none" /\ shared = {}
  /\ \A q \in Pods : job[q][k] = NoJob
  /\ \A q \in Pods, j \in Sessions : job[q][j].pc # "share" /\ j \notin active[q]
  /\ \E c \in Conns : Reading(c) /\ Pod(c) = p
  /\ active' = [active EXCEPT ![p] = @ \cup {k}]
  /\ job' = [job EXCEPT ![p][k] = [pc |-> "share", known |-> TRUE]]
  /\ \/ k \in Conferences /\ shared' = shared \cup {k} /\ UNCHANGED row
     \/ k \notin Conferences /\ row' = [row EXCEPT ![k] = "open"] /\ UNCHANGED shared
  /\ UNCHANGED <<sess, hmail, deck, linkVars, mailVars, timer, left>>

\* The other half, Redis or the row, and the session of the pod.
Started(p, k) ==
  /\ job[p][k].pc = "share"
  /\ job' = [job EXCEPT ![p][k] = NoJob]
  /\ shared' = shared \cup {k} /\ row' = [row EXCEPT ![k] = "open"]
  /\ Init_(p, k)
  /\ UNCHANGED <<hmail, deck, linkVars, mailVars, timer, active, left>>

\* OnCallEndedWithReason: only the pod that started the call knows its session.
CallEnds(p, k) ==
  /\ job' = [job EXCEPT ![p][k] = [pc |-> "redis", known |-> k \in active[p]]]
  /\ active' = [active EXCEPT ![p] = @ \ {k}]
  /\ UNCHANGED shared

\* EndConferencePersistent and DropMemberPersistent: Redis and the memory of the
\* pod in one critical section.
ConferenceEnds(p, k) ==
  /\ k \in active[p]
  /\ job' = [job EXCEPT ![p][k] = [pc |-> "row", known |-> TRUE]]
  /\ active' = [active EXCEPT ![p] = @ \ {k}]
  /\ shared' = shared \ {k}

\* handleHangup.
Hangup(c, k) ==
  /\ Reading(c) /\ k \in shared /\ job[Pod(c)][k] = NoJob
  /\ IF k \in Conferences THEN ConferenceEnds(Pod(c), k) ELSE CallEnds(Pod(c), k)
  /\ UNCHANGED <<healthVars, linkVars, mailVars, timer, left>>

\* endActiveCallsAsHangup after the grace window.
GraceEndsCall(p, d) ==
  /\ timer[p][d] = "expired"
  /\ timer' = [timer EXCEPT ![p][d] = "none"]
  /\ \/ \E k \in SessionsOf(FALSE) : job[p][k] = NoJob /\ CallEnds(p, k)
     \/ SessionsOf(FALSE) = {} /\ UNCHANGED callVars
  /\ UNCHANGED <<healthVars, linkVars, mailVars, left>>

\* handleCallDisconnect and handleConferenceKick, on any pod.
ForceEnd(p, k) ==
  /\ row[k] = "open" /\ job[p][k] = NoJob
  /\ left.forced > 0 /\ left' = [left EXCEPT !.forced = @ - 1]
  /\ NotifyDisconnected(p, k)
  /\ \/ k \notin Conferences /\ CallEnds(p, k)
     \/ k \in Conferences /\ ConferenceEnds(p, k)
     \/ k \in Conferences /\ k \notin active[p] /\ UNCHANGED callVars
  /\ UNCHANGED <<row, linkVars, mailVars, timer>>

RemoveFromRedis(p, k) ==
  /\ job[p][k].pc = "redis"
  /\ shared' = shared \ {k}
  /\ job' = [job EXCEPT ![p][k].pc = "evict"]
  /\ UNCHANGED <<healthVars, linkVars, mailVars, timer, active, left>>

EvictStep(p, k) ==
  /\ job[p][k].pc = "evict"
  /\ job' = [job EXCEPT ![p][k] = IF k \in Conferences THEN NoJob ELSE [@ EXCEPT !.pc = "row"]]
  /\ IF job[p][k].known THEN Evict(p, k) ELSE UNCHANGED <<sess, hmail, deck>>
  /\ UNCHANGED <<row, linkVars, mailVars, timer, active, shared, left>>

RowStep(p, k) ==
  /\ job[p][k].pc = "row"
  /\ row' = [row EXCEPT ![k] = "ended"]
  /\ job' = [job EXCEPT ![p][k] = IF k \in Conferences THEN [@ EXCEPT !.pc = "evict"] ELSE NoJob]
  /\ UNCHANGED <<sess, hmail, deck, linkVars, mailVars, timer, active, shared, left>>

\* handleLinkHealth: the session is looked up in Redis, and recorded after that.
LookUp(c, k) ==
  /\ Reading(c) /\ k \in shared
  /\ left.samples > 0 /\ left' = [left EXCEPT !.samples = @ - 1]
  /\ conn' = [conn EXCEPT ![c].pc = "record", ![c].key = k]
  /\ UNCHANGED <<healthVars, sock, hub, presence, member, overtaken, mailVars, timer, callVars>>

RecordSample(c) ==
  /\ conn[c].pc = "record"
  /\ Record(Pod(c), conn[c].key)
  /\ conn' = [conn EXCEPT ![c].pc = "read", ![c].key = None]
  /\ UNCHANGED <<sock, hub, presence, member, overtaken, mailVars, timer, callVars, left>>

-----------------------------------------------------------------------------
Rest == UNCHANGED <<linkVars, mailVars, timer, callVars, left>>

Connection(c) ==
  \/ SetOnline(c) \/ OnReconnect(c) \/ ReadFails(c) \/ OnConnClosed(c)
  \/ Unregister(c) \/ SetOffline(c) \/ RecordSample(c)

Work(p) ==
  \/ deliverFromRedis(p)
  \/ applyRemote(p) /\ Rest
  \/ \E k \in Sessions :
       \/ Started(p, k) \/ RemoveFromRedis(p, k) \/ EvictStep(p, k) \/ RowStep(p, k)
       \/ sweepIdleSessions(p, k) /\ Rest
       \/ k \notin shared /\ Ages(p, k) /\ Rest
  \/ \E d \in Phones : GraceExpires(p, d) \/ GraceEndsCall(p, d)

Deck(w) == (GetSession(w) \/ subscribeSession(w) \/ RecheckEnded(w)) /\ Rest

Next ==
  \/ \E c \in Conns : Connection(c) \/ TouchLastSeen(c)
  \/ \E c \in Conns, p \in Pods, d \in Phones : Register(c, p, d)
  \/ \E d \in Phones : ConnectionLost(d) \/ PresenceExpires(d)
  \/ \E p \in Pods : Work(p)
  \/ \E p \in Pods, d \in Phones : SendTo(p, d)
  \/ \E p \in Pods, k \in Sessions : Start(p, k) \/ ForceEnd(p, k)
  \/ \E c \in Conns, k \in Sessions : Hangup(c, k) \/ LookUp(c, k)
  \/ \E w \in Watchers :
       \/ Deck(w)
       \/ CloseDeck(w) /\ Rest
       \/ \E p \in Pods, k \in Sessions :
            /\ left.decks > 0 /\ left' = [left EXCEPT !.decks = @ - 1]
            /\ OpenDeck(w, p, k)
            /\ UNCHANGED <<linkVars, mailVars, timer, callVars>>

\* The goroutines of the connections, the pods' subscriptions, timers and
\* sweeps, and the decks' handlers run on.
Fairness ==
  /\ WF_vars(\E c \in Conns : Connection(c))
  /\ \A p \in Pods : WF_vars(Work(p))
  /\ WF_vars(\E w \in Watchers : Deck(w))

Spec == Init /\ [][Next]_vars /\ Fairness

-----------------------------------------------------------------------------
Connected == [pc : {"online", "announce", "read", "record", "closed", "unregister", "offline"},
              pod : Pods, phone : Phones, key : Sessions \cup {None}]
LinkTypes ==
  /\ sock \in [Phones -> Conns \cup {NoConn}]
  /\ conn \in [Conns -> Connected \cup {Free}]
  /\ \A c \in Conns : conn[c].pc = "record" => conn[c].key \in Sessions
  /\ hub \in [Pods -> [Phones -> Conns \cup {NoConn}]]
  /\ presence \in [Phones -> Pods \cup {None, Bare}]
  /\ member \in [Phones -> BOOLEAN]
  /\ overtaken \subseteq Phones
Letter == [type : {"number", "reconnect"}, phone : Phones]
MailTypes ==
  /\ mail \in [Pods -> Seq(Letter)]
  /\ due \subseteq Conns
  /\ got \in [Conns -> Nat]
  /\ timer \in [Pods -> [Phones -> {"none", "armed", "expired"}]]
Job == [pc : {"none", "share", "redis", "evict", "row"}, known : BOOLEAN]
CallTypes ==
  /\ active \in [Pods -> SUBSET Sessions]
  /\ shared \subseteq Sessions
  /\ job \in [Pods -> [Sessions -> Job]]

\* Types: connections, presence records and grace timers of the relay and the
\* hub, and the sessions in a pod's memory and in Redis; a goroutine that
\* records a sample has a session to record it for.
TypeOK == LinkTypes /\ MailTypes /\ CallTypes /\ HealthTypes /\ left \in Budget

\* A phone whose connection has been announced has a presence record and is on
\* its line, whatever the pod it left does later, except when a presence write
\* of an older connection to the same pod comes last (SetOnline, SetOffline:
\* "an unconditional delete here would erase the live record").
PresenceIsLive ==
  \A d \in Phones : sock[d] # NoConn /\ conn[sock[d]].pc \in {"announce", "read", "record"} =>
    d \in overtaken \/ (presence[d] \in Pods /\ member[d])

\* A grace window does not run out on a phone that is back, on this pod or on
\* another, even if its reconnect was announced before the timer was armed
\* (startGraceTimer, HardwareOnlineOnLine, PublishReconnect).
CallSurvivesMove ==
  [][\A p \in Pods, d \in Phones : timer[p][d] = "armed" /\ timer'[p][d] = "expired" =>
       d \in overtaken \/ sock[d] = NoConn \/ conn[sock[d]].pc = "online"]_vars

\* A message to a line reaches each of its connections, wherever they are, and
\* none twice (SendTo, Subscribe, deliverFromRedis).
EveryHandsetOnce ==
  /\ \A c \in Conns : got[c] <= 1
  /\ (\A p \in Pods : mail[p] = <<>>) => \A c \in due : got[c] = 1

\* Nothing is under way for session k.
Settled(k) ==
  /\ \A p \in Pods : job[p][k] = NoJob /\ hmail[p] = <<>>

\* When a conference has ended and the pods have heard of it, no deck shows it
\* as live, even one that was opened while it ended (EndConferencePersistent,
\* handleConferenceLinkHealthStream: the liveness check after subscribing).
ShowsLive(w, k) == deck[w].pc \in {"streaming", "stranded"} /\ deck[w].key = k
EndedConferenceHasNoDeck ==
  \A w \in Watchers, k \in Conferences :
    ShowsLive(w, k) /\ row[k] = "ended" => ~Settled(k)

\* A deck of a call or conference that has ended, in its row and in Redis, is
\* closed in the end: by the eviction, by the check after subscribing or, where
\* both missed it, by the sweep (subscribedSessionTTL, sweepIdleSessions).  It
\* is about the decks that subscribed to the session of the map.
DecksClose ==
  \A w \in Watchers, k \in Sessions :
    (deck[w].pc = "streaming" /\ deck[w].key = k /\ row[k] = "ended" /\ k \notin shared)
      ~> (deck[w].pc # "streaming" \/ deck[w].key # k \/ k \in shared)

\* The comments say it of every deck: the check after subscribing catches what
\* the eviction missed, and a session created late lives no longer than the
\* sweep allows.  A call's eviction comes before its row, so a deck that held
\* the session when it was evicted passes the check, and no sweep will find it.
EveryDeckCloses ==
  \A w \in Watchers, k \in Sessions :
    (ShowsLive(w, k) /\ row[k] = "ended" /\ k \notin shared) ~> (~ShowsLive(w, k) \/ k \in shared)
=============================================================================
