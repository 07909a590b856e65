----------------------------- MODULE HealthStore -----------------------------
(***************************************************************************)
(* Link health on a cluster: the telemetry sessions each replica keeps of  *)
(* a call or a conference, the samples and lifecycle events the replicas   *)
(* publish to each other, the idle sweep, and the streams (decks) that     *)
(* watch a session from a browser.                                         *)
(*                                                                         *)
(* A session's rings are abstracted to how long it has been idle: 0 is     *)
(* recent, 1 is past idleSessionTTL, 2 past subscribedSessionTTL.  The     *)
(* module that composes this one owns the calls and says when a session    *)
(* starts and ends.                                                        *)
(***************************************************************************)
EXTENDS Naturals, Sequences, FiniteSets

CONSTANTS
  Pods,         \* the server's replicas
  Sessions,     \* calls and conferences: SessionKey
  Watchers,     \* browsers that open a deck
  MaxMail       \* envelopes on their way to a pod

ASSUME PodsAssumption == Pods # {} /\ Sessions # {}

VARIABLES
  sess,         \* each pod's sessions map
  hmail,        \* what each pod has to apply of digits:linkhealth
  deck,         \* the streams
  row           \* each session's row in the database: "none", "open" or "ended"

healthVars == <<sess, hmail, deck, row>>

Absent == [age |-> 3, subs |-> {}]
NoDeck == [pc |-> "idle", pod |-> CHOOSE p \in Pods : TRUE,
           key |-> CHOOSE k \in Sessions : TRUE]

Envelope == [kind : {"sample", "disconnect", "evict"}, key : Sessions]
Telemetry == [age : 0 .. 3, subs : SUBSET Watchers]
DeckPCs == {"idle", "checked", "got", "subscribed", "streaming", "told", "done",
            "missed", "orphan", "stranded"}
Stream == [pc : DeckPCs, pod : Pods, key : Sessions]
HealthTypes ==
  /\ sess \in [Pods -> [Sessions -> Telemetry]]
  /\ hmail \in [Pods -> Seq(Envelope)]
  /\ deck \in [Watchers -> Stream]
  /\ row \in [Sessions -> {"none", "open", "ended"}]

HealthInit ==
  /\ sess = [p \in Pods |-> [k \in Sessions |-> Absent]]
  /\ hmail = [p \in Pods |-> <<>>]
  /\ deck = [w \in Watchers |-> NoDeck]
  /\ row = [k \in Sessions |-> "none"]

-----------------------------------------------------------------------------
(* The store.                                                              *)

\* A session is created by whoever needs it first, and stamped.
getOrCreateSession(sr) == [sr EXCEPT !.age = 0]

Holds(w, p, k) == deck[w].pc = "got" /\ deck[w].pod = p /\ deck[w].key = k

\* The session goes; its subscribers' channels are closed.  A deck that has got
\* the session and has yet to subscribe keeps the rings that are out of the map.
evictSession(p, k) ==
  /\ sess' = [sess EXCEPT ![p][k] = Absent]
  /\ deck' = [w \in Watchers |->
       IF w \in sess[p][k].subs /\ deck[w].pc \in {"streaming", "told"}
         THEN [deck[w] EXCEPT !.pc = "done"]
       ELSE IF Holds(w, p, k) THEN [deck[w] EXCEPT !.pc = "missed"] ELSE deck[w]]

\* The other pods get an envelope each.
Others(p) == Pods \ {p}
CanPublish(p) == \A q \in Others(p) : Len(hmail[q]) < MaxMail
publish(p, env) ==
  /\ CanPublish(p)
  /\ hmail' = [q \in Pods |-> IF q = p THEN hmail[q] ELSE Append(hmail[q], env)]

\* Record: a sample a phone sent to pod p.
Record(p, k) ==
  /\ sess' = [sess EXCEPT ![p][k] = getOrCreateSession(@)]
  /\ publish(p, [kind |-> "sample", key |-> k])
  /\ UNCHANGED <<deck, row>>

Init_(p, k) == sess' = [sess EXCEPT ![p][k] = getOrCreateSession(@)]

\* Evict: published first, then applied here.
Evict(p, k) == publish(p, [kind |-> "evict", key |-> k]) /\ evictSession(p, k)

\* A disconnect reaches the decks that exist and creates nothing.
Told(p, k) == [w \in Watchers |->
  IF w \in sess[p][k].subs /\ deck[w].pc = "streaming"
    THEN [deck[w] EXCEPT !.pc = "told"] ELSE deck[w]]

NotifyDisconnected(p, k) ==
  /\ publish(p, [kind |-> "disconnect", key |-> k])
  /\ deck' = Told(p, k)
  /\ UNCHANGED sess

\* RunRedis and applyRemote: another pod's event, in the order it was published.
applyRemote(p) ==
  /\ hmail[p] # <<>>
  /\ hmail' = [hmail EXCEPT ![p] = Tail(@)]
  /\ LET env == Head(hmail[p])
     IN  \/ /\ env.kind = "sample"
            /\ sess' = [sess EXCEPT ![p][env.key] = getOrCreateSession(@)]
            /\ UNCHANGED deck
         \/ env.kind = "disconnect" /\ deck' = Told(p, env.key) /\ UNCHANGED sess
         \/ env.kind = "evict" /\ evictSession(p, env.key)
  /\ UNCHANGED row

\* Mutant: a session somebody watches is never swept.
MutWatchedStays(p, k) ==
  /\ sess[p][k].age \in {1, 2} /\ sess[p][k].subs = {}
  /\ evictSession(p, k)
  /\ UNCHANGED <<hmail, row>>

\* sweepIdleSessions: idle sessions go, long idle ones with their subscribers.
sweepIdleSessions(p, k) ==
  /\ \/ sess[p][k].age \in {1, 2} /\ sess[p][k].subs = {}
     \/ sess[p][k].age = 2
  /\ evictSession(p, k)
  /\ UNCHANGED <<hmail, row>>

\* Time passes over a session nobody reports to: minutes, which are more than a
\* handler takes from one statement to the next.
Ages(p, k) ==
  /\ sess[p][k].age < 2 /\ \A w \in Watchers : ~Holds(w, p, k)
  /\ sess' = [sess EXCEPT ![p][k].age = @ + 1]
  /\ UNCHANGED <<hmail, deck, row>>

-----------------------------------------------------------------------------
(* A deck: handleCallLinkHealthStream, handleConferenceLinkHealthStream.   *)

\* An ended call is not found.
OpenDeck(w, p, k) ==
  /\ deck[w].pc = "idle" /\ row[k] = "open"
  /\ deck' = [deck EXCEPT ![w] = [pc |-> "checked", pod |-> p, key |-> k]]
  /\ UNCHANGED <<sess, hmail, row>>

\* subscribeSession: the session is got under the map's lock,
GetSession(w) ==
  /\ deck[w].pc = "checked"
  /\ sess' = [sess EXCEPT ![deck[w].pod][deck[w].key] = getOrCreateSession(@)]
  /\ deck' = [deck EXCEPT ![w].pc = "got"]
  /\ UNCHANGED <<hmail, row>>

\* and the subscriber added under the session's, whether the map still has it
\* or not.
subscribeSession(w) ==
  \/ /\ deck[w].pc = "got"
     /\ sess' = [sess EXCEPT ![deck[w].pod][deck[w].key].subs = @ \cup {w}]
     /\ deck' = [deck EXCEPT ![w].pc = "subscribed"]
     /\ UNCHANGED <<hmail, row>>
  \/ /\ deck[w].pc = "missed"
     /\ deck' = [deck EXCEPT ![w].pc = "orphan"]
     /\ UNCHANGED <<sess, hmail, row>>

Unsubscribed(w) ==
  [p \in Pods |-> [k \in Sessions |-> [sess[p][k] EXCEPT !.subs = @ \ {w}]]]

\* What the stream runs on: the map's session, or one nobody will close.
Streams(w) ==
  IF deck[w].pc = "orphan" THEN "stranded"
  ELSE IF w \in sess[deck[w].pod][deck[w].key].subs THEN "streaming" ELSE "done"

\* Mutant: the row is not read again.
MutNoLiveCheck(w) ==
  /\ deck[w].pc \in {"subscribed", "orphan"}
  /\ deck' = [deck EXCEPT ![w].pc = Streams(w)]
  /\ UNCHANGED <<sess, hmail, row>>

\* The row is read again after subscribing; a closed channel ends the stream.
RecheckEnded(w) ==
  LET pc == IF row[deck[w].key] = "ended" THEN "done" ELSE Streams(w)
  IN  /\ deck[w].pc \in {"subscribed", "orphan"}
      /\ deck' = [deck EXCEPT ![w].pc = pc]
      /\ sess' = IF pc = "done" THEN Unsubscribed(w) ELSE sess
      /\ UNCHANGED <<hmail, row>>

\* The browser goes away, or closes a deck that has ended.
CloseDeck(w) ==
  /\ deck[w].pc \in {"streaming", "stranded", "told", "done"}
  /\ deck' = [deck EXCEPT ![w] = NoDeck]
  /\ sess' = Unsubscribed(w)
  /\ UNCHANGED <<hmail, row>>
=============================================================================
