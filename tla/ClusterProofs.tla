---------------------------- MODULE ClusterProofs ----------------------------
(***************************************************************************)
(* Proofs about Cluster, for every set of pods, phones, connections,       *)
(* sessions and decks: a connected phone keeps its presence record, a      *)
(* grace window never runs out on a phone that is back, no deck shows a    *)
(* conference that has ended as live, and a message reaches each           *)
(* connection of its line, none of them twice.                             *)
(***************************************************************************)
EXTENDS Cluster, TLAPS

(***************************************************************************)
(* The inductive invariant.  The links: the socket a phone has is served   *)
(* by the goroutine of its own connection, which has not begun to end      *)
(* (SocketsServed), and with that PresenceIsLive is inductive.  The decks: *)
(* one that streams is subscribed where it was opened (StreamsSubscribed); *)
(* a pod that is ending a session has forgotten it, and an end of a        *)
(* conference always knows it (EndsForget, EndsKnown); and as long as a    *)
(* deck streams an ended conference, a pod still has the eviction to       *)
(* publish or the deck's pod has it to apply (EvictionUnderWay).           *)
(***************************************************************************)
Serving == {"online", "announce", "read", "record"}
Announced == {"announce", "read", "record"}

SocketsServed ==
  \A d \in Phones : sock[d] # NoConn =>
    conn[sock[d]].pc \in Serving /\ conn[sock[d]].phone = d

LinkInv == LinkTypes /\ SocketsServed /\ PresenceIsLive

StreamsSubscribed ==
  \A w \in Watchers : deck[w].pc = "streaming" => w \in sess[deck[w].pod][deck[w].key].subs

Ending(p, k) == job[p][k].pc \in {"redis", "row", "evict"}
EndsForget == \A p \in Pods, k \in Sessions : Ending(p, k) => k \notin active[p]
EndsKnown == \A p \in Pods, k \in Conferences : job[p][k].pc # "none" => job[p][k].known

Evicting(k) == \E p \in Pods : job[p][k].pc = "evict"
Pending(m, k) == \E i \in 1 .. Len(m) : m[i] = [kind |-> "evict", key |-> k]
Shows(w, k) == deck[w].pc = "streaming" /\ deck[w].key = k
EvictionUnderWay ==
  \A w \in Watchers, k \in Conferences :
    Shows(w, k) /\ row[k] = "ended" => Evicting(k) \/ Pending(hmail[deck[w].pod], k)

DeckInv ==
  /\ HealthTypes /\ CallTypes
  /\ StreamsSubscribed /\ EndsForget /\ EndsKnown /\ EvictionUnderWay

IInv == LinkInv /\ MailTypes /\ left \in Budget /\ DeckInv

USE PodsAssumption, ConferencesAssumption, NamesAssumption
-----------------------------------------------------------------------------
(* The links.                                                              *)

ConnPCs == Serving \cup {"closed", "unregister", "offline"}

LEMMA FreeIsNot == Free \notin Connected /\ Free.pc = "free"
  BY DEF Free, Connected

(* A goroutine that is at work has a pod and a phone.                      *)
LEMMA AtWork ==
  ASSUME LinkTypes, NEW c \in Conns, conn[c].pc # "free"
  PROVE  /\ conn[c] \in Connected
         /\ conn[c].pod \in Pods /\ conn[c].phone \in Phones /\ conn[c].pc \in ConnPCs
         /\ conn[c].key \in Sessions \cup {None}
  <1>1. conn[c] \in Connected BY FreeIsNot DEF LinkTypes
  <1> QED BY <1>1 DEF Connected, ConnPCs, Serving

(* One goroutine moves.                                                    *)
LEMMA Goes ==
  ASSUME LinkTypes, NEW c \in Conns, conn[c].pc # "free", NEW pc \in ConnPCs, Goto(c, pc)
  PROVE  /\ conn' \in [Conns -> Connected \cup {Free}]
         /\ conn'[c].pc = pc /\ conn'[c].key = conn[c].key
         /\ conn'[c].pod = conn[c].pod /\ conn'[c].phone = conn[c].phone
         /\ \A x \in Conns : x # c => conn'[x] = conn[x]
  <1> DEFINE r == [conn[c] EXCEPT !.pc = pc]
  <1>1. conn[c] \in Connected BY AtWork
  <1>2. /\ r \in Connected /\ r.pc = pc /\ r.pod = conn[c].pod
        /\ r.phone = conn[c].phone /\ r.key = conn[c].key
    BY <1>1 DEF Connected, ConnPCs, Serving
  <1>3. conn' = [conn EXCEPT ![c] = r] BY DEF Goto
  <1> HIDE DEF r
  <1> QED BY <1>2, <1>3 DEF LinkTypes

(* A goroutine that moves without leaving the phone that is connected      *)
(* through it, and without a presence write.                               *)
LEMMA LinkStep ==
  ASSUME LinkInv, NEW c \in Conns,
         conn' \in [Conns -> Connected \cup {Free}], \A x \in Conns : x # c => conn'[x] = conn[x],
         conn'[c].pc = "record" => conn'[c].key \in Sessions,
         \A d \in Phones : sock[d] = c =>
           /\ conn'[c].pc \in Serving /\ conn'[c].phone = d
           /\ conn'[c].pc \in Announced => conn[c].pc \in Announced,
         hub' \in [Pods -> [Phones -> Conns \cup {NoConn}]],
         UNCHANGED <<sock, presence, member, overtaken>>
  PROVE  LinkInv'
  <1>1. \A d \in Phones : sock[d] # NoConn => sock[d] \in Conns BY DEF LinkInv, LinkTypes
  <1>2. LinkTypes'
    <2>1. \A x \in Conns : conn'[x].pc = "record" => conn'[x].key \in Sessions
      BY DEF LinkInv, LinkTypes
    <2> QED BY <2>1 DEF LinkInv, LinkTypes
  <1>3. SocketsServed' BY <1>1 DEF LinkInv, SocketsServed
  <1>4. PresenceIsLive' BY <1>1 DEF LinkInv, PresenceIsLive, Announced
  <1> QED BY <1>2, <1>3, <1>4 DEF LinkInv

(* The phones' presence records and sockets change, no goroutine does.     *)
LEMMA RecordStep ==
  ASSUME LinkInv, UNCHANGED <<conn, hub>>,
         sock' \in [Phones -> Conns \cup {NoConn}], presence' \in [Phones -> Pods \cup {None, Bare}],
         member' \in [Phones -> BOOLEAN], overtaken' = overtaken,
         \A d \in Phones : sock'[d] # NoConn =>
           /\ sock[d] = sock'[d]
           /\ d \in overtaken \/ (presence'[d] = presence[d] /\ member'[d] = member[d])
  PROVE  LinkInv'
  <1>1. LinkTypes' BY DEF LinkInv, LinkTypes
  <1>2. SocketsServed' BY DEF LinkInv, SocketsServed
  <1>3. PresenceIsLive' BY DEF LinkInv, PresenceIsLive
  <1> QED BY <1>1, <1>2, <1>3 DEF LinkInv

LEMMA ConnectionLostLink ==
  ASSUME LinkInv, NEW d \in Phones, ConnectionLost(d)
  PROVE  LinkInv'
  BY RecordStep DEF ConnectionLost, LinkInv, LinkTypes

LEMMA TouchLastSeenLink ==
  ASSUME LinkInv, NEW c \in Conns, TouchLastSeen(c)
  PROVE  LinkInv'
  <1>1. /\ conn[c].pc = "read" /\ sock[Phone(c)] = c /\ presence[Phone(c)] = None
        /\ presence' = [presence EXCEPT ![Phone(c)] = Bare]
        /\ UNCHANGED <<sock, conn, hub, member, overtaken>>
    BY DEF TouchLastSeen, Reading, Live
  <1>2. Phone(c) \in Phones BY <1>1, AtWork DEF LinkInv, Phone
  <1>3. Phone(c) \in overtaken BY <1>1, <1>2 DEF LinkInv, PresenceIsLive
  <1>4. /\ presence' \in [Phones -> Pods \cup {None, Bare}]
        /\ \A d \in Phones : d # Phone(c) => presence'[d] = presence[d]
    BY <1>1, <1>2 DEF LinkInv, LinkTypes
  <1> QED BY <1>1, <1>2, <1>3, <1>4, RecordStep DEF LinkInv, LinkTypes

LEMMA PresenceExpiresLink ==
  ASSUME LinkInv, NEW d \in Phones, PresenceExpires(d)
  PROVE  LinkInv'
  <1>1. /\ sock[d] = NoConn /\ presence' = [presence EXCEPT ![d] = None]
        /\ member' = [member EXCEPT ![d] = FALSE]
        /\ UNCHANGED <<sock, conn, hub, overtaken>>
    BY DEF PresenceExpires
  <1>2. /\ presence' \in [Phones -> Pods \cup {None, Bare}]
        /\ \A x \in Phones : x # d => presence'[x] = presence[x]
    BY <1>1 DEF LinkInv, LinkTypes
  <1>3. member' \in [Phones -> BOOLEAN] /\ \A x \in Phones : x # d => member'[x] = member[x]
    BY <1>1 DEF LinkInv, LinkTypes
  <1> QED BY <1>1, <1>2, <1>3, RecordStep DEF LinkInv, LinkTypes

LEMMA RegisterLink ==
  ASSUME LinkInv, NEW c \in Conns, NEW p \in Pods, NEW d \in Phones, Register(c, p, d)
  PROVE  LinkInv'
  <1> DEFINE r == [pc |-> "online", pod |-> p, phone |-> d, key |-> None]
  <1>1. /\ conn[c] = Free /\ sock[d] = NoConn /\ sock' = [sock EXCEPT ![d] = c]
        /\ conn' = [conn EXCEPT ![c] = r] /\ hub' = [hub EXCEPT ![p][d] = c]
        /\ UNCHANGED <<presence, member, overtaken>>
    BY DEF Register
  <1>2. r \in Connected /\ r.pc = "online" /\ r.phone = d BY DEF Connected
  <1> HIDE DEF r
  <1>3. /\ conn' \in [Conns -> Connected \cup {Free}] /\ conn'[c] = r
        /\ \A x \in Conns : x # c => conn'[x] = conn[x]
    BY <1>1, <1>2 DEF LinkInv, LinkTypes
  <1>4. /\ sock' \in [Phones -> Conns \cup {NoConn}] /\ sock'[d] = c
        /\ \A x \in Phones : x # d => sock'[x] = sock[x]
    BY <1>1 DEF LinkInv, LinkTypes
  <1>5. \A x \in Phones : sock[x] # NoConn => sock[x] \in Conns /\ sock[x] # c
    BY <1>1, FreeIsNot DEF LinkInv, LinkTypes, SocketsServed, Serving
  <1>6. hub' \in [Pods -> [Phones -> Conns \cup {NoConn}]]
    BY <1>1 DEF LinkInv, LinkTypes
  <1>7. LinkTypes'
    <2>1. \A x \in Conns : conn'[x].pc = "record" => conn'[x].key \in Sessions
      BY <1>2, <1>3 DEF LinkInv, LinkTypes
    <2> QED BY <1>1, <1>3, <1>4, <1>6, <2>1 DEF LinkInv, LinkTypes
  <1>8. SocketsServed' BY <1>2, <1>3, <1>4, <1>5 DEF LinkInv, SocketsServed, Serving
  <1>9. PresenceIsLive' BY <1>1, <1>2, <1>3, <1>4, <1>5 DEF LinkInv, PresenceIsLive
  <1> QED BY <1>7, <1>8, <1>9 DEF LinkInv

LEMMA SetOnlineLink ==
  ASSUME LinkInv, NEW c \in Conns, SetOnline(c)
  PROVE  LinkInv'
  <1> DEFINE d == Phone(c)
  <1>1. /\ conn[c].pc = "online" /\ Goto(c, "announce")
        /\ presence' = [presence EXCEPT ![d] = Pod(c)] /\ member' = [member EXCEPT ![d] = TRUE]
        /\ overtaken' = overtaken \ {d} /\ UNCHANGED <<sock, hub>>
    BY DEF SetOnline
  <1>2. d \in Phones /\ Pod(c) \in Pods BY <1>1, AtWork DEF LinkInv, Phone, Pod
  <1>3. /\ conn' \in [Conns -> Connected \cup {Free}]
        /\ conn'[c].pc = "announce" /\ conn'[c].phone = d
        /\ \A x \in Conns : x # c => conn'[x] = conn[x]
    BY <1>1, Goes DEF LinkInv, ConnPCs, Serving, Phone
  <1> HIDE DEF d
  <1>5. /\ presence' \in [Phones -> Pods \cup {None, Bare}] /\ presence'[d] \in Pods
        /\ \A x \in Phones : x # d => presence'[x] = presence[x]
    BY <1>1, <1>2 DEF LinkInv, LinkTypes
  <1>6. /\ member' \in [Phones -> BOOLEAN] /\ member'[d]
        /\ \A x \in Phones : x # d => member'[x] = member[x]
    BY <1>1, <1>2 DEF LinkInv, LinkTypes
  <1>7. \A x \in Phones : sock[x] # NoConn => sock[x] \in Conns BY DEF LinkInv, LinkTypes
  <1>8. LinkTypes'
    <2>1. \A x \in Conns : conn'[x].pc = "record" => conn'[x].key \in Sessions
      BY <1>3 DEF LinkInv, LinkTypes
    <2> QED BY <1>1, <1>3, <1>5, <1>6, <2>1 DEF LinkInv, LinkTypes
  <1>9. \A x \in Phones : sock[x] = c => x = d
    <2>1. conn[c].phone = d BY DEF d, Phone
    <2> QED BY <2>1 DEF LinkInv, SocketsServed
  <1>10. SocketsServed' BY <1>1, <1>3, <1>7, <1>9 DEF LinkInv, SocketsServed, Serving
  <1>11. PresenceIsLive' BY <1>1, <1>3, <1>5, <1>6, <1>7, <1>9 DEF LinkInv, PresenceIsLive
  <1> QED BY <1>8, <1>10, <1>11 DEF LinkInv

LEMMA SetOfflineLink ==
  ASSUME LinkInv, NEW c \in Conns, SetOffline(c)
  PROVE  LinkInv'
  <1> DEFINE d == Phone(c)
             mine == presence[d] \in {None, Bare, Pod(c)}
  <1>1. /\ conn[c].pc = "offline" /\ conn' = [conn EXCEPT ![c] = Free]
        /\ presence' = IF mine THEN [presence EXCEPT ![d] = None] ELSE presence
        /\ member' = IF mine THEN [member EXCEPT ![d] = FALSE] ELSE member
        /\ overtaken' = IF mine /\ sock[d] # NoConn THEN overtaken \cup {d} ELSE overtaken
        /\ UNCHANGED <<sock, hub>>
    BY DEF SetOffline, Release
  <1>2. d \in Phones BY <1>1, AtWork DEF LinkInv, Phone
  <1> HIDE DEF d, mine
  <1>3. /\ conn' \in [Conns -> Connected \cup {Free}] /\ conn'[c] = Free
        /\ \A x \in Conns : x # c => conn'[x] = conn[x]
    BY <1>1 DEF LinkInv, LinkTypes
  <1>4. /\ presence' \in [Phones -> Pods \cup {None, Bare}]
        /\ \A x \in Phones : x # d \/ ~ mine => presence'[x] = presence[x]
    BY <1>1, <1>2 DEF LinkInv, LinkTypes
  <1>5. /\ member' \in [Phones -> BOOLEAN]
        /\ \A x \in Phones : x # d \/ ~ mine => member'[x] = member[x]
    BY <1>1, <1>2 DEF LinkInv, LinkTypes
  <1>6. overtaken' \subseteq Phones /\ overtaken \subseteq overtaken'
    BY <1>1, <1>2 DEF LinkInv, LinkTypes
  <1>7. \A x \in Phones : sock[x] # NoConn => sock[x] \in Conns /\ sock[x] # c
    BY <1>1 DEF LinkInv, LinkTypes, SocketsServed, Serving
  <1>8. LinkTypes'
    <2>1. \A x \in Conns : conn'[x].pc = "record" => conn'[x].key \in Sessions
      BY <1>3, FreeIsNot DEF LinkInv, LinkTypes
    <2> QED BY <1>1, <1>3, <1>4, <1>5, <1>6, <2>1 DEF LinkInv, LinkTypes
  <1>9. SocketsServed' BY <1>1, <1>3, <1>7 DEF LinkInv, SocketsServed
  <1>10. PresenceIsLive'
    <2> SUFFICES ASSUME NEW x \in Phones, sock[x] # NoConn, conn'[sock[x]].pc \in Announced
                 PROVE  x \in overtaken' \/ (presence'[x] \in Pods /\ member'[x])
      BY <1>1 DEF PresenceIsLive, Announced
    <2>1. x \in overtaken \/ (presence[x] \in Pods /\ member[x])
      BY <1>3, <1>7 DEF LinkInv, PresenceIsLive, Announced
    <2>2. CASE x # d \/ ~ mine BY <1>4, <1>5, <1>6, <2>1, <2>2
    <2>3. CASE x = d /\ mine BY <1>1, <2>3
    <2> QED BY <2>2, <2>3
  <1> QED BY <1>8, <1>9, <1>10 DEF LinkInv

LEMMA OnReconnectLink ==
  ASSUME LinkInv, NEW c \in Conns, OnReconnect(c)
  PROVE  LinkInv'
  <1>1. /\ conn[c].pc = "announce" /\ Goto(c, "read")
        /\ UNCHANGED <<sock, hub, presence, member, overtaken>>
    BY DEF OnReconnect
  <1>2. /\ conn' \in [Conns -> Connected \cup {Free}]
        /\ conn'[c].pc = "read" /\ conn'[c].phone = conn[c].phone
        /\ \A x \in Conns : x # c => conn'[x] = conn[x]
    BY <1>1, Goes DEF LinkInv, ConnPCs, Serving
  <1>3. \A d \in Phones : sock[d] = c => conn[c].phone = d BY DEF LinkInv, SocketsServed
  <1>4. hub' \in [Pods -> [Phones -> Conns \cup {NoConn}]] BY <1>1 DEF LinkInv, LinkTypes
  <1> QED BY <1>1, <1>2, <1>3, <1>4, LinkStep DEF Serving, Announced

(* A goroutine whose phone is connected elsewhere, or nowhere, goes on.    *)
LEMMA UnservedStep ==
  ASSUME LinkInv, NEW c \in Conns, conn[c].pc # "free", NEW pc \in {"closed", "unregister", "offline"},
         Goto(c, pc), \A d \in Phones : sock[d] # c,
         hub' \in [Pods -> [Phones -> Conns \cup {NoConn}]],
         UNCHANGED <<sock, presence, member, overtaken>>
  PROVE  LinkInv'
  <1>1. /\ conn' \in [Conns -> Connected \cup {Free}] /\ conn'[c].pc = pc
        /\ \A x \in Conns : x # c => conn'[x] = conn[x]
    BY Goes DEF LinkInv, ConnPCs
  <1> QED BY <1>1, LinkStep

(* A goroutine that ends serves no phone.                                  *)
LEMMA EndedServesNone ==
  ASSUME LinkInv, NEW c \in Conns, conn[c].pc \notin Serving, NEW d \in Phones
  PROVE  sock[d] # c
  BY DEF LinkInv, SocketsServed

LEMMA ReadFailsLink ==
  ASSUME LinkInv, NEW c \in Conns, ReadFails(c)
  PROVE  LinkInv'
  <1>1. /\ conn[c].pc = "read" /\ Goto(c, "closed") /\ sock[conn[c].phone] # c
        /\ UNCHANGED <<sock, hub, presence, member, overtaken>>
    BY DEF ReadFails, Live, Phone
  <1>2. \A d \in Phones : sock[d] # c BY <1>1 DEF LinkInv, SocketsServed
  <1>3. hub' \in [Pods -> [Phones -> Conns \cup {NoConn}]] BY <1>1 DEF LinkInv, LinkTypes
  <1> QED BY <1>1, <1>2, <1>3, UnservedStep

LEMMA OnConnClosedLink ==
  ASSUME LinkInv, NEW c \in Conns, OnConnClosed(c)
  PROVE  LinkInv'
  <1>1. /\ conn[c].pc = "closed" /\ Goto(c, "unregister")
        /\ UNCHANGED <<sock, hub, presence, member, overtaken>>
    BY DEF OnConnClosed
  <1>2. \A d \in Phones : sock[d] # c BY <1>1, EndedServesNone DEF Serving
  <1>3. hub' \in [Pods -> [Phones -> Conns \cup {NoConn}]] BY <1>1 DEF LinkInv, LinkTypes
  <1> QED BY <1>1, <1>2, <1>3, UnservedStep

LEMMA UnregisterLink ==
  ASSUME LinkInv, NEW c \in Conns, Unregister(c)
  PROVE  LinkInv'
  <1>1. conn[c].pc = "unregister" /\ UNCHANGED <<sock, presence, member, overtaken>>
    BY DEF Unregister
  <1>2. \A d \in Phones : sock[d] # c BY <1>1, EndedServesNone DEF Serving
  <1>3. CASE hub[Pod(c)][Phone(c)] = c
    <2>1. Goto(c, "offline") /\ hub' = [hub EXCEPT ![Pod(c)][Phone(c)] = NoConn]
      BY <1>3 DEF Unregister
    <2>2. hub' \in [Pods -> [Phones -> Conns \cup {NoConn}]] BY <2>1 DEF LinkInv, LinkTypes
    <2> QED BY <1>1, <1>2, <2>1, <2>2, UnservedStep
  <1>4. CASE hub[Pod(c)][Phone(c)] # c
    <2>1. conn' = [conn EXCEPT ![c] = Free] /\ UNCHANGED hub
      BY <1>4 DEF Unregister, Release
    <2>2. hub' \in [Pods -> [Phones -> Conns \cup {NoConn}]] BY <2>1 DEF LinkInv, LinkTypes
    <2>3. /\ conn' \in [Conns -> Connected \cup {Free}] /\ conn'[c].pc = "free"
          /\ \A x \in Conns : x # c => conn'[x] = conn[x]
      BY <2>1, FreeIsNot DEF LinkInv, LinkTypes
    <2> QED BY <1>1, <1>2, <2>1, <2>2, <2>3, LinkStep
  <1> QED BY <1>3, <1>4

LEMMA LookUpLink ==
  ASSUME LinkInv, shared \subseteq Sessions, NEW c \in Conns, NEW k, LookUp(c, k)
  PROVE  LinkInv'
  <1> DEFINE r == [conn[c] EXCEPT !.pc = "record", !.key = k]
  <1>1. /\ conn[c].pc = "read" /\ k \in Sessions
        /\ conn' = [conn EXCEPT ![c].pc = "record", ![c].key = k]
        /\ UNCHANGED <<sock, hub, presence, member, overtaken>>
    BY DEF LookUp, Reading
  <1>2. conn[c] \in Connected BY <1>1, AtWork DEF LinkInv
  <1>3. r \in Connected /\ r.pc = "record" /\ r.key = k /\ r.phone = conn[c].phone
    BY <1>1, <1>2 DEF Connected
  <1>4. conn' = [conn EXCEPT ![c] = r] BY <1>1, <1>2 DEF LinkInv, LinkTypes
  <1> HIDE DEF r
  <1>5. \A d \in Phones : sock[d] = c => conn[c].phone = d BY DEF LinkInv, SocketsServed
  <1>6. hub' \in [Pods -> [Phones -> Conns \cup {NoConn}]] BY <1>1 DEF LinkInv, LinkTypes
  <1>7. /\ conn' \in [Conns -> Connected \cup {Free}] /\ conn'[c] = r
        /\ \A x \in Conns : x # c => conn'[x] = conn[x]
    BY <1>3, <1>4 DEF LinkInv, LinkTypes
  <1> QED BY <1>1, <1>3, <1>5, <1>6, <1>7, LinkStep DEF Serving, Announced

LEMMA RecordSampleLink ==
  ASSUME LinkInv, NEW c \in Conns, RecordSample(c)
  PROVE  LinkInv'
  <1> DEFINE r == [conn[c] EXCEPT !.pc = "read", !.key = None]
  <1>1. /\ conn[c].pc = "record"
        /\ conn' = [conn EXCEPT ![c].pc = "read", ![c].key = None]
        /\ UNCHANGED <<sock, hub, presence, member, overtaken>>
    BY DEF RecordSample
  <1>2. conn[c] \in Connected BY <1>1, AtWork DEF LinkInv
  <1>3. r \in Connected /\ r.pc = "read" /\ r.phone = conn[c].phone BY <1>2 DEF Connected
  <1>4. conn' = [conn EXCEPT ![c] = r] BY <1>1, <1>2 DEF LinkInv, LinkTypes
  <1> HIDE DEF r
  <1>5. \A d \in Phones : sock[d] = c => conn[c].phone = d BY DEF LinkInv, SocketsServed
  <1>6. hub' \in [Pods -> [Phones -> Conns \cup {NoConn}]] BY <1>1 DEF LinkInv, LinkTypes
  <1>7. /\ conn' \in [Conns -> Connected \cup {Free}] /\ conn'[c] = r
        /\ \A x \in Conns : x # c => conn'[x] = conn[x]
    BY <1>3, <1>4 DEF LinkInv, LinkTypes
  <1> QED BY <1>1, <1>3, <1>5, <1>6, <1>7, LinkStep DEF Serving, Announced

LEMMA LinksAtRest ==
  ASSUME LinkInv, UNCHANGED linkVars
  PROVE  LinkInv'
  BY DEF LinkInv, LinkTypes, SocketsServed, PresenceIsLive, linkVars

LEMMA LinkNext ==
  ASSUME LinkInv, shared \subseteq Sessions, Next
  PROVE  LinkInv'
  <1>1. ASSUME NEW c \in Conns, Connection(c) \/ TouchLastSeen(c) PROVE LinkInv'
    BY <1>1, SetOnlineLink, OnReconnectLink, ReadFailsLink, OnConnClosedLink, UnregisterLink,
       SetOfflineLink, RecordSampleLink, TouchLastSeenLink DEF Connection
  <1>2. ASSUME NEW c \in Conns, NEW p \in Pods, NEW d \in Phones, Register(c, p, d) PROVE LinkInv'
    BY <1>2, RegisterLink
  <1>3. ASSUME NEW d \in Phones, ConnectionLost(d) \/ PresenceExpires(d) PROVE LinkInv'
    BY <1>3, ConnectionLostLink, PresenceExpiresLink
  <1>4. ASSUME NEW p \in Pods, Work(p) PROVE LinkInv'
    <2>1. UNCHANGED linkVars
      BY <1>4 DEF Work, deliverFromRedis, Rest, Started, RemoveFromRedis, EvictStep, RowStep,
         GraceExpires, GraceEndsCall
    <2> QED BY <2>1, LinksAtRest
  <1>5. ASSUME NEW p \in Pods, NEW d \in Phones, SendTo(p, d) PROVE LinkInv'
    BY <1>5, LinksAtRest DEF SendTo
  <1>6. ASSUME NEW p \in Pods, NEW k \in Sessions, Start(p, k) \/ ForceEnd(p, k) PROVE LinkInv'
    BY <1>6, LinksAtRest DEF Start, ForceEnd
  <1>7. ASSUME NEW c \in Conns, NEW k \in Sessions, Hangup(c, k) \/ LookUp(c, k) PROVE LinkInv'
    <2>1. CASE Hangup(c, k) BY <2>1, LinksAtRest DEF Hangup
    <2> QED BY <1>7, <2>1, LookUpLink
  <1>8. ASSUME NEW w \in Watchers, Deck(w) \/ (CloseDeck(w) /\ Rest) PROVE LinkInv'
    BY <1>8, LinksAtRest DEF Deck, Rest
  <1>9. ASSUME UNCHANGED linkVars PROVE LinkInv' BY <1>9, LinksAtRest
  <1> QED BY <1>1, <1>2, <1>3, <1>4, <1>5, <1>6, <1>7, <1>8, <1>9 DEF Next

-----------------------------------------------------------------------------
(* The mail between the pods, and the grace timers.                        *)

LEMMA LetterTypes ==
  /\ \A d \in Phones : [type |-> "number", phone |-> d] \in Letter
  /\ \A d \in Phones : [type |-> "reconnect", phone |-> d] \in Letter
  /\ \A env \in Letter : env.phone \in Phones
  BY DEF Letter

LEMMA DeliveriesTypes ==
  ASSUME MailTypes, NEW p \in Pods, NEW env \in Letter
  PROVE  Deliveries(p, env) \in [Pods -> Seq(Letter)]
  <1> SUFFICES ASSUME NEW q \in Pods PROVE Append(mail[q], env) \in Seq(Letter)
    BY DEF MailTypes, Deliveries
  <1> QED BY DEF MailTypes

LEMMA TimerTypes ==
  ASSUME MailTypes, NEW p \in Pods, NEW d \in Phones, NEW v \in {"none", "armed", "expired"},
         timer' = [timer EXCEPT ![p][d] = v]
  PROVE  timer' \in [Pods -> [Phones -> {"none", "armed", "expired"}]]
  BY DEF MailTypes

LEMMA MailNext ==
  ASSUME LinkTypes, MailTypes, Next
  PROVE  MailTypes'
  <1>1. /\ mail \in [Pods -> Seq(Letter)] /\ due \subseteq Conns /\ got \in [Conns -> Nat]
        /\ timer \in [Pods -> [Phones -> {"none", "armed", "expired"}]]
    BY DEF MailTypes
  <1>2. ASSUME mail' \in [Pods -> Seq(Letter)], due' \subseteq Conns, got' \in [Conns -> Nat],
               timer' \in [Pods -> [Phones -> {"none", "armed", "expired"}]]
        PROVE  MailTypes'
    BY <1>2 DEF MailTypes
  <1>3. ASSUME UNCHANGED <<mailVars, timer>> PROVE MailTypes' BY <1>1, <1>2, <1>3 DEF mailVars
  <1>4. ASSUME NEW p \in Pods, NEW d \in Phones
        PROVE  hub[p][d] \in Conns \cup {NoConn} /\ Enqueue(p, d) \in [Conns -> Nat]
    <2>1. hub[p][d] \in Conns \cup {NoConn} BY DEF LinkTypes
    <2> QED BY <1>1, <2>1 DEF Enqueue
  <1>5. ASSUME NEW c \in Conns, conn[c].pc # "free" PROVE Pod(c) \in Pods /\ Phone(c) \in Phones
    BY <1>5, AtWork DEF Pod, Phone
  <1>6. ASSUME NEW c \in Conns, Connection(c) \/ TouchLastSeen(c) PROVE MailTypes'
    <2>1. CASE OnReconnect(c)
      <3>1. Pod(c) \in Pods /\ Phone(c) \in Phones BY <1>5, <2>1 DEF OnReconnect
      <3>2. mail' \in [Pods -> Seq(Letter)]
        BY <2>1, <3>1, DeliveriesTypes, LetterTypes DEF OnReconnect
      <3>3. timer' \in [Pods -> [Phones -> {"none", "armed", "expired"}]]
        <4> DEFINE v == IF timer[Pod(c)][Phone(c)] = "armed" THEN "none"
                        ELSE timer[Pod(c)][Phone(c)]
        <4>1. v \in {"none", "armed", "expired"} BY <1>1, <3>1
        <4>2. timer' = [timer EXCEPT ![Pod(c)][Phone(c)] = v] BY <2>1 DEF OnReconnect
        <4> HIDE DEF v
        <4> QED BY <3>1, <4>1, <4>2, TimerTypes
      <3> QED BY <1>1, <1>2, <2>1, <3>2, <3>3 DEF OnReconnect
    <2>2. CASE OnConnClosed(c)
      <3>1. UNCHANGED mailVars BY <2>2 DEF OnConnClosed
      <3>2. Pod(c) \in Pods /\ Phone(c) \in Phones BY <1>5, <2>2 DEF OnConnClosed
      <3>3. UNCHANGED timer \/ timer' = [timer EXCEPT ![Pod(c)][Phone(c)] = "armed"]
        BY <2>2 DEF OnConnClosed
      <3>4. timer' \in [Pods -> [Phones -> {"none", "armed", "expired"}]]
        BY <1>1, <3>2, <3>3, TimerTypes
      <3> QED BY <1>1, <1>2, <3>1, <3>4 DEF mailVars
    <2>3. CASE Unregister(c)
      <3>1. UNCHANGED <<mail, timer>> /\ due' = due \ {c} BY <2>3 DEF Unregister, Release
      <3>2. got' \in [Conns -> Nat] BY <1>1, <2>3 DEF Unregister, Release
      <3> QED BY <1>1, <1>2, <3>1, <3>2
    <2>4. CASE SetOffline(c)
      <3>1. UNCHANGED <<mail, timer>> /\ due' = due \ {c} BY <2>4 DEF SetOffline, Release
      <3>2. got' \in [Conns -> Nat] BY <1>1, <2>4 DEF SetOffline, Release
      <3> QED BY <1>1, <1>2, <3>1, <3>2
    <2> QED BY <1>3, <1>6, <2>1, <2>2, <2>3, <2>4
         DEF Connection, SetOnline, ReadFails, RecordSample, TouchLastSeen
  <1>7. ASSUME NEW c \in Conns, NEW p \in Pods, NEW d \in Phones, Register(c, p, d) PROVE MailTypes'
    <2>1. due' \subseteq Conns /\ UNCHANGED <<mail, got, timer>> BY <1>1, <1>7 DEF Register
    <2> QED BY <1>1, <1>2, <2>1
  <1>8. ASSUME NEW p \in Pods, Work(p) PROVE MailTypes'
    <2>1. CASE deliverFromRedis(p)
      <3> DEFINE env == Head(mail[p])
      <3>1. mail[p] \in Seq(Letter) /\ mail[p] # <<>> BY <1>1, <2>1 DEF deliverFromRedis
      <3>2. env \in Letter /\ Tail(mail[p]) \in Seq(Letter) BY <3>1
      <3>3. mail' \in [Pods -> Seq(Letter)] BY <1>1, <2>1, <3>2 DEF deliverFromRedis
      <3>4. env.phone \in Phones BY <3>2, LetterTypes
      <3> HIDE DEF env
      <3>5. \/ got' = Enqueue(p, env.phone) /\ UNCHANGED timer
            \/ /\ timer' = [timer EXCEPT ![p][env.phone] = IF @ = "armed" THEN "none" ELSE @]
               /\ UNCHANGED got
        BY <2>1 DEF deliverFromRedis, env
      <3>6. timer' \in [Pods -> [Phones -> {"none", "armed", "expired"}]]
        <4> DEFINE v == IF timer[p][env.phone] = "armed" THEN "none" ELSE timer[p][env.phone]
        <4>1. v \in {"none", "armed", "expired"} BY <1>1, <3>4
        <4>2. UNCHANGED timer \/ timer' = [timer EXCEPT ![p][env.phone] = v] BY <3>5
        <4> HIDE DEF v
        <4> QED BY <1>1, <3>4, <4>1, <4>2, TimerTypes
      <3>7. got' \in [Conns -> Nat] BY <1>1, <1>4, <3>4, <3>5
      <3> QED BY <1>1, <1>2, <2>1, <3>3, <3>6, <3>7 DEF deliverFromRedis
    <2>2. ASSUME NEW d \in Phones, GraceExpires(p, d) \/ GraceEndsCall(p, d) PROVE MailTypes'
      <3>1. UNCHANGED mailVars BY <2>2 DEF GraceExpires, GraceEndsCall
      <3>2. timer' \in [Pods -> [Phones -> {"none", "armed", "expired"}]]
        <4>1. PICK v \in {"none", "expired"} : timer' = [timer EXCEPT ![p][d] = v]
          BY <2>2 DEF GraceExpires, GraceEndsCall
        <4> QED BY <4>1, TimerTypes
      <3> QED BY <1>1, <1>2, <3>1, <3>2 DEF mailVars
    <2> QED BY <1>3, <1>8, <2>1, <2>2
         DEF Work, Rest, Started, RemoveFromRedis, EvictStep, RowStep
  <1>9. ASSUME NEW p \in Pods, NEW d \in Phones, SendTo(p, d) PROVE MailTypes'
    <2>1. mail' \in [Pods -> Seq(Letter)] BY <1>9, DeliveriesTypes, LetterTypes DEF SendTo
    <2>2. due' \subseteq Conns BY <1>4, <1>9 DEF SendTo
    <2>3. got' \in [Conns -> Nat] BY <1>4, <1>9 DEF SendTo
    <2> QED BY <1>1, <1>2, <1>9, <2>1, <2>2, <2>3 DEF SendTo
  <1>10. ASSUME NEW d \in Phones, ConnectionLost(d) \/ PresenceExpires(d) PROVE MailTypes'
    BY <1>3, <1>10 DEF ConnectionLost, PresenceExpires
  <1>11. ASSUME NEW p \in Pods, NEW k \in Sessions, Start(p, k) \/ ForceEnd(p, k) PROVE MailTypes'
    BY <1>3, <1>11 DEF Start, ForceEnd
  <1>12. ASSUME NEW c \in Conns, NEW k \in Sessions, Hangup(c, k) \/ LookUp(c, k) PROVE MailTypes'
    BY <1>3, <1>12 DEF Hangup, LookUp
  <1>13. ASSUME NEW w \in Watchers, Deck(w) \/ (CloseDeck(w) /\ Rest) PROVE MailTypes'
    BY <1>3, <1>13 DEF Deck, Rest
  <1> QED BY <1>3, <1>6, <1>7, <1>8, <1>9, <1>10, <1>11, <1>12, <1>13 DEF Next

-----------------------------------------------------------------------------
(* The telemetry sessions and the decks.                                   *)

LEMMA DeckTypes ==
  ASSUME HealthTypes, NEW w \in Watchers
  PROVE  /\ deck[w] \in Stream /\ deck[w].pc \in DeckPCs
         /\ deck[w].pod \in Pods /\ deck[w].key \in Sessions
  BY DEF HealthTypes, Stream

(* One field of a deck.                                                    *)
LEMMA DeckPc ==
  ASSUME NEW d \in Stream, NEW pc \in DeckPCs
  PROVE  LET r == [d EXCEPT !.pc = pc]
         IN  r \in Stream /\ r.pc = pc /\ r.pod = d.pod /\ r.key = d.key
  BY DEF Stream

SubsKept ==
  \A q \in Pods, j \in Sessions : sess'[q][j].subs = sess[q][j].subs

(* A sample, or the start of a session, creates or stamps it.              *)
LEMMA Stamps ==
  ASSUME HealthTypes, NEW p \in Pods, NEW k \in Sessions,
         sess' = [sess EXCEPT ![p][k] = getOrCreateSession(@)]
  PROVE  sess' \in [Pods -> [Sessions -> Telemetry]] /\ SubsKept
  <1> DEFINE r == getOrCreateSession(sess[p][k])
  <1>1. sess[p][k] \in Telemetry BY DEF HealthTypes
  <1>2. r \in Telemetry /\ r.subs = sess[p][k].subs BY <1>1 DEF getOrCreateSession, Telemetry
  <1>3. sess' = [sess EXCEPT ![p][k] = r] OBVIOUS
  <1> HIDE DEF r
  <1>4. sess' \in [Pods -> [Sessions -> Telemetry]] BY <1>2, <1>3 DEF HealthTypes
  <1> QED BY <1>2, <1>3, <1>4 DEF SubsKept, HealthTypes

LEMMA Aged ==
  ASSUME HealthTypes, NEW p \in Pods, NEW k \in Sessions, Ages(p, k)
  PROVE  sess' \in [Pods -> [Sessions -> Telemetry]] /\ SubsKept
  <1> DEFINE r == [sess[p][k] EXCEPT !.age = @ + 1]
  <1>1. sess[p][k] \in Telemetry BY DEF HealthTypes
  <1>2. r \in Telemetry /\ r.subs = sess[p][k].subs BY <1>1 DEF Ages, Telemetry
  <1>3. sess' = [sess EXCEPT ![p][k] = r] BY DEF Ages
  <1> HIDE DEF r
  <1>4. sess' \in [Pods -> [Sessions -> Telemetry]] BY <1>2, <1>3 DEF HealthTypes
  <1> QED BY <1>2, <1>3, <1>4 DEF SubsKept, HealthTypes

(* A deck that streams afterwards streamed before, and is still subscribed.*)
StreamsOn ==
  \A w \in Watchers : deck'[w].pc = "streaming" =>
    /\ deck[w].pc = "streaming" /\ deck'[w].pod = deck[w].pod /\ deck'[w].key = deck[w].key
    /\ w \in sess'[deck[w].pod][deck[w].key].subs

LEMMA StreamsOnKept ==
  ASSUME HealthTypes, StreamsSubscribed, SubsKept,
         \A w \in Watchers : deck'[w].pc = "streaming" => deck'[w] = deck[w]
  PROVE  StreamsOn
  BY DeckTypes DEF StreamsOn, StreamsSubscribed, SubsKept

(* evictSession closes the decks that are subscribed.                      *)
LEMMA Evicted ==
  ASSUME HealthTypes, StreamsSubscribed, NEW p \in Pods, NEW k \in Sessions, evictSession(p, k)
  PROVE  /\ sess' \in [Pods -> [Sessions -> Telemetry]] /\ deck' \in [Watchers -> Stream]
         /\ StreamsOn
         /\ \A w \in Watchers : deck'[w].pc = "streaming" => deck[w].pod # p \/ deck[w].key # k
  <1>1. Absent \in Telemetry BY DEF Absent, Telemetry
  <1>2. /\ sess' \in [Pods -> [Sessions -> Telemetry]]
        /\ \A q \in Pods, j \in Sessions : q # p \/ j # k => sess'[q][j] = sess[q][j]
    BY <1>1 DEF evictSession, HealthTypes
  <1>3. ASSUME NEW w \in Watchers
        PROVE  /\ deck'[w] \in Stream
               /\ deck'[w].pc = "streaming" =>
                    deck'[w] = deck[w] /\ (deck[w].pc = "streaming" => w \notin sess[p][k].subs)
    <2> DEFINE r == [deck[w] EXCEPT !.pc = "done"]
               m == [deck[w] EXCEPT !.pc = "missed"]
    <2>1. r \in Stream /\ r.pc = "done" BY DeckTypes, DeckPc DEF DeckPCs
    <2>2. m \in Stream /\ m.pc = "missed" BY DeckTypes, DeckPc DEF DeckPCs
    <2>3. deck'[w] = IF w \in sess[p][k].subs /\ deck[w].pc \in {"streaming", "told"}
                       THEN r ELSE IF Holds(w, p, k) THEN m ELSE deck[w]
      BY DEF evictSession
    <2> HIDE DEF r, m
    <2> QED BY <2>1, <2>2, <2>3, DeckTypes
  <1>4. deck' \in [Watchers -> Stream]
    <2>1. \A w \in Watchers : deck'[w] \in Stream BY <1>3
    <2> QED BY <2>1 DEF evictSession
  <1>5. \A w \in Watchers : deck'[w].pc = "streaming" => deck[w].pod # p \/ deck[w].key # k
    BY <1>3 DEF StreamsSubscribed
  <1>6. StreamsOn
    <2> SUFFICES ASSUME NEW w \in Watchers, deck'[w].pc = "streaming"
                 PROVE  /\ deck[w].pc = "streaming" /\ deck'[w] = deck[w]
                        /\ w \in sess'[deck[w].pod][deck[w].key].subs
      BY DEF StreamsOn
    <2>1. deck'[w] = deck[w] /\ deck[w].pc = "streaming" BY <1>3
    <2>2. w \in sess[deck[w].pod][deck[w].key].subs BY <2>1 DEF StreamsSubscribed
    <2>3. sess'[deck[w].pod][deck[w].key] = sess[deck[w].pod][deck[w].key]
      BY <1>2, <1>5, DeckTypes
    <2> QED BY <2>1, <2>2, <2>3
  <1> QED BY <1>2, <1>4, <1>5, <1>6

LEMMA Notified ==
  ASSUME HealthTypes, StreamsSubscribed, NEW p \in Pods, NEW k \in Sessions,
         deck' = Told(p, k), UNCHANGED sess
  PROVE  deck' \in [Watchers -> Stream] /\ StreamsOn
  <1>1. ASSUME NEW w \in Watchers
        PROVE  deck'[w] \in Stream /\ (deck'[w].pc = "streaming" => deck'[w] = deck[w])
    <2> DEFINE r == [deck[w] EXCEPT !.pc = "told"]
    <2>1. r \in Stream /\ r.pc = "told" BY DeckTypes, DeckPc DEF DeckPCs
    <2>2. deck'[w] = IF w \in sess[p][k].subs /\ deck[w].pc = "streaming" THEN r ELSE deck[w]
      BY DEF Told
    <2> HIDE DEF r
    <2> QED BY <2>1, <2>2, DeckTypes
  <1>2. deck' \in [Watchers -> Stream]
    <2>1. \A w \in Watchers : deck'[w] \in Stream BY <1>1
    <2> QED BY <2>1 DEF Told
  <1> QED BY <1>1, <1>2, StreamsOnKept DEF SubsKept

(* What is published stays there to be applied.                            *)
LEMMA AppendKeeps ==
  ASSUME NEW s \in Seq(Envelope), NEW e \in Envelope
  PROVE  /\ Append(s, e) \in Seq(Envelope)
         /\ \E i \in 1 .. Len(Append(s, e)) : Append(s, e)[i] = e
         /\ \A x : (\E i \in 1 .. Len(s) : s[i] = x) =>
                     \E i \in 1 .. Len(Append(s, e)) : Append(s, e)[i] = x
  OBVIOUS

LEMMA TailKeeps ==
  ASSUME NEW s \in Seq(Envelope), s # <<>>
  PROVE  /\ Head(s) \in Envelope /\ Tail(s) \in Seq(Envelope)
         /\ \A x : x # Head(s) /\ (\E i \in 1 .. Len(s) : s[i] = x) =>
                     \E i \in 1 .. Len(Tail(s)) : Tail(s)[i] = x
  <1>1. Head(s) = s[1] /\ Tail(s) \in Seq(Envelope) /\ Len(Tail(s)) = Len(s) - 1 /\ Head(s) \in Envelope
    OBVIOUS
  <1>2. \A i \in 1 .. Len(s) - 1 : Tail(s)[i] = s[i + 1] OBVIOUS
  <1> SUFFICES ASSUME NEW x, x # Head(s), NEW i \in 1 .. Len(s), s[i] = x
               PROVE  \E j \in 1 .. Len(Tail(s)) : Tail(s)[j] = x
    BY <1>1
  <1>3. i - 1 \in 1 .. Len(s) - 1 BY <1>1
  <1> QED BY <1>1, <1>2, <1>3

LEMMA Published ==
  ASSUME HealthTypes, NEW p \in Pods, NEW env \in Envelope, publish(p, env)
  PROVE  /\ hmail' \in [Pods -> Seq(Envelope)]
         /\ \A q \in Pods : \A k : Pending(hmail[q], k) => Pending(hmail'[q], k)
         /\ \A q \in Pods \ {p} : \E i \in 1 .. Len(hmail'[q]) : hmail'[q][i] = env
  <1>1. ASSUME NEW q \in Pods
        PROVE  /\ hmail'[q] \in Seq(Envelope)
               /\ \A k : Pending(hmail[q], k) => Pending(hmail'[q], k)
               /\ q # p => \E i \in 1 .. Len(hmail'[q]) : hmail'[q][i] = env
    <2> DEFINE old == hmail[q]
               new == Append(old, env)
    <2>1. old \in Seq(Envelope) BY DEF HealthTypes
    <2>2. hmail'[q] = IF q = p THEN old ELSE new BY DEF publish
    <2> HIDE DEF old
    <2>3. /\ new \in Seq(Envelope) /\ \E i \in 1 .. Len(new) : new[i] = env
          /\ \A x : (\E i \in 1 .. Len(old) : old[i] = x) => \E i \in 1 .. Len(new) : new[i] = x
      BY <2>1, AppendKeeps
    <2> HIDE DEF new
    <2>4. ASSUME NEW k, Pending(hmail[q], k) PROVE Pending(hmail'[q], k)
      <3> DEFINE x == [kind |-> "evict", key |-> k]
      <3>1. \E i \in 1 .. Len(old) : old[i] = x BY <2>4 DEF Pending, old
      <3> HIDE DEF x
      <3>2. \E i \in 1 .. Len(hmail'[q]) : hmail'[q][i] = x BY <2>2, <2>3, <3>1
      <3> QED BY <3>2 DEF Pending, x
    <2> QED BY <2>1, <2>2, <2>3, <2>4
  <1>2. hmail' \in [Pods -> Seq(Envelope)]
    <2>1. \A q \in Pods : hmail'[q] \in Seq(Envelope) BY <1>1
    <2> QED BY <2>1 DEF publish
  <1> QED BY <1>1, <1>2

-----------------------------------------------------------------------------
(* The invariant of the decks, step by step.                               *)

LEMMA DeckStep ==
  ASSUME DeckInv, HealthTypes', CallTypes', EndsForget', EndsKnown', StreamsOn,
         \A k \in Conferences : row'[k] = "ended" => row[k] = "ended" \/ Evicting(k)',
         \A w \in Watchers, k \in Conferences : Shows(w, k)' =>
           /\ Pending(hmail[deck[w].pod], k) => Pending(hmail'[deck'[w].pod], k)
           /\ Evicting(k) => Evicting(k)' \/ Pending(hmail'[deck'[w].pod], k)
  PROVE  DeckInv'
  <1>1. StreamsSubscribed' BY DEF StreamsOn, StreamsSubscribed
  <1>2. EvictionUnderWay'
    <2> SUFFICES ASSUME NEW w \in Watchers, NEW k \in Conferences, Shows(w, k)', row'[k] = "ended"
                 PROVE  Evicting(k)' \/ Pending(hmail'[deck'[w].pod], k)
      BY DEF EvictionUnderWay
    <2>1. Shows(w, k) /\ deck'[w].pod = deck[w].pod BY DEF Shows, StreamsOn
    <2>2. CASE row[k] = "ended"
      <3>1. Evicting(k) \/ Pending(hmail[deck[w].pod], k) BY <2>1, <2>2 DEF DeckInv, EvictionUnderWay
      <3> QED BY <2>1, <3>1 DEF Pending
    <2>3. CASE row[k] # "ended" BY <2>3
    <2> QED BY <2>2, <2>3
  <1> QED BY <1>1, <1>2 DEF DeckInv

(* A step of the store, of which no job and no row takes notice.           *)
LEMMA StoreStep ==
  ASSUME DeckInv, HealthTypes', StreamsOn, UNCHANGED <<row, callVars>>,
         \A w \in Watchers, k \in Conferences :
           Shows(w, k)' /\ Pending(hmail[deck[w].pod], k) => Pending(hmail'[deck'[w].pod], k)
  PROVE  DeckInv'
  <1>1. UNCHANGED <<active, shared, job>> BY DEF callVars
  <1>2. CallTypes' /\ EndsForget' /\ EndsKnown'
    BY <1>1 DEF DeckInv, CallTypes, EndsForget, EndsKnown, Ending
  <1>3. \A k : Evicting(k)' <=> Evicting(k) BY <1>1 DEF Evicting
  <1> QED BY <1>2, <1>3, DeckStep

LEMMA RecordDeck ==
  ASSUME DeckInv, NEW p \in Pods, NEW k \in Sessions, Record(p, k), UNCHANGED callVars
  PROVE  DeckInv'
  <1>1. HealthTypes /\ StreamsSubscribed BY DEF DeckInv
  <1>2. sess' \in [Pods -> [Sessions -> Telemetry]] /\ SubsKept BY <1>1, Stamps DEF Record
  <1>3. UNCHANGED <<deck, row>> BY DEF Record
  <1>4. [kind |-> "sample", key |-> k] \in Envelope BY DEF Envelope
  <1>5. /\ hmail' \in [Pods -> Seq(Envelope)]
        /\ \A q \in Pods : \A j : Pending(hmail[q], j) => Pending(hmail'[q], j)
    BY <1>1, <1>4, Published DEF Record
  <1>6. HealthTypes' BY <1>1, <1>2, <1>3, <1>5 DEF HealthTypes
  <1>7. StreamsOn BY <1>1, <1>2, <1>3, StreamsOnKept
  <1> QED BY <1>1, <1>3, <1>5, <1>6, <1>7, StoreStep, DeckTypes

LEMMA applyRemoteDeck ==
  ASSUME DeckInv, NEW p \in Pods, applyRemote(p), UNCHANGED callVars
  PROVE  DeckInv'
  <1> DEFINE env == Head(hmail[p])
  <1>1. HealthTypes /\ StreamsSubscribed BY DEF DeckInv
  <1>2. hmail[p] \in Seq(Envelope) /\ hmail[p] # <<>> BY <1>1 DEF HealthTypes, applyRemote
  <1>3. /\ env \in Envelope /\ Tail(hmail[p]) \in Seq(Envelope)
        /\ \A x : x # env /\ (\E i \in 1 .. Len(hmail[p]) : hmail[p][i] = x) =>
                    \E i \in 1 .. Len(Tail(hmail[p])) : Tail(hmail[p])[i] = x
    BY <1>2, TailKeeps
  <1>4. hmail' = [hmail EXCEPT ![p] = Tail(@)] /\ UNCHANGED row BY DEF applyRemote
  <1>5. \/ sess' = [sess EXCEPT ![p][env.key] = getOrCreateSession(@)] /\ UNCHANGED deck
        \/ deck' = Told(p, env.key) /\ UNCHANGED sess
        \/ evictSession(p, env.key)
    BY DEF applyRemote
  <1>6. env.kind = "evict" => evictSession(p, env.key) BY DEF applyRemote
  <1>7. env.key \in Sessions BY <1>3 DEF Envelope
  <1>8. hmail' \in [Pods -> Seq(Envelope)] BY <1>1, <1>3, <1>4 DEF HealthTypes
  <1>9. /\ hmail'[p] = Tail(hmail[p]) /\ \A q \in Pods : q # p => hmail'[q] = hmail[q]
    BY <1>1, <1>4 DEF HealthTypes
  <1> HIDE DEF env
  <1>10. /\ sess' \in [Pods -> [Sessions -> Telemetry]] /\ deck' \in [Watchers -> Stream]
         /\ StreamsOn
         /\ evictSession(p, env.key) =>
              \A w \in Watchers : deck'[w].pc = "streaming" =>
                deck[w].pod # p \/ deck[w].key # env.key
    <2>1. CASE evictSession(p, env.key) BY <1>1, <1>7, <2>1, Evicted
    <2>2. CASE ~ evictSession(p, env.key) /\ deck' = Told(p, env.key) /\ UNCHANGED sess
      BY <1>1, <1>7, <2>2, Notified DEF HealthTypes
    <2>3. CASE /\ ~ evictSession(p, env.key)
               /\ sess' = [sess EXCEPT ![p][env.key] = getOrCreateSession(@)] /\ UNCHANGED deck
      <3>1. sess' \in [Pods -> [Sessions -> Telemetry]] /\ SubsKept BY <1>1, <1>7, <2>3, Stamps
      <3>2. StreamsOn BY <1>1, <2>3, <3>1, StreamsOnKept
      <3> QED BY <1>1, <2>3, <3>1, <3>2 DEF HealthTypes
    <2> QED BY <1>5, <2>1, <2>2, <2>3
  <1>11. HealthTypes' BY <1>1, <1>4, <1>8, <1>10 DEF HealthTypes
  <1>12. ASSUME NEW w \in Watchers, NEW k \in Conferences,
                Shows(w, k)', Pending(hmail[deck[w].pod], k)
         PROVE  Pending(hmail'[deck'[w].pod], k)
    <2> DEFINE x == [kind |-> "evict", key |-> k]
    <2>1. /\ deck[w].pc = "streaming" /\ deck[w].key = k
          /\ deck[w].pod \in Pods /\ deck'[w].pod = deck[w].pod
      BY <1>1, <1>10, <1>12, DeckTypes DEF Shows, StreamsOn
    <2>2. CASE deck[w].pod # p BY <1>9, <1>12, <2>1, <2>2 DEF Pending
    <2>3. CASE deck[w].pod = p
      <3>1. env = x => env.kind = "evict" /\ env.key = k OBVIOUS
      <3>2. env # x BY <1>6, <1>10, <1>12, <2>1, <2>3, <3>1 DEF Shows
      <3>3. \E i \in 1 .. Len(hmail[p]) : hmail[p][i] = x BY <1>12, <2>3 DEF Pending
      <3> HIDE DEF x
      <3>4. \E i \in 1 .. Len(Tail(hmail[p])) : Tail(hmail[p])[i] = x BY <1>3, <3>2, <3>3
      <3>5. \E i \in 1 .. Len(hmail'[p]) : hmail'[p][i] = x BY <1>9, <3>4
      <3> QED BY <2>1, <2>3, <3>5 DEF Pending, x
    <2> QED BY <2>2, <2>3
  <1> QED BY <1>4, <1>10, <1>11, <1>12, StoreStep

(* A store step that sends nothing.                                        *)
LEMMA LocalStep ==
  ASSUME DeckInv, sess' \in [Pods -> [Sessions -> Telemetry]], deck' \in [Watchers -> Stream],
         StreamsOn, UNCHANGED <<hmail, row, callVars>>
  PROVE  DeckInv'
  <1>1. HealthTypes' BY DEF DeckInv, HealthTypes
  <1> QED BY <1>1, StoreStep DEF StreamsOn, Shows

LEMMA sweepDeck ==
  ASSUME DeckInv, NEW p \in Pods, NEW k \in Sessions, sweepIdleSessions(p, k), UNCHANGED callVars
  PROVE  DeckInv'
  BY Evicted, LocalStep DEF sweepIdleSessions, DeckInv

LEMMA AgesDeck ==
  ASSUME DeckInv, NEW p \in Pods, NEW k \in Sessions, Ages(p, k), UNCHANGED callVars
  PROVE  DeckInv'
  <1>1. HealthTypes /\ StreamsSubscribed /\ UNCHANGED <<hmail, deck, row>> BY DEF DeckInv, Ages
  <1>2. sess' \in [Pods -> [Sessions -> Telemetry]] /\ SubsKept BY <1>1, Aged
  <1>3. StreamsOn BY <1>1, <1>2, StreamsOnKept
  <1>4. deck' \in [Watchers -> Stream] BY <1>1 DEF HealthTypes
  <1> QED BY <1>1, <1>2, <1>3, <1>4, LocalStep

LEMMA OpenDeckDeck ==
  ASSUME DeckInv, NEW w \in Watchers, NEW p \in Pods, NEW k \in Sessions, OpenDeck(w, p, k),
         UNCHANGED callVars
  PROVE  DeckInv'
  <1> DEFINE r == [pc |-> "checked", pod |-> p, key |-> k]
  <1>1. HealthTypes /\ StreamsSubscribed BY DEF DeckInv
  <1>2. deck' = [deck EXCEPT ![w] = r] /\ UNCHANGED <<sess, hmail, row>> BY DEF OpenDeck
  <1>3. r \in Stream /\ r.pc = "checked" BY DEF Stream, DeckPCs
  <1> HIDE DEF r
  <1>4. /\ deck' \in [Watchers -> Stream] /\ deck'[w] = r
        /\ \A x \in Watchers : x # w => deck'[x] = deck[x]
    BY <1>1, <1>2, <1>3 DEF HealthTypes
  <1>5. sess' \in [Pods -> [Sessions -> Telemetry]] BY <1>1, <1>2 DEF HealthTypes
  <1>6. StreamsOn BY <1>1, <1>2, <1>3, <1>4, StreamsOnKept DEF SubsKept
  <1> QED BY <1>2, <1>4, <1>5, <1>6, LocalStep

(* Only one deck moves, and it does not stream afterwards.                 *)
LEMMA DeckMoves ==
  ASSUME DeckInv, NEW w \in Watchers, NEW r \in Stream, r.pc # "streaming",
         deck' = [deck EXCEPT ![w] = r], sess' \in [Pods -> [Sessions -> Telemetry]],
         \A q \in Pods, j \in Sessions, x \in Watchers :
           x # w /\ x \in sess[q][j].subs => x \in sess'[q][j].subs,
         UNCHANGED <<hmail, row, callVars>>
  PROVE  DeckInv'
  <1>1. HealthTypes /\ StreamsSubscribed BY DEF DeckInv
  <1>2. /\ deck' \in [Watchers -> Stream] /\ deck'[w] = r
        /\ \A x \in Watchers : x # w => deck'[x] = deck[x]
    BY <1>1 DEF HealthTypes
  <1>3. StreamsOn BY <1>1, <1>2, DeckTypes DEF StreamsOn, StreamsSubscribed
  <1> QED BY <1>2, <1>3, LocalStep

LEMMA UnsubscribedSubs ==
  ASSUME HealthTypes, NEW w \in Watchers, sess' = Unsubscribed(w)
  PROVE  /\ sess' \in [Pods -> [Sessions -> Telemetry]]
         /\ \A q \in Pods, j \in Sessions : sess'[q][j].subs = sess[q][j].subs \ {w}
  <1>1. ASSUME NEW q \in Pods, NEW j \in Sessions
        PROVE  sess'[q][j] \in Telemetry /\ sess'[q][j].subs = sess[q][j].subs \ {w}
    <2> DEFINE r == [sess[q][j] EXCEPT !.subs = @ \ {w}]
    <2>1. sess[q][j] \in Telemetry BY DEF HealthTypes
    <2>2. r \in Telemetry /\ r.subs = sess[q][j].subs \ {w} BY <2>1 DEF Telemetry
    <2>3. sess'[q][j] = r BY DEF Unsubscribed
    <2> HIDE DEF r
    <2> QED BY <2>2, <2>3
  <1>2. sess' = [q \in Pods |-> [j \in Sessions |-> sess'[q][j]]] BY DEF Unsubscribed
  <1> QED BY <1>1, <1>2

LEMMA CloseDeckDeck ==
  ASSUME DeckInv, NEW w \in Watchers, CloseDeck(w), UNCHANGED callVars
  PROVE  DeckInv'
  <1>1. NoDeck \in Stream /\ NoDeck.pc = "idle" BY DEF NoDeck, Stream, DeckPCs
  <1>2. deck' = [deck EXCEPT ![w] = NoDeck] /\ UNCHANGED <<hmail, row>> BY DEF CloseDeck
  <1>3. /\ sess' \in [Pods -> [Sessions -> Telemetry]]
        /\ \A q \in Pods, j \in Sessions : sess'[q][j].subs = sess[q][j].subs \ {w}
    BY UnsubscribedSubs DEF CloseDeck, DeckInv
  <1>4. \A q \in Pods, j \in Sessions, x \in Watchers :
          x # w /\ x \in sess[q][j].subs => x \in sess'[q][j].subs
    BY <1>3
  <1>5. NoDeck.pc # "streaming" BY <1>1
  <1> QED BY <1>1, <1>2, <1>3, <1>4, <1>5, DeckMoves

LEMMA GetSessionDeck ==
  ASSUME DeckInv, NEW w \in Watchers, GetSession(w), UNCHANGED callVars
  PROVE  DeckInv'
  <1> DEFINE p == deck[w].pod
             k == deck[w].key
             r == [deck[w] EXCEPT !.pc = "got"]
  <1>1. HealthTypes BY DEF DeckInv
  <1>2. p \in Pods /\ k \in Sessions BY <1>1, DeckTypes
  <1>3. r \in Stream /\ r.pc = "got" BY <1>1, DeckTypes, DeckPc DEF DeckPCs
  <1>4. deck' = [deck EXCEPT ![w] = r] BY DEF GetSession
  <1>5. sess' = [sess EXCEPT ![p][k] = getOrCreateSession(@)] /\ UNCHANGED <<hmail, row>>
    BY DEF GetSession
  <1> HIDE DEF r, p, k
  <1>6. sess' \in [Pods -> [Sessions -> Telemetry]] /\ SubsKept BY <1>1, <1>2, <1>5, Stamps
  <1>7. \A q \in Pods, j \in Sessions, x \in Watchers :
          x # w /\ x \in sess[q][j].subs => x \in sess'[q][j].subs
    BY <1>6 DEF SubsKept
  <1>8. r.pc # "streaming" BY <1>3
  <1> QED BY <1>3, <1>4, <1>5, <1>6, <1>7, <1>8, DeckMoves

LEMMA subscribeSessionDeck ==
  ASSUME DeckInv, NEW w \in Watchers, subscribeSession(w), UNCHANGED callVars
  PROVE  DeckInv'
  <1>1. HealthTypes BY DEF DeckInv
  <1>2. CASE deck[w].pc = "got"
    <2> DEFINE p == deck[w].pod
               k == deck[w].key
               s == [sess[p][k] EXCEPT !.subs = @ \cup {w}]
               r == [deck[w] EXCEPT !.pc = "subscribed"]
    <2>1. p \in Pods /\ k \in Sessions BY <1>1, DeckTypes
    <2>2. r \in Stream /\ r.pc = "subscribed" BY <1>1, DeckTypes, DeckPc DEF DeckPCs
    <2>3. s \in Telemetry /\ s.subs = sess[p][k].subs \cup {w}
      <3>1. sess[p][k] \in Telemetry BY <1>1, <2>1 DEF HealthTypes
      <3> QED BY <3>1 DEF Telemetry
    <2>4. deck' = [deck EXCEPT ![w] = r] BY <1>2 DEF subscribeSession
    <2>5. sess' = [sess EXCEPT ![p][k] = s] BY <1>2 DEF subscribeSession
    <2>6. UNCHANGED <<hmail, row>> BY DEF subscribeSession
    <2> HIDE DEF r, s, p, k
    <2>7. /\ sess' \in [Pods -> [Sessions -> Telemetry]] /\ sess'[p][k] = s
          /\ \A q \in Pods, j \in Sessions : q # p \/ j # k => sess'[q][j] = sess[q][j]
      BY <1>1, <2>1, <2>3, <2>5 DEF HealthTypes
    <2>8. \A q \in Pods, j \in Sessions, x \in Watchers :
            x # w /\ x \in sess[q][j].subs => x \in sess'[q][j].subs
      BY <2>3, <2>7
    <2>9. r.pc # "streaming" BY <2>2
    <2> QED BY <2>2, <2>4, <2>6, <2>7, <2>8, <2>9, DeckMoves
  <1>3. CASE deck[w].pc = "missed"
    <2> DEFINE r == [deck[w] EXCEPT !.pc = "orphan"]
    <2>1. r \in Stream /\ r.pc = "orphan" BY <1>1, DeckTypes, DeckPc DEF DeckPCs
    <2>2. deck' = [deck EXCEPT ![w] = r] /\ UNCHANGED <<sess, hmail, row>>
      BY <1>3 DEF subscribeSession
    <2> HIDE DEF r
    <2>3. r.pc # "streaming" BY <2>1
    <2>4. sess' \in [Pods -> [Sessions -> Telemetry]] BY <1>1, <2>2 DEF HealthTypes
    <2> QED BY <2>1, <2>2, <2>3, <2>4, DeckMoves
  <1> QED BY <1>2, <1>3 DEF subscribeSession

LEMMA RecheckEndedDeck ==
  ASSUME DeckInv, NEW w \in Watchers, RecheckEnded(w), UNCHANGED callVars
  PROVE  DeckInv'
  <1> DEFINE p == deck[w].pod
             k == deck[w].key
             pc == IF row[k] = "ended" THEN "done" ELSE Streams(w)
             r == [deck[w] EXCEPT !.pc = pc]
  <1>1. HealthTypes /\ StreamsSubscribed BY DEF DeckInv
  <1>2. deck' = [deck EXCEPT ![w] = r] BY DEF RecheckEnded
  <1>3. sess' = (IF pc = "done" THEN Unsubscribed(w) ELSE sess) /\ UNCHANGED <<hmail, row>>
    BY DEF RecheckEnded
  <1>4. p \in Pods /\ k \in Sessions BY <1>1, DeckTypes
  <1>5. pc \in DeckPCs BY DEF DeckPCs, Streams
  <1>9. pc = "streaming" => row[k] # "ended" /\ w \in sess[p][k].subs BY DEF Streams
  <1> HIDE DEF pc
  <1>8. r \in Stream /\ r.pc = pc /\ r.pod = p /\ r.key = k BY <1>1, <1>5, DeckTypes, DeckPc
  <1> HIDE DEF r
  <1>6. CASE pc # "streaming"
    <2>1. sess' \in [Pods -> [Sessions -> Telemetry]]
      <3>1. CASE pc = "done" BY <1>1, <1>3, <3>1, UnsubscribedSubs
      <3>2. CASE pc # "done" BY <1>1, <1>3, <3>2 DEF HealthTypes
      <3> QED BY <3>1, <3>2
    <2>2. \A q \in Pods, j \in Sessions, x \in Watchers :
            x # w /\ x \in sess[q][j].subs => x \in sess'[q][j].subs
      <3>1. CASE pc = "done"
        <4>1. \A q \in Pods, j \in Sessions : sess'[q][j].subs = sess[q][j].subs \ {w}
          BY <1>1, <1>3, <3>1, UnsubscribedSubs
        <4> QED BY <4>1
      <3>2. CASE pc # "done" BY <1>3, <3>2
      <3> QED BY <3>1, <3>2
    <2>3. r.pc # "streaming" BY <1>6, <1>8
    <2> QED BY <1>2, <1>3, <1>8, <2>1, <2>2, <2>3, DeckMoves
  <1>7. CASE pc = "streaming"
    <2>1. row[k] # "ended" /\ w \in sess[p][k].subs /\ UNCHANGED sess BY <1>3, <1>7, <1>9
    <2> HIDE DEF p, k
    <2>2. /\ deck' \in [Watchers -> Stream] /\ deck'[w] = r
          /\ \A x \in Watchers : x # w => deck'[x] = deck[x]
      BY <1>1, <1>2, <1>8 DEF HealthTypes
    <2>3. HealthTypes' BY <1>1, <1>3, <2>1, <2>2 DEF HealthTypes
    <2>4. UNCHANGED <<active, shared, job>> BY DEF callVars
    <2>5. CallTypes' /\ EndsForget' /\ EndsKnown'
      BY <2>4 DEF DeckInv, CallTypes, EndsForget, EndsKnown, Ending
    <2>6. StreamsSubscribed' BY <1>1, <1>8, <2>1, <2>2 DEF StreamsSubscribed
    <2>7. EvictionUnderWay'
      <3> SUFFICES ASSUME NEW x \in Watchers, NEW j \in Conferences, Shows(x, j)', row'[j] = "ended"
                   PROVE  Evicting(j)' \/ Pending(hmail'[deck'[x].pod], j)
        BY DEF EvictionUnderWay
      <3>1. x # w BY <1>3, <1>8, <2>1, <2>2 DEF Shows
      <3>2. Shows(x, j) /\ row[j] = "ended" /\ deck'[x] = deck[x] BY <1>3, <2>2, <3>1 DEF Shows
      <3>3. Evicting(j) \/ Pending(hmail[deck[x].pod], j) BY <3>2 DEF DeckInv, EvictionUnderWay
      <3> QED BY <1>3, <2>4, <3>2, <3>3 DEF Evicting
    <2> QED BY <2>3, <2>5, <2>6, <2>7 DEF DeckInv
  <1> QED BY <1>6, <1>7

-----------------------------------------------------------------------------
(* The jobs that start and end sessions.                                   *)

LEMMA JobTypes ==
  ASSUME CallTypes, NEW p \in Pods, NEW k \in Sessions
  PROVE  job[p][k] \in Job /\ job[p][k].known \in BOOLEAN
  BY DEF CallTypes, Job

(* One job moves.                                                          *)
LEMMA JobMoves ==
  ASSUME DeckInv, NEW p \in Pods, NEW k \in Sessions, NEW r \in Job,
         job' = [job EXCEPT ![p][k] = r],
         active' \in [Pods -> SUBSET Sessions], shared' \subseteq Sessions,
         k \in Conferences /\ r.pc # "none" => r.known,
         r.pc \in {"redis", "row", "evict"} => k \notin active'[p],
         \A q \in Pods, j \in Sessions :
           j \in active'[q] /\ j \notin active[q] => q = p /\ j = k
  PROVE  CallTypes' /\ EndsForget' /\ EndsKnown' /\ job'[p][k] = r
  <1>1. job \in [Pods -> [Sessions -> Job]] BY DEF DeckInv, CallTypes
  <1>2. /\ job' \in [Pods -> [Sessions -> Job]] /\ job'[p][k] = r
        /\ \A q \in Pods, j \in Sessions : q # p \/ j # k => job'[q][j] = job[q][j]
    BY <1>1
  <1>3. CallTypes' BY <1>2 DEF CallTypes
  <1>4. EndsForget' BY <1>2 DEF DeckInv, EndsForget, Ending
  <1>5. EndsKnown' BY <1>2 DEF DeckInv, EndsKnown
  <1> QED BY <1>2, <1>3, <1>4, <1>5

LEMMA EvictionsStay ==
  ASSUME DeckInv, NEW p \in Pods, NEW k \in Sessions, NEW r \in Job,
         job' = [job EXCEPT ![p][k] = r]
  PROVE  \A j \in Sessions : Evicting(j) /\ (j # k \/ job[p][k].pc # "evict") => Evicting(j)'
  <1>1. job \in [Pods -> [Sessions -> Job]] BY DEF DeckInv, CallTypes
  <1>2. \A q \in Pods, j \in Sessions : q # p \/ j # k => job'[q][j] = job[q][j] BY <1>1
  <1> SUFFICES ASSUME NEW j \in Sessions, Evicting(j), j # k \/ job[p][k].pc # "evict"
               PROVE  Evicting(j)'
    OBVIOUS
  <1>3. PICK q \in Pods : job[q][j].pc = "evict" BY DEF Evicting
  <1>4. q # p \/ j # k BY <1>3
  <1> QED BY <1>2, <1>3, <1>4 DEF Evicting

LEMMA DecksAtRest ==
  ASSUME DeckInv, UNCHANGED <<sess, deck>>
  PROVE  StreamsOn
  BY DeckTypes, StreamsOnKept DEF DeckInv, SubsKept

(* A job moves and nobody hears of it yet.                                 *)
LEMMA QuietJob ==
  ASSUME DeckInv, CallTypes', EndsForget', EndsKnown', UNCHANGED <<sess, hmail, deck>>,
         row' \in [Sessions -> {"none", "open", "ended"}],
         \A k \in Conferences : row'[k] = "ended" => row[k] = "ended" \/ Evicting(k)',
         \A k \in Conferences : Evicting(k) => Evicting(k)'
  PROVE  DeckInv'
  <1>1. HealthTypes' BY DEF DeckInv, HealthTypes
  <1>2. StreamsOn BY DecksAtRest
  <1> QED BY <1>1, <1>2, DeckStep

(* OnCallEndedWithReason for a call.                                       *)
LEMMA CallEndsJob ==
  ASSUME DeckInv, NEW p \in Pods, NEW k \in Sessions, k \notin Conferences, CallEnds(p, k)
  PROVE  /\ CallTypes' /\ EndsForget' /\ EndsKnown'
         /\ \A j \in Conferences : Evicting(j) => Evicting(j)'
  <1> DEFINE r == [pc |-> "redis", known |-> k \in active[p]]
  <1>1. r \in Job /\ r.pc = "redis" /\ r.known \in BOOLEAN BY DEF Job
  <1>2. job' = [job EXCEPT ![p][k] = r] BY DEF CallEnds
  <1> HIDE DEF r
  <1>3. active' = [active EXCEPT ![p] = @ \ {k}] /\ UNCHANGED shared BY DEF CallEnds
  <1>4. CallTypes BY DEF DeckInv
  <1>5. /\ active' \in [Pods -> SUBSET Sessions] /\ k \notin active'[p]
        /\ \A q \in Pods : active'[q] \subseteq active[q]
    BY <1>3, <1>4 DEF CallTypes
  <1>6. shared' \subseteq Sessions BY <1>3, <1>4 DEF CallTypes
  <1>7. \A q \in Pods, j \in Sessions : j \in active'[q] /\ j \notin active[q] => q = p /\ j = k
    BY <1>5
  <1>8. k \in Conferences /\ r.pc # "none" => r.known OBVIOUS
  <1>9. r.pc \in {"redis", "row", "evict"} => k \notin active'[p] BY <1>5
  <1>10. CallTypes' /\ EndsForget' /\ EndsKnown'
    BY <1>1, <1>2, <1>5, <1>6, <1>7, <1>8, <1>9, JobMoves
  <1>11. \A j \in Conferences : Evicting(j) => Evicting(j)'
    <2>1. \A j \in Conferences : j \in Sessions /\ j # k OBVIOUS
    <2> QED BY <1>1, <1>2, <2>1, EvictionsStay
  <1> QED BY <1>10, <1>11

LEMMA ConferenceEndsJob ==
  ASSUME DeckInv, NEW p \in Pods, NEW k \in Sessions, ConferenceEnds(p, k), job[p][k] = NoJob
  PROVE  /\ CallTypes' /\ EndsForget' /\ EndsKnown'
         /\ \A j \in Conferences : Evicting(j) => Evicting(j)'
  <1> DEFINE r == [pc |-> "row", known |-> TRUE]
  <1>1. r \in Job /\ r.pc = "row" /\ r.known BY DEF Job
  <1>2. job' = [job EXCEPT ![p][k] = r] BY DEF ConferenceEnds
  <1> HIDE DEF r
  <1>3. active' = [active EXCEPT ![p] = @ \ {k}] /\ shared' = shared \ {k} BY DEF ConferenceEnds
  <1>4. CallTypes BY DEF DeckInv
  <1>5. /\ active' \in [Pods -> SUBSET Sessions] /\ k \notin active'[p]
        /\ \A q \in Pods : active'[q] \subseteq active[q]
    BY <1>3, <1>4 DEF CallTypes
  <1>6. shared' \subseteq Sessions BY <1>3, <1>4 DEF CallTypes
  <1>7. job[p][k].pc = "none" BY DEF NoJob
  <1>8. CallTypes' /\ EndsForget' /\ EndsKnown' BY <1>1, <1>2, <1>5, <1>6, JobMoves
  <1>9. \A j \in Conferences : Evicting(j) => Evicting(j)'
    <2>1. \A j \in Conferences : j \in Sessions /\ job[p][k].pc # "evict" BY <1>7
    <2> QED BY <1>1, <1>2, <2>1, EvictionsStay
  <1> QED BY <1>8, <1>9

LEMMA HangupDeck ==
  ASSUME DeckInv, NEW c \in Conns, NEW k \in Sessions, Pod(c) \in Pods, Hangup(c, k)
  PROVE  DeckInv'
  <1>1. job[Pod(c)][k] = NoJob /\ UNCHANGED <<sess, hmail, deck, row>> BY DEF Hangup, healthVars
  <1>2. /\ CallTypes' /\ EndsForget' /\ EndsKnown'
        /\ \A j \in Conferences : Evicting(j) => Evicting(j)'
    BY <1>1, CallEndsJob, ConferenceEndsJob DEF Hangup
  <1>3. row' \in [Sessions -> {"none", "open", "ended"}] BY <1>1 DEF DeckInv, HealthTypes
  <1> QED BY <1>1, <1>2, <1>3, QuietJob

LEMMA GraceEndsCallDeck ==
  ASSUME DeckInv, NEW p \in Pods, NEW d \in Phones, GraceEndsCall(p, d)
  PROVE  DeckInv'
  <1>1. UNCHANGED <<sess, hmail, deck, row>> BY DEF GraceEndsCall, healthVars
  <1>2. /\ CallTypes' /\ EndsForget' /\ EndsKnown'
        /\ \A j \in Conferences : Evicting(j) => Evicting(j)'
    <2>1. CASE \E k \in SessionsOf(FALSE) : CallEnds(p, k)
      <3>1. PICK k \in SessionsOf(FALSE) : CallEnds(p, k) BY <2>1
      <3>2. k \in Sessions /\ k \notin Conferences BY DEF SessionsOf, DeckInv, CallTypes
      <3> QED BY <3>1, <3>2, CallEndsJob
    <2>2. CASE UNCHANGED <<active, shared, job>>
      BY <2>2 DEF DeckInv, CallTypes, EndsForget, EndsKnown, Ending, Evicting
    <2> QED BY <2>1, <2>2 DEF GraceEndsCall, callVars
  <1>3. row' \in [Sessions -> {"none", "open", "ended"}] BY <1>1 DEF DeckInv, HealthTypes
  <1> QED BY <1>1, <1>2, <1>3, QuietJob

LEMMA ForceEndDeck ==
  ASSUME DeckInv, NEW p \in Pods, NEW k \in Sessions, ForceEnd(p, k)
  PROVE  DeckInv'
  <1>1. HealthTypes /\ StreamsSubscribed BY DEF DeckInv
  <1>2. /\ publish(p, [kind |-> "disconnect", key |-> k]) /\ deck' = Told(p, k)
        /\ UNCHANGED <<sess, row>> /\ job[p][k] = NoJob
    BY DEF ForceEnd, NotifyDisconnected
  <1>3. /\ CallTypes' /\ EndsForget' /\ EndsKnown'
        /\ \A j \in Conferences : Evicting(j) => Evicting(j)'
    <2>1. CASE UNCHANGED <<active, shared, job>>
      BY <2>1 DEF DeckInv, CallTypes, EndsForget, EndsKnown, Ending, Evicting
    <2> QED BY <1>2, <2>1, CallEndsJob, ConferenceEndsJob DEF ForceEnd, callVars
  <1>4. [kind |-> "disconnect", key |-> k] \in Envelope BY DEF Envelope
  <1>5. /\ hmail' \in [Pods -> Seq(Envelope)]
        /\ \A q \in Pods : \A j : Pending(hmail[q], j) => Pending(hmail'[q], j)
    BY <1>1, <1>2, <1>4, Published
  <1>6. deck' \in [Watchers -> Stream] /\ StreamsOn BY <1>1, <1>2, Notified
  <1>7. HealthTypes' BY <1>1, <1>2, <1>5, <1>6 DEF HealthTypes
  <1>8. ASSUME NEW w \in Watchers, NEW j \in Conferences, Shows(w, j)'
        PROVE  Pending(hmail[deck[w].pod], j) => Pending(hmail'[deck'[w].pod], j)
    <2>1. deck'[w].pod = deck[w].pod /\ deck[w].pod \in Pods
      BY <1>1, <1>6, <1>8, DeckTypes DEF StreamsOn, Shows
    <2> QED BY <1>5, <2>1
  <1> QED BY <1>2, <1>3, <1>6, <1>7, <1>8, DeckStep

LEMMA OnConnClosedDeck ==
  ASSUME DeckInv, NEW c \in Conns, Pod(c) \in Pods, OnConnClosed(c)
  PROVE  DeckInv'
  <1> DEFINE p == Pod(c)
             confs == SessionsOf(TRUE) \cap active[p]
             row1 == [pc |-> "row", known |-> TRUE]
  <1>1. UNCHANGED <<sess, hmail, deck, row>> BY DEF OnConnClosed, healthVars
  <1>2. CallTypes /\ EndsForget /\ EndsKnown BY DEF DeckInv
  <1>3. \/ UNCHANGED <<active, shared, job>>
        \/ /\ active' = [active EXCEPT ![p] = @ \ confs] /\ shared' = shared \ confs
           /\ job' = [job EXCEPT ![p] = [k \in Sessions |-> IF k \in confs THEN row1 ELSE @[k]]]
    BY DEF OnConnClosed, callVars
  <1>4. row' \in [Sessions -> {"none", "open", "ended"}] BY <1>1 DEF DeckInv, HealthTypes
  <1>5. CASE UNCHANGED <<active, shared, job>>
    <2>1. /\ CallTypes' /\ EndsForget' /\ EndsKnown'
          /\ \A j \in Conferences : Evicting(j) => Evicting(j)'
      BY <1>2, <1>5 DEF CallTypes, EndsForget, EndsKnown, Ending, Evicting
    <2> QED BY <1>1, <1>4, <2>1, QuietJob
  <1>6. CASE /\ active' = [active EXCEPT ![p] = @ \ confs] /\ shared' = shared \ confs
             /\ job' = [job EXCEPT ![p] = [k \in Sessions |-> IF k \in confs THEN row1 ELSE @[k]]]
    <2>1. row1 \in Job /\ row1.pc = "row" /\ row1.known BY DEF Job
    <2>2. confs \subseteq Sessions /\ confs \subseteq active[p] BY <1>2 DEF CallTypes, SessionsOf
    <2> HIDE DEF row1, confs
    <2>3. /\ active' \in [Pods -> SUBSET Sessions] /\ active'[p] = active[p] \ confs
          /\ \A q \in Pods : q # p => active'[q] = active[q]
      BY <1>2, <1>6 DEF CallTypes
    <2>4. job \in [Pods -> [Sessions -> Job]] BY <1>2 DEF CallTypes
    <2>5. /\ job' \in [Pods -> [Sessions -> Job]]
          /\ \A k \in Sessions : job'[p][k] = IF k \in confs THEN row1 ELSE job[p][k]
          /\ \A q \in Pods : q # p => job'[q] = job[q]
      BY <1>6, <2>1, <2>4
    <2>6. CallTypes' BY <1>2, <1>6, <2>3, <2>5 DEF CallTypes
    <2>7. EndsForget' BY <1>2, <2>3, <2>5 DEF EndsForget, Ending
    <2>8. EndsKnown' BY <1>2, <2>1, <2>5 DEF EndsKnown
    <2>9. ASSUME NEW j \in Conferences, Evicting(j) PROVE Evicting(j)'
      <3>1. PICK q \in Pods : job[q][j].pc = "evict" BY <2>9 DEF Evicting
      <3>2. j \notin active[q] BY <1>2, <3>1 DEF EndsForget, Ending
      <3>3. job'[q][j] = job[q][j] BY <2>2, <2>5, <3>2
      <3> QED BY <3>1, <3>3 DEF Evicting
    <2> QED BY <1>1, <1>4, <2>6, <2>7, <2>8, <2>9, QuietJob
  <1> QED BY <1>3, <1>5, <1>6

LEMMA StartDeck ==
  ASSUME DeckInv, NEW p \in Pods, NEW k \in Sessions, Start(p, k)
  PROVE  DeckInv'
  <1> DEFINE r == [pc |-> "share", known |-> TRUE]
  <1>1. r \in Job /\ r.pc = "share" /\ r.known BY DEF Job
  <1>2. /\ job[p][k] = NoJob /\ UNCHANGED <<sess, hmail, deck>>
        /\ active' = [active EXCEPT ![p] = @ \cup {k}] /\ job' = [job EXCEPT ![p][k] = r]
    BY DEF Start
  <1> HIDE DEF r
  <1>3. CallTypes /\ HealthTypes BY DEF DeckInv
  <1>4. \/ k \in Conferences /\ shared' = shared \cup {k} /\ UNCHANGED row
        \/ k \notin Conferences /\ row' = [row EXCEPT ![k] = "open"] /\ UNCHANGED shared
    BY DEF Start
  <1>5. /\ row' \in [Sessions -> {"none", "open", "ended"}]
        /\ \A j \in Conferences : row'[j] = row[j]
    BY <1>3, <1>4 DEF HealthTypes
  <1>6. shared' \subseteq Sessions BY <1>3, <1>4 DEF CallTypes
  <1>7. /\ active' \in [Pods -> SUBSET Sessions]
        /\ \A q \in Pods, j \in Sessions :
             j \in active'[q] /\ j \notin active[q] => q = p /\ j = k
    BY <1>2, <1>3 DEF CallTypes
  <1>8. job[p][k].pc = "none" BY <1>2 DEF NoJob
  <1>9. CallTypes' /\ EndsForget' /\ EndsKnown'
    BY <1>1, <1>2, <1>6, <1>7, JobMoves
  <1>10. \A j \in Conferences : Evicting(j) => Evicting(j)'
    <2>1. \A j \in Conferences : j \in Sessions /\ job[p][k].pc # "evict" BY <1>8
    <2> QED BY <1>1, <1>2, <2>1, EvictionsStay
  <1> QED BY <1>2, <1>5, <1>9, <1>10, QuietJob

LEMMA StartedDeck ==
  ASSUME DeckInv, NEW p \in Pods, NEW k \in Sessions, Started(p, k)
  PROVE  DeckInv'
  <1>1. NoJob \in Job /\ NoJob.pc = "none" BY DEF NoJob, Job
  <1>2. /\ job[p][k].pc = "share" /\ job' = [job EXCEPT ![p][k] = NoJob]
        /\ shared' = shared \cup {k} /\ row' = [row EXCEPT ![k] = "open"]
        /\ Init_(p, k) /\ UNCHANGED <<hmail, deck, active>>
    BY DEF Started
  <1>3. CallTypes /\ HealthTypes /\ StreamsSubscribed BY DEF DeckInv
  <1>4. /\ row' \in [Sessions -> {"none", "open", "ended"}]
        /\ \A j \in Sessions : row'[j] = "ended" => row[j] = "ended"
    BY <1>2, <1>3 DEF HealthTypes
  <1>5. active' \in [Pods -> SUBSET Sessions] /\ shared' \subseteq Sessions
    BY <1>2, <1>3 DEF CallTypes
  <1>6. CallTypes' /\ EndsForget' /\ EndsKnown'
    BY <1>1, <1>2, <1>5, JobMoves
  <1>7. \A j \in Conferences : Evicting(j) => Evicting(j)'
    <2>1. \A j \in Conferences : j \in Sessions /\ job[p][k].pc # "evict" BY <1>2
    <2> QED BY <1>1, <1>2, <2>1, EvictionsStay
  <1>8. sess' \in [Pods -> [Sessions -> Telemetry]] /\ SubsKept
    BY <1>2, <1>3, Stamps DEF Init_
  <1>9. HealthTypes' BY <1>2, <1>3, <1>4, <1>8 DEF HealthTypes
  <1>10. StreamsOn BY <1>2, <1>3, <1>8, StreamsOnKept
  <1> QED BY <1>2, <1>4, <1>6, <1>9, <1>10, <1>7, DeckStep

LEMMA RemoveFromRedisDeck ==
  ASSUME DeckInv, NEW p \in Pods, NEW k \in Sessions, RemoveFromRedis(p, k)
  PROVE  DeckInv'
  <1> DEFINE r == [job[p][k] EXCEPT !.pc = "evict"]
  <1>1. CallTypes /\ HealthTypes BY DEF DeckInv
  <1>2. /\ job[p][k].pc = "redis" /\ shared' = shared \ {k}
        /\ UNCHANGED <<sess, hmail, deck, row, active>>
    BY DEF RemoveFromRedis, healthVars
  <1>3. job[p][k] \in Job BY <1>1, JobTypes
  <1>4. r \in Job /\ r.pc = "evict" /\ r.known = job[p][k].known BY <1>3 DEF Job
  <1>5. job' = [job EXCEPT ![p][k] = r] BY DEF RemoveFromRedis
  <1> HIDE DEF r
  <1>6. active' \in [Pods -> SUBSET Sessions] /\ shared' \subseteq Sessions
    BY <1>1, <1>2 DEF CallTypes
  <1>7. k \notin active[p] BY <1>2 DEF DeckInv, EndsForget, Ending
  <1>8. k \in Conferences => r.known BY <1>2, <1>4 DEF DeckInv, EndsKnown
  <1>9. CallTypes' /\ EndsForget' /\ EndsKnown'
    BY <1>2, <1>4, <1>5, <1>6, <1>7, <1>8, JobMoves
  <1>10. \A j \in Conferences : Evicting(j) => Evicting(j)'
    <2>1. \A j \in Conferences : j \in Sessions /\ job[p][k].pc # "evict" BY <1>2
    <2> QED BY <1>4, <1>5, <2>1, EvictionsStay
  <1>11. row' \in [Sessions -> {"none", "open", "ended"}] BY <1>1, <1>2 DEF HealthTypes
  <1> QED BY <1>2, <1>9, <1>10, <1>11, QuietJob

LEMMA RowStepDeck ==
  ASSUME DeckInv, NEW p \in Pods, NEW k \in Sessions, RowStep(p, k)
  PROVE  DeckInv'
  <1> DEFINE moved == [job[p][k] EXCEPT !.pc = "evict"]
             r == IF k \in Conferences THEN moved ELSE NoJob
  <1>1. CallTypes /\ HealthTypes BY DEF DeckInv
  <1>2. /\ job[p][k].pc = "row" /\ row' = [row EXCEPT ![k] = "ended"]
        /\ UNCHANGED <<sess, hmail, deck, active, shared>>
    BY DEF RowStep
  <1>3. job[p][k] \in Job BY <1>1, JobTypes
  <1>4. moved \in Job /\ moved.pc = "evict" /\ moved.known = job[p][k].known BY <1>3 DEF Job
  <1>5. job' = [job EXCEPT ![p][k] = r] BY DEF RowStep
  <1> HIDE DEF moved
  <1>6. /\ r \in Job /\ r.known \in BOOLEAN
        /\ (k \in Conferences => r.pc = "evict" /\ r.known = job[p][k].known)
        /\ k \notin Conferences => r.pc = "none"
    BY <1>4 DEF NoJob, Job
  <1> HIDE DEF r
  <1>7. active' \in [Pods -> SUBSET Sessions] /\ shared' \subseteq Sessions
    BY <1>1, <1>2 DEF CallTypes
  <1>8. k \notin active[p] /\ k \notin active'[p] BY <1>2 DEF DeckInv, EndsForget, Ending
  <1>9. k \in Conferences => r.known BY <1>2, <1>6 DEF DeckInv, EndsKnown
  <1>10. CallTypes' /\ EndsForget' /\ EndsKnown' /\ job'[p][k] = r
    <2>1. UNCHANGED active BY <1>2
    <2>2. CASE k \in Conferences
      <3>1. r.pc = "evict" /\ r.known BY <1>6, <1>9, <2>2
      <3> QED BY <1>5, <1>6, <1>7, <1>8, <2>1, <3>1, JobMoves
    <2>3. CASE k \notin Conferences
      <3>1. r.pc = "none" BY <1>6, <2>3
      <3> QED BY <1>5, <1>6, <1>7, <2>1, <3>1, JobMoves
    <2> QED BY <2>2, <2>3
  <1>11. row' \in [Sessions -> {"none", "open", "ended"}] BY <1>1, <1>2 DEF HealthTypes
  <1>12. \A j \in Conferences : row'[j] = "ended" => row[j] = "ended" \/ Evicting(j)'
    <2>1. k \in Conferences => Evicting(k)' BY <1>6, <1>10 DEF Evicting
    <2> QED BY <1>1, <1>2, <2>1 DEF HealthTypes
  <1>13. \A j \in Conferences : Evicting(j) => Evicting(j)'
    <2>1. \A j \in Conferences : j \in Sessions /\ job[p][k].pc # "evict" BY <1>2
    <2> QED BY <1>5, <1>6, <2>1, EvictionsStay
  <1> QED BY <1>2, <1>10, <1>11, <1>12, <1>13, QuietJob

LEMMA EvictStepDeck ==
  ASSUME DeckInv, NEW p \in Pods, NEW k \in Sessions, EvictStep(p, k)
  PROVE  DeckInv'
  <1> DEFINE moved == [job[p][k] EXCEPT !.pc = "row"]
             r == IF k \in Conferences THEN NoJob ELSE moved
  <1>1. CallTypes /\ HealthTypes /\ StreamsSubscribed BY DEF DeckInv
  <1>2. /\ job[p][k].pc = "evict" /\ UNCHANGED <<row, active, shared>>
        /\ IF job[p][k].known THEN Evict(p, k) ELSE UNCHANGED <<sess, hmail, deck>>
    BY DEF EvictStep
  <1>3. job[p][k] \in Job BY <1>1, JobTypes
  <1>4. moved \in Job /\ moved.pc = "row" BY <1>3 DEF Job
  <1>5. job' = [job EXCEPT ![p][k] = r] BY DEF EvictStep
  <1> HIDE DEF moved
  <1>6. /\ r \in Job /\ r.known \in BOOLEAN
        /\ (k \in Conferences => r.pc = "none") /\ (r.pc = "none" \/ r.pc = "row")
    BY <1>4 DEF NoJob, Job
  <1> HIDE DEF r
  <1>7. active' \in [Pods -> SUBSET Sessions] /\ shared' \subseteq Sessions
    BY <1>1, <1>2 DEF CallTypes
  <1>8. k \notin active[p] /\ k \notin active'[p] BY <1>2 DEF DeckInv, EndsForget, Ending
  <1>9. CallTypes' /\ EndsForget' /\ EndsKnown'
    <2>1. UNCHANGED active BY <1>2
    <2>2. CASE r.pc = "none" BY <1>5, <1>6, <1>7, <2>1, <2>2, JobMoves
    <2>3. CASE r.pc = "row"
      <3>1. k \notin Conferences BY <1>6, <2>3
      <3> QED BY <1>5, <1>6, <1>7, <1>8, <2>1, <2>3, <3>1, JobMoves
    <2> QED BY <1>6, <2>2, <2>3
  <1>10. k \in Conferences => job[p][k].known BY <1>2 DEF DeckInv, EndsKnown
  <1>11. \A j \in Conferences : Evicting(j) => Evicting(j)' \/ j = k
    <2>1. \A j \in Conferences : j \in Sessions OBVIOUS
    <2> QED BY <1>5, <1>6, <2>1, EvictionsStay
  <1>12. CASE Evict(p, k)
    <2> DEFINE env == [kind |-> "evict", key |-> k]
    <2>1. publish(p, env) /\ evictSession(p, k) BY <1>12 DEF Evict
    <2>2. env \in Envelope BY DEF Envelope
    <2>3. /\ sess' \in [Pods -> [Sessions -> Telemetry]] /\ deck' \in [Watchers -> Stream]
          /\ StreamsOn
          /\ \A w \in Watchers : deck'[w].pc = "streaming" => deck[w].pod # p \/ deck[w].key # k
      BY <1>1, <2>1, Evicted
    <2>4. /\ hmail' \in [Pods -> Seq(Envelope)]
          /\ \A q \in Pods : \A j : Pending(hmail[q], j) => Pending(hmail'[q], j)
          /\ \A q \in Pods \ {p} : \E i \in 1 .. Len(hmail'[q]) : hmail'[q][i] = env
      <3> HIDE DEF env
      <3> QED BY <1>1, <2>1, <2>2, Published
    <2>5. HealthTypes' BY <1>1, <1>2, <2>3, <2>4 DEF HealthTypes
    <2>6. ASSUME NEW w \in Watchers, NEW j \in Conferences, Shows(w, j)'
          PROVE  /\ Pending(hmail[deck[w].pod], j) => Pending(hmail'[deck'[w].pod], j)
                 /\ Evicting(j) => Evicting(j)' \/ Pending(hmail'[deck'[w].pod], j)
      <3>1. /\ deck'[w].pod = deck[w].pod /\ deck[w].pod \in Pods
            /\ deck[w].key = j /\ deck'[w].pc = "streaming"
        BY <1>1, <2>3, <2>6, DeckTypes DEF StreamsOn, Shows
      <3>2. j = k => Pending(hmail'[deck'[w].pod], j)
        <4> SUFFICES ASSUME j = k PROVE Pending(hmail'[deck'[w].pod], j) OBVIOUS
        <4>1. deck[w].pod # p BY <2>3, <3>1
        <4>2. \E i \in 1 .. Len(hmail'[deck[w].pod]) : hmail'[deck[w].pod][i] = env
          BY <2>4, <3>1, <4>1
        <4> QED BY <3>1, <4>2 DEF Pending
      <3> QED BY <1>11, <2>4, <3>1, <3>2
    <2> QED BY <1>2, <1>9, <2>3, <2>5, <2>6, DeckStep
  <1>13. CASE ~ Evict(p, k)
    <2>1. UNCHANGED <<sess, hmail, deck>> /\ k \notin Conferences BY <1>2, <1>10, <1>13
    <2>2. row' \in [Sessions -> {"none", "open", "ended"}] BY <1>1, <1>2 DEF HealthTypes
    <2> QED BY <1>2, <1>9, <1>11, <2>1, <2>2, QuietJob
  <1> QED BY <1>12, <1>13

LEMMA DecksIdle ==
  ASSUME DeckInv, UNCHANGED <<healthVars, callVars>>
  PROVE  DeckInv'
  <1>1. UNCHANGED <<sess, hmail, deck, row, active, shared, job>> BY DEF healthVars, callVars
  <1>2. HealthTypes' /\ CallTypes' BY <1>1 DEF DeckInv, HealthTypes, CallTypes
  <1>3. EndsForget' /\ EndsKnown' BY <1>1 DEF DeckInv, EndsForget, EndsKnown, Ending
  <1>4. row' \in [Sessions -> {"none", "open", "ended"}] BY <1>1 DEF DeckInv, HealthTypes
  <1>5. \A k \in Conferences : Evicting(k) => Evicting(k)' BY <1>1 DEF Evicting
  <1> QED BY <1>1, <1>2, <1>3, <1>4, <1>5, QuietJob

LEMMA DeckNext ==
  ASSUME LinkTypes, DeckInv, Next
  PROVE  DeckInv'
  <1>1. ASSUME NEW c \in Conns, conn[c].pc # "free" PROVE Pod(c) \in Pods
    BY <1>1, AtWork DEF Pod
  <1>2. ASSUME NEW c \in Conns, Connection(c) \/ TouchLastSeen(c) PROVE DeckInv'
    <2>1. CASE OnConnClosed(c)
      <3>1. conn[c].pc # "free" BY <2>1 DEF OnConnClosed
      <3> QED BY <1>1, <2>1, <3>1, OnConnClosedDeck
    <2>2. CASE RecordSample(c)
      <3>1. conn[c].pc = "record" /\ Record(Pod(c), conn[c].key) /\ UNCHANGED callVars
        BY <2>2 DEF RecordSample
      <3>2. conn[c].key \in Sessions BY <3>1 DEF LinkTypes
      <3> QED BY <1>1, <3>1, <3>2, RecordDeck
    <2> QED BY <1>2, <2>1, <2>2, DecksIdle
         DEF Connection, SetOnline, OnReconnect, ReadFails, Unregister, SetOffline, TouchLastSeen
  <1>3. ASSUME NEW p \in Pods, Work(p) PROVE DeckInv'
    <2>1. CASE deliverFromRedis(p) BY <2>1, DecksIdle DEF deliverFromRedis
    <2>2. CASE applyRemote(p) /\ Rest BY <2>2, applyRemoteDeck DEF Rest
    <2>3. ASSUME NEW k \in Sessions, Started(p, k) \/ RemoveFromRedis(p, k) \/ EvictStep(p, k) \/ RowStep(p, k)
          PROVE  DeckInv'
      BY <2>3, StartedDeck, RemoveFromRedisDeck, EvictStepDeck, RowStepDeck
    <2>4. ASSUME NEW k \in Sessions, sweepIdleSessions(p, k) \/ Ages(p, k), Rest PROVE DeckInv'
      BY <2>4, sweepDeck, AgesDeck DEF Rest
    <2>5. ASSUME NEW d \in Phones, GraceExpires(p, d) \/ GraceEndsCall(p, d) PROVE DeckInv'
      <3>1. CASE GraceExpires(p, d) BY <3>1, DecksIdle DEF GraceExpires
      <3> QED BY <2>5, <3>1, GraceEndsCallDeck
    <2> QED BY <1>3, <2>1, <2>2, <2>3, <2>4, <2>5 DEF Work
  <1>4. ASSUME NEW p \in Pods, NEW k \in Sessions, Start(p, k) \/ ForceEnd(p, k) PROVE DeckInv'
    BY <1>4, StartDeck, ForceEndDeck
  <1>5. ASSUME NEW c \in Conns, NEW k \in Sessions, Hangup(c, k) \/ LookUp(c, k) PROVE DeckInv'
    <2>1. CASE Hangup(c, k)
      <3>1. conn[c].pc # "free" BY <2>1 DEF Hangup, Reading
      <3> QED BY <1>1, <2>1, <3>1, HangupDeck
    <2>2. CASE LookUp(c, k) BY <2>2, DecksIdle DEF LookUp
    <2> QED BY <1>5, <2>1, <2>2
  <1>6. ASSUME NEW w \in Watchers, Deck(w) \/ (CloseDeck(w) /\ Rest) PROVE DeckInv'
    BY <1>6, GetSessionDeck, subscribeSessionDeck, RecheckEndedDeck, CloseDeckDeck
       DEF Deck, Rest
  <1>7. ASSUME NEW w \in Watchers, NEW p \in Pods, NEW k \in Sessions, OpenDeck(w, p, k),
               UNCHANGED callVars
        PROVE  DeckInv'
    BY <1>7, OpenDeckDeck
  <1>8. ASSUME NEW c \in Conns, NEW p \in Pods, NEW d \in Phones, Register(c, p, d) PROVE DeckInv'
    BY <1>8, DecksIdle DEF Register
  <1>9. ASSUME NEW p \in Pods, NEW d \in Phones, SendTo(p, d) PROVE DeckInv'
    BY <1>9, DecksIdle DEF SendTo
  <1>10. ASSUME NEW d \in Phones, ConnectionLost(d) \/ PresenceExpires(d) PROVE DeckInv'
    BY <1>10, DecksIdle DEF ConnectionLost, PresenceExpires
  <1> QED BY <1>2, <1>3, <1>4, <1>5, <1>6, <1>7, <1>8, <1>9, <1>10 DEF Next

-----------------------------------------------------------------------------
(* The budgets.                                                            *)

LEMMA Spent ==
  ASSUME NEW b \in Budget
  PROVE  /\ b.moves > 0 => [b EXCEPT !.moves = @ - 1] \in Budget
         /\ b.sends > 0 => [b EXCEPT !.sends = @ - 1] \in Budget
         /\ b.decks > 0 => [b EXCEPT !.decks = @ - 1] \in Budget
         /\ b.samples > 0 => [b EXCEPT !.samples = @ - 1] \in Budget
         /\ b.forced > 0 => [b EXCEPT !.forced = @ - 1] \in Budget
  BY DEF Budget

LEMMA BudgetNext ==
  ASSUME left \in Budget, Next
  PROVE  left' \in Budget
  <1>1. ASSUME NEW d \in Phones, ConnectionLost(d) PROVE left' \in Budget
    BY <1>1, Spent DEF ConnectionLost
  <1>2. ASSUME NEW p \in Pods, NEW d \in Phones, SendTo(p, d) PROVE left' \in Budget
    BY <1>2, Spent DEF SendTo
  <1>3. ASSUME left.decks > 0, left' = [left EXCEPT !.decks = @ - 1] PROVE left' \in Budget
    BY <1>3, Spent
  <1>4. ASSUME NEW c \in Conns, NEW k \in Sessions, LookUp(c, k) PROVE left' \in Budget
    BY <1>4, Spent DEF LookUp
  <1>5. ASSUME NEW p \in Pods, NEW k \in Sessions, ForceEnd(p, k) PROVE left' \in Budget
    BY <1>5, Spent DEF ForceEnd
  <1>6. ASSUME NEW c \in Conns, Connection(c) \/ TouchLastSeen(c) PROVE left' \in Budget
    BY <1>6 DEF Connection, TouchLastSeen, SetOnline, OnReconnect, ReadFails, OnConnClosed,
       Unregister, SetOffline, RecordSample
  <1>7. ASSUME NEW p \in Pods, Work(p) PROVE left' \in Budget
    BY <1>7 DEF Work, Rest, deliverFromRedis, Started, RemoveFromRedis, EvictStep, RowStep,
       GraceExpires, GraceEndsCall
  <1>8. ASSUME NEW c \in Conns, NEW p \in Pods, NEW d \in Phones, Register(c, p, d)
        PROVE  left' \in Budget
    BY <1>8 DEF Register
  <1>9. ASSUME NEW d \in Phones, PresenceExpires(d) PROVE left' \in Budget
    BY <1>9 DEF PresenceExpires
  <1>10. ASSUME NEW p \in Pods, NEW k \in Sessions, Start(p, k) PROVE left' \in Budget
    BY <1>10 DEF Start
  <1>11. ASSUME NEW c \in Conns, NEW k \in Sessions, Hangup(c, k) PROVE left' \in Budget
    BY <1>11 DEF Hangup
  <1>12. ASSUME NEW w \in Watchers, Deck(w) \/ (CloseDeck(w) /\ Rest) PROVE left' \in Budget
    BY <1>12 DEF Deck, Rest
  <1> QED BY <1>1, <1>2, <1>3, <1>4, <1>5, <1>6, <1>7, <1>8, <1>9, <1>10, <1>11, <1>12 DEF Next

-----------------------------------------------------------------------------
(* The theorems.                                                           *)

LEMMA LinkInit ==
  ASSUME Init
  PROVE  LinkInv
  <1>1. PICK at \in [Phones -> Pods] :
          /\ presence = at
          /\ conn = [c \in Conns |->
               IF \E d \in Phones : sock[d] = c
                 THEN LET d == CHOOSE d \in Phones : sock[d] = c
                      IN  [pc |-> "read", pod |-> at[d], phone |-> d, key |-> None]
                 ELSE Free]
          /\ hub = [p \in Pods |-> [d \in Phones |-> IF at[d] = p THEN sock[d] ELSE NoConn]]
    BY DEF Init
  <1>2. /\ sock \in [Phones -> Conns] /\ \A d, e \in Phones : sock[d] = sock[e] => d = e
        /\ member = [d \in Phones |-> TRUE] /\ overtaken = {}
    BY DEF Init
  <1>3. ASSUME NEW d \in Phones
        PROVE  conn[sock[d]] = [pc |-> "read", pod |-> at[d], phone |-> d, key |-> None]
    <2>1. sock[d] \in Conns BY <1>2
    <2>2. (CHOOSE e \in Phones : sock[e] = sock[d]) = d BY <1>2
    <2> QED BY <1>1, <2>1, <2>2
  <1>4. ASSUME NEW c \in Conns PROVE conn[c] \in Connected \cup {Free} /\ conn[c].pc # "record"
    <2>1. CASE \E d \in Phones : sock[d] = c
      <3>1. PICK d \in Phones : sock[d] = c BY <2>1
      <3>2. conn[c] = [pc |-> "read", pod |-> at[d], phone |-> d, key |-> None] BY <1>3, <3>1
      <3> QED BY <3>2 DEF Connected
    <2>2. CASE ~ \E d \in Phones : sock[d] = c
      <3>1. conn[c] = Free BY <1>1, <2>2
      <3> QED BY <3>1, FreeIsNot
    <2> QED BY <2>1, <2>2
  <1>5. conn \in [Conns -> Connected \cup {Free}]
    <2>1. \A c \in Conns : conn[c] \in Connected \cup {Free} BY <1>4
    <2> QED BY <1>1, <2>1
  <1>6. hub \in [Pods -> [Phones -> Conns \cup {NoConn}]] BY <1>1, <1>2
  <1>7. presence \in [Phones -> Pods \cup {None, Bare}] /\ member \in [Phones -> BOOLEAN]
    BY <1>1, <1>2
  <1>8. LinkTypes BY <1>2, <1>4, <1>5, <1>6, <1>7 DEF LinkTypes
  <1>9. SocketsServed
    <2>1. ASSUME NEW d \in Phones PROVE conn[sock[d]].pc = "read" /\ conn[sock[d]].phone = d
      <3>1. conn[sock[d]] = [pc |-> "read", pod |-> at[d], phone |-> d, key |-> None] BY <1>3
      <3> QED BY <3>1
    <2> QED BY <2>1 DEF SocketsServed, Serving
  <1>10. PresenceIsLive
    <2>1. \A d \in Phones : presence[d] \in Pods /\ member[d]
      <3>1. presence \in [Phones -> Pods] BY <1>1
      <3>2. \A d \in Phones : member[d] BY <1>2
      <3> QED BY <3>1, <3>2
    <2> QED BY <2>1 DEF PresenceIsLive
  <1> QED BY <1>8, <1>9, <1>10 DEF LinkInv

LEMMA InitInv == Init => IInv
  <1> SUFFICES ASSUME Init PROVE IInv OBVIOUS
  <1>1. LinkInv BY LinkInit
  <1>2. MailTypes
    <2>1. mail \in [Pods -> Seq(Letter)] BY DEF Init
    <2>2. timer \in [Pods -> [Phones -> {"none", "armed", "expired"}]] BY DEF Init
    <2>3. due \subseteq Conns /\ got \in [Conns -> Nat] BY DEF Init
    <2> QED BY <2>1, <2>2, <2>3 DEF MailTypes
  <1>3. left \in Budget BY BudgetsAssumption DEF Init
  <1>4. HealthTypes
    <2>1. Absent \in Telemetry /\ NoDeck \in Stream
      BY DEF Absent, Telemetry, NoDeck, Stream, DeckPCs
    <2>2. sess \in [Pods -> [Sessions -> Telemetry]] BY <2>1 DEF Init, HealthInit
    <2>3. hmail \in [Pods -> Seq(Envelope)] BY DEF Init, HealthInit
    <2>4. deck \in [Watchers -> Stream] BY <2>1 DEF Init, HealthInit
    <2>5. row \in [Sessions -> {"none", "open", "ended"}] BY DEF Init, HealthInit
    <2> QED BY <2>2, <2>3, <2>4, <2>5 DEF HealthTypes
  <1>5. \A p \in Pods, k \in Sessions : job[p][k].pc = "none" BY DEF Init, NoJob
  <1>6. CallTypes
    <2>1. NoJob \in Job BY DEF NoJob, Job
    <2>2. job \in [Pods -> [Sessions -> Job]] BY <2>1 DEF Init
    <2>3. active \in [Pods -> SUBSET Sessions] /\ shared = {} BY DEF Init
    <2> QED BY <2>2, <2>3 DEF CallTypes
  <1>7. \A w \in Watchers : deck[w].pc = "idle" BY DEF Init, HealthInit, NoDeck
  <1>8. StreamsSubscribed BY <1>7 DEF StreamsSubscribed
  <1>9. EvictionUnderWay BY <1>7 DEF EvictionUnderWay, Shows
  <1>10. EndsForget BY <1>5 DEF EndsForget, Ending
  <1>11. EndsKnown BY <1>5 DEF EndsKnown
  <1> QED BY <1>1, <1>2, <1>3, <1>4, <1>6, <1>8, <1>9, <1>10, <1>11 DEF IInv, DeckInv

LEMMA StutterInv == IInv /\ UNCHANGED vars => IInv'
  <1> SUFFICES ASSUME IInv, UNCHANGED vars PROVE IInv' OBVIOUS
  <1>1. UNCHANGED <<healthVars, linkVars, mailVars, timer, callVars, left>> BY DEF vars
  <1>2. LinkInv' BY <1>1, LinksAtRest DEF IInv
  <1>3. DeckInv' BY <1>1, DecksIdle DEF IInv
  <1>4. MailTypes' BY <1>1 DEF IInv, MailTypes, mailVars
  <1> QED BY <1>1, <1>2, <1>3, <1>4 DEF IInv

LEMMA Inductive == IInv /\ [Next]_vars => IInv'
  <1> SUFFICES ASSUME IInv, Next PROVE IInv' BY StutterInv
  <1>1. LinkInv /\ LinkTypes /\ MailTypes /\ DeckInv /\ shared \subseteq Sessions /\ left \in Budget
    BY DEF IInv, LinkInv, DeckInv, CallTypes
  <1> QED BY <1>1, LinkNext, MailNext, DeckNext, BudgetNext DEF IInv

THEOREM Invariance == Spec => []IInv
  BY InitInv, Inductive, PTL DEF Spec

(* Every variable has its type: the goroutine of a connection that is at   *)
(* work has a pod and a phone, and one that records a sample a session.    *)
THEOREM TypeCorrect == Spec => []TypeOK
  <1>1. IInv => TypeOK BY DEF IInv, LinkInv, DeckInv, TypeOK
  <1> QED BY <1>1, Invariance, PTL

(* A phone that is connected keeps its presence record, unless a presence  *)
(* write of an older connection overtakes it (SetOnline, SetOffline).      *)
THEOREM PresenceKept == Spec => []PresenceIsLive
  <1>1. IInv => PresenceIsLive BY DEF IInv, LinkInv
  <1> QED BY <1>1, Invariance, PTL

(* Only GraceExpires lets an armed timer expire.                           *)
LEMMA TimersExpire ==
  ASSUME IInv, Next, NEW p \in Pods, NEW d \in Phones,
         timer[p][d] = "armed", timer'[p][d] = "expired"
  PROVE  \E q \in Pods, e \in Phones : GraceExpires(q, e)
  <1>1. timer \in [Pods -> [Phones -> {"none", "armed", "expired"}]] BY DEF IInv, MailTypes
  <1>2. timer' # timer OBVIOUS
  <1>3. ASSUME NEW a, NEW b, NEW v \in {"none", "armed"}, timer' = [timer EXCEPT ![a][b] = v]
        PROVE  FALSE
    BY <1>1, <1>3
  <1>4. ASSUME NEW c \in Conns, Connection(c) PROVE FALSE
    <2>1. CASE OnReconnect(c)
      <3> DEFINE v == IF timer[Pod(c)][Phone(c)] = "armed" THEN "none"
                      ELSE timer[Pod(c)][Phone(c)]
      <3>1. timer' = [timer EXCEPT ![Pod(c)][Phone(c)] = v] BY <2>1 DEF OnReconnect
      <3>2. CASE timer[Pod(c)][Phone(c)] = "armed" BY <1>3, <3>1, <3>2
      <3>3. CASE timer[Pod(c)][Phone(c)] # "armed" BY <1>1, <3>1, <3>3
      <3> QED BY <3>2, <3>3
    <2>2. CASE OnConnClosed(c)
      <3>1. UNCHANGED timer \/ timer' = [timer EXCEPT ![Pod(c)][Phone(c)] = "armed"]
        BY <2>2 DEF OnConnClosed
      <3> QED BY <1>2, <1>3, <3>1
    <2> QED BY <1>2, <1>4, <2>1, <2>2
         DEF Connection, SetOnline, ReadFails, Unregister, SetOffline, RecordSample
  <1>5. ASSUME NEW q \in Pods, Work(q) PROVE \E e \in Phones : GraceExpires(q, e)
    <2>1. CASE deliverFromRedis(q)
      <3> DEFINE e == Head(mail[q]).phone
                 v == IF timer[q][e] = "armed" THEN "none" ELSE timer[q][e]
      <3>1. UNCHANGED timer \/ timer' = [timer EXCEPT ![q][e] = v] BY <2>1 DEF deliverFromRedis
      <3>2. CASE timer[q][e] = "armed" BY <1>2, <1>3, <3>1, <3>2
      <3>3. CASE timer[q][e] # "armed" BY <1>1, <1>2, <3>1, <3>3
      <3> QED BY <3>2, <3>3
    <2>2. ASSUME NEW e \in Phones, GraceEndsCall(q, e) PROVE FALSE
      <3>1. timer' = [timer EXCEPT ![q][e] = "none"] BY <2>2 DEF GraceEndsCall
      <3> QED BY <1>3, <3>1
    <2> QED BY <1>2, <1>5, <2>1, <2>2
         DEF Work, Rest, Started, RemoveFromRedis, EvictStep, RowStep
  <1>6. ASSUME UNCHANGED timer PROVE FALSE BY <1>2, <1>6
  <1> QED BY <1>4, <1>5, <1>6 DEF Next, Rest, Deck, TouchLastSeen, Register, ConnectionLost,
       PresenceExpires, SendTo, Start, ForceEnd, Hangup, LookUp

(* No grace window runs out on a phone that is back, on whichever pod.     *)
THEOREM MovedCallsSurvive == Spec => CallSurvivesMove
  <1> DEFINE Survives ==
        \A p \in Pods, d \in Phones : timer[p][d] = "armed" /\ timer'[p][d] = "expired" =>
          d \in overtaken \/ sock[d] = NoConn \/ conn[sock[d]].pc = "online"
  <1>1. IInv /\ [Next]_vars => [Survives]_vars
    <2> SUFFICES ASSUME IInv, Next, NEW p \in Pods, NEW d \in Phones,
                        timer[p][d] = "armed", timer'[p][d] = "expired"
                 PROVE  d \in overtaken \/ sock[d] = NoConn \/ conn[sock[d]].pc = "online"
      OBVIOUS
    <2>1. PICK q \in Pods, e \in Phones : GraceExpires(q, e) BY TimersExpire
    <2>2. timer \in [Pods -> [Phones -> {"none", "armed", "expired"}]] BY DEF IInv, MailTypes
    <2>3. q = p /\ e = d BY <2>1, <2>2 DEF GraceExpires
    <2>4. presence[d] \notin Pods BY <2>1, <2>2, <2>3 DEF GraceExpires, HardwareOnlineOnLine
    <2> QED BY <2>4 DEF IInv, LinkInv, SocketsServed, PresenceIsLive, Serving
  <1> QED BY <1>1, Invariance, PTL DEF Spec, CallSurvivesMove

-----------------------------------------------------------------------------
(* The decks that hold a session between getting it and subscribing to it. *)
(* A conference is evicted only after its row says ended (EvictionsFollow; *)
(* nobody else works on a conference that is being started, StartsAlone),  *)
(* and no sweep takes a session that was got a moment ago (HeldIsFresh):   *)
(* a deck that misses an eviction finds the row ended (MissedIsOver).      *)

StartsAlone ==
  \A p \in Pods, k \in Conferences :
    /\ job[p][k].pc # "redis"
    /\ job[p][k].pc = "share" =>
         /\ row[k] = "none"
         /\ \A q \in Pods : q # p => job[q][k].pc = "none" /\ k \notin active[q]
InMail(k) == \E p \in Pods : Pending(hmail[p], k)
EvictionsFollow == \A k \in Conferences : Evicting(k) \/ InMail(k) => row[k] = "ended"
HeldIsFresh ==
  \A w \in Watchers : deck[w].pc = "got" => sess[deck[w].pod][deck[w].key].age = 0
MissedIsOver ==
  \A w \in Watchers : deck[w].key \in Conferences =>
    /\ deck[w].pc # "stranded"
    /\ deck[w].pc \in {"missed", "orphan"} => row[deck[w].key] = "ended"

HeldInv == HeldIsFresh /\ MissedIsOver
StrandInv == StartsAlone /\ EvictionsFollow /\ HeldInv

(* The decks that hold nothing afterwards, or what they held before.       *)
LEMMA HeldStay ==
  ASSUME HealthTypes, HeldInv,
         \A k \in Conferences : row[k] = "ended" => row'[k] = "ended",
         \A w \in Watchers :
           deck'[w] = deck[w] \/ deck'[w].pc \notin {"got", "missed", "orphan", "stranded"},
         \A p \in Pods, k \in Sessions : sess[p][k].age = 0 => sess'[p][k].age = 0
  PROVE  HeldInv'
  <1>1. HeldIsFresh' BY DeckTypes DEF HeldInv, HeldIsFresh
  <1>2. MissedIsOver' BY DeckTypes DEF HeldInv, MissedIsOver
  <1> QED BY <1>1, <1>2 DEF HeldInv

(* One deck moves.                                                         *)
LEMMA HeldMoves ==
  ASSUME HealthTypes, HeldInv, UNCHANGED row, NEW w \in Watchers, NEW r \in Stream,
         deck' = [deck EXCEPT ![w] = r],
         \A p \in Pods, k \in Sessions : sess[p][k].age = 0 => sess'[p][k].age = 0,
         r.pc = "got" => sess'[r.pod][r.key].age = 0,
         r.key \in Conferences =>
           r.pc # "stranded" /\ (r.pc \in {"missed", "orphan"} => row[r.key] = "ended")
  PROVE  HeldInv'
  <1>1. deck'[w] = r /\ \A x \in Watchers : x # w => deck'[x] = deck[x] BY DEF HealthTypes
  <1>2. HeldIsFresh' BY <1>1, DeckTypes DEF HeldInv, HeldIsFresh
  <1>3. MissedIsOver' BY <1>1, DeckTypes DEF HeldInv, MissedIsOver
  <1> QED BY <1>2, <1>3 DEF HeldInv

LEMMA HeldEvicted ==
  ASSUME HealthTypes, HeldInv, UNCHANGED row, NEW p \in Pods, NEW k \in Sessions,
         evictSession(p, k),
         k \in Conferences => row[k] = "ended" \/ \A w \in Watchers : ~Holds(w, p, k)
  PROVE  HeldInv'
  <1>1. \A q \in Pods, j \in Sessions : q # p \/ j # k => sess'[q][j] = sess[q][j]
    BY DEF evictSession, HealthTypes
  <1>2. ASSUME NEW w \in Watchers
        PROVE  \/ deck'[w].pc = "done"
               \/ /\ Holds(w, p, k) /\ deck'[w].pc = "missed"
                  /\ deck'[w].key = deck[w].key
               \/ deck'[w] = deck[w] /\ ~Holds(w, p, k)
    <2> DEFINE r == [deck[w] EXCEPT !.pc = "done"]
               m == [deck[w] EXCEPT !.pc = "missed"]
    <2>1. r.pc = "done" BY DeckTypes, DeckPc DEF DeckPCs
    <2>2. m.pc = "missed" /\ m.key = deck[w].key BY DeckTypes, DeckPc DEF DeckPCs
    <2>3. deck'[w] = IF w \in sess[p][k].subs /\ deck[w].pc \in {"streaming", "told"}
                       THEN r ELSE IF Holds(w, p, k) THEN m ELSE deck[w]
      BY DEF evictSession
    <2>4. Holds(w, p, k) => deck[w].pc \notin {"streaming", "told"} BY DEF Holds
    <2> HIDE DEF r, m
    <2> QED BY <2>1, <2>2, <2>3, <2>4
  <1>3. HeldIsFresh'
    <2> SUFFICES ASSUME NEW w \in Watchers, deck'[w].pc = "got"
                 PROVE  sess'[deck'[w].pod][deck'[w].key].age = 0
      BY DEF HeldIsFresh
    <2>1. deck'[w] = deck[w] /\ ~Holds(w, p, k) BY <1>2
    <2> QED BY <1>1, <2>1, DeckTypes DEF HeldInv, HeldIsFresh, Holds
  <1>4. MissedIsOver'
    <2> SUFFICES ASSUME NEW w \in Watchers, deck'[w].key \in Conferences
                 PROVE  /\ deck'[w].pc # "stranded"
                        /\ deck'[w].pc \in {"missed", "orphan"} => row[deck'[w].key] = "ended"
      BY DEF MissedIsOver
    <2>1. CASE deck'[w].pc = "done" BY <2>1
    <2>2. CASE Holds(w, p, k) /\ deck'[w].pc = "missed" /\ deck'[w].key = deck[w].key
      BY <2>2 DEF Holds
    <2>3. CASE deck'[w] = deck[w] BY <2>3 DEF HeldInv, MissedIsOver
    <2> QED BY <1>2, <2>1, <2>2, <2>3
  <1> QED BY <1>3, <1>4 DEF HeldInv

(* What is pending after a publication or a delivery.                      *)
LEMMA PublishedPending ==
  ASSUME HealthTypes, NEW p \in Pods, NEW env \in Envelope, publish(p, env), NEW k \in Sessions,
         InMail(k)'
  PROVE  InMail(k) \/ env = [kind |-> "evict", key |-> k]
  <1> DEFINE x == [kind |-> "evict", key |-> k]
  <1>1. PICK q \in Pods : \E i \in 1 .. Len(hmail'[q]) : hmail'[q][i] = x
    BY DEF InMail, Pending
  <1> HIDE DEF x
  <1>2. hmail[q] \in Seq(Envelope) BY DEF HealthTypes
  <1>3. hmail'[q] = IF q = p THEN hmail[q] ELSE Append(hmail[q], env) BY DEF publish
  <1>4. (\E i \in 1 .. Len(hmail[q]) : hmail[q][i] = x) \/ env = x BY <1>1, <1>2, <1>3
  <1> QED BY <1>4 DEF InMail, Pending, x

LEMMA TakenPending ==
  ASSUME HealthTypes, NEW p \in Pods, hmail[p] # <<>>,
         hmail' = [hmail EXCEPT ![p] = Tail(@)], NEW k \in Sessions, InMail(k)'
  PROVE  InMail(k)
  <1> DEFINE x == [kind |-> "evict", key |-> k]
  <1>1. PICK q \in Pods : \E i \in 1 .. Len(hmail'[q]) : hmail'[q][i] = x
    BY DEF InMail, Pending
  <1> HIDE DEF x
  <1>2. hmail[q] \in Seq(Envelope) BY DEF HealthTypes
  <1>3. hmail'[q] = IF q = p THEN Tail(hmail[q]) ELSE hmail[q] BY DEF HealthTypes
  <1>4. \E i \in 1 .. Len(hmail[q]) : hmail[q][i] = x
    <2>1. CASE q # p BY <1>1, <1>3, <2>1
    <2>2. CASE q = p
      <3>1. PICK i \in 1 .. Len(Tail(hmail[q])) : Tail(hmail[q])[i] = x BY <1>1, <1>3, <2>2
      <3>2. hmail[q] # <<>> BY <2>2
      <3>3. i + 1 \in 1 .. Len(hmail[q]) /\ hmail[q][i + 1] = x BY <1>2, <3>1, <3>2
      <3> QED BY <3>3
    <2> QED BY <2>1, <2>2
  <1> QED BY <1>4 DEF InMail, Pending, x

(* A step that no job, row or envelope takes notice of.                    *)
LEMMA StrandStep ==
  ASSUME StrandInv, HeldInv', UNCHANGED <<row, callVars>>,
         \A k \in Conferences : InMail(k)' => InMail(k)
  PROVE  StrandInv'
  <1>1. UNCHANGED <<active, shared, job>> BY DEF callVars
  <1>2. StartsAlone' BY <1>1 DEF StrandInv, StartsAlone
  <1>3. \A k : Evicting(k)' <=> Evicting(k) BY <1>1 DEF Evicting
  <1>4. EvictionsFollow' BY <1>3 DEF StrandInv, EvictionsFollow
  <1> QED BY <1>2, <1>4 DEF StrandInv

LEMMA StrandRest ==
  ASSUME StrandInv, HealthTypes, UNCHANGED <<healthVars, callVars>>
  PROVE  StrandInv'
  <1>1. UNCHANGED <<sess, hmail, deck, row>> BY DEF healthVars
  <1>2. HeldInv' BY <1>1, HeldStay DEF StrandInv
  <1>3. \A k \in Conferences : InMail(k)' => InMail(k) BY <1>1 DEF InMail, Pending
  <1> QED BY <1>1, <1>2, <1>3, StrandStep

(* getOrCreateSession makes no session older.                              *)
LEMMA Younger ==
  ASSUME HealthTypes, NEW p \in Pods, NEW k \in Sessions,
         sess' = [sess EXCEPT ![p][k] = getOrCreateSession(@)]
  PROVE  /\ sess'[p][k].age = 0
         /\ \A q \in Pods, j \in Sessions : sess[q][j].age = 0 => sess'[q][j].age = 0
  <1> DEFINE r == getOrCreateSession(sess[p][k])
  <1>1. r.age = 0
    <2>1. sess[p][k] \in Telemetry BY DEF HealthTypes
    <2> QED BY <2>1 DEF getOrCreateSession, Telemetry
  <1>2. sess' = [sess EXCEPT ![p][k] = r] OBVIOUS
  <1> HIDE DEF r
  <1>3. sess'[p][k] = r /\ \A q \in Pods, j \in Sessions : q # p \/ j # k => sess'[q][j] = sess[q][j]
    BY <1>2 DEF HealthTypes
  <1> QED BY <1>1, <1>3

LEMMA ToldDecks ==
  ASSUME HealthTypes, NEW p \in Pods, NEW k \in Sessions, deck' = Told(p, k)
  PROVE  \A w \in Watchers : deck'[w] = deck[w] \/ deck'[w].pc = "told"
  <1> SUFFICES ASSUME NEW w \in Watchers PROVE deck'[w] = deck[w] \/ deck'[w].pc = "told"
    OBVIOUS
  <1> DEFINE r == [deck[w] EXCEPT !.pc = "told"]
  <1>1. r.pc = "told" BY DeckTypes, DeckPc DEF DeckPCs
  <1>2. deck'[w] = IF w \in sess[p][k].subs /\ deck[w].pc = "streaming" THEN r ELSE deck[w]
    BY DEF Told
  <1> HIDE DEF r
  <1> QED BY <1>1, <1>2

LEMMA RecordStrand ==
  ASSUME HealthTypes, StrandInv, NEW p \in Pods, NEW k \in Sessions, Record(p, k),
         UNCHANGED callVars
  PROVE  StrandInv'
  <1> DEFINE env == [kind |-> "sample", key |-> k]
  <1>1. env \in Envelope /\ \A j : env # [kind |-> "evict", key |-> j] BY DEF Envelope
  <1>2. publish(p, env) /\ UNCHANGED <<deck, row>> BY DEF Record
  <1>3. \A q \in Pods, j \in Sessions : sess[q][j].age = 0 => sess'[q][j].age = 0
    BY Younger DEF Record
  <1>4. HeldInv' BY <1>2, <1>3, HeldStay DEF StrandInv
  <1> HIDE DEF env
  <1>5. \A j \in Conferences : InMail(j)' => InMail(j) BY <1>1, <1>2, PublishedPending
  <1> QED BY <1>2, <1>4, <1>5, StrandStep

LEMMA applyRemoteStrand ==
  ASSUME HealthTypes, StrandInv, NEW p \in Pods, applyRemote(p), UNCHANGED callVars
  PROVE  StrandInv'
  <1> DEFINE env == Head(hmail[p])
  <1>1. hmail[p] \in Seq(Envelope) /\ hmail[p] # <<>> BY DEF HealthTypes, applyRemote
  <1>2. env \in Envelope /\ env = hmail[p][1] /\ Len(hmail[p]) \in Nat /\ Len(hmail[p]) > 0
    BY <1>1
  <1>3. env.key \in Sessions BY <1>2 DEF Envelope
  <1>4. hmail' = [hmail EXCEPT ![p] = Tail(@)] /\ UNCHANGED row BY DEF applyRemote
  <1>5. \/ sess' = [sess EXCEPT ![p][env.key] = getOrCreateSession(@)] /\ UNCHANGED deck
        \/ deck' = Told(p, env.key) /\ UNCHANGED sess
        \/ env.kind = "evict" /\ evictSession(p, env.key)
    BY DEF applyRemote
  <1>6. \A j \in Conferences : InMail(j)' => InMail(j) BY <1>1, <1>4, TakenPending
  <1>7. env.kind = "evict" => InMail(env.key)
    <2>1. env = [kind |-> env.kind, key |-> env.key] BY <1>2 DEF Envelope
    <2> QED BY <1>2, <2>1 DEF InMail, Pending
  <1> HIDE DEF env
  <1>8. HeldInv'
    <2>1. CASE sess' = [sess EXCEPT ![p][env.key] = getOrCreateSession(@)] /\ UNCHANGED deck
      <3>1. \A q \in Pods, j \in Sessions : sess[q][j].age = 0 => sess'[q][j].age = 0
        BY <1>3, <2>1, Younger
      <3> QED BY <1>4, <2>1, <3>1, HeldStay DEF StrandInv
    <2>2. CASE deck' = Told(p, env.key) /\ UNCHANGED sess
      <3>1. \A w \in Watchers : deck'[w] = deck[w] \/ deck'[w].pc = "told"
        BY <1>3, <2>2, ToldDecks
      <3> QED BY <1>4, <2>2, <3>1, HeldStay DEF StrandInv
    <2>3. CASE env.kind = "evict" /\ evictSession(p, env.key)
      <3>1. env.key \in Conferences => row[env.key] = "ended"
        BY <1>7, <2>3 DEF StrandInv, EvictionsFollow
      <3> QED BY <1>3, <1>4, <2>3, <3>1, HeldEvicted DEF StrandInv
    <2> QED BY <1>5, <2>1, <2>2, <2>3
  <1> QED BY <1>4, <1>6, <1>8, StrandStep

LEMMA sweepStrand ==
  ASSUME HealthTypes, StrandInv, NEW p \in Pods, NEW k \in Sessions, sweepIdleSessions(p, k),
         UNCHANGED callVars
  PROVE  StrandInv'
  <1>1. /\ sess[p][k].age \in {1, 2} /\ evictSession(p, k) /\ UNCHANGED <<hmail, row>>
    BY DEF sweepIdleSessions
  <1>2. \A w \in Watchers : ~Holds(w, p, k) BY <1>1 DEF StrandInv, HeldInv, HeldIsFresh, Holds
  <1>3. HeldInv' BY <1>1, <1>2, HeldEvicted DEF StrandInv
  <1>4. \A j \in Conferences : InMail(j)' => InMail(j) BY <1>1 DEF InMail, Pending
  <1> QED BY <1>1, <1>3, <1>4, StrandStep

LEMMA AgesStrand ==
  ASSUME HealthTypes, StrandInv, NEW p \in Pods, NEW k \in Sessions, Ages(p, k),
         UNCHANGED callVars
  PROVE  StrandInv'
  <1>1. UNCHANGED <<hmail, deck, row>> /\ \A w \in Watchers : ~Holds(w, p, k) BY DEF Ages
  <1>2. \A q \in Pods, j \in Sessions : q # p \/ j # k => sess'[q][j] = sess[q][j]
    BY DEF Ages, HealthTypes
  <1>3. HeldIsFresh' BY <1>1, <1>2, DeckTypes DEF StrandInv, HeldInv, HeldIsFresh, Holds
  <1>4. HeldInv' BY <1>1, <1>3 DEF StrandInv, HeldInv, MissedIsOver
  <1>5. \A j \in Conferences : InMail(j)' => InMail(j) BY <1>1 DEF InMail, Pending
  <1> QED BY <1>1, <1>4, <1>5, StrandStep

LEMMA UnsubscribedAges ==
  ASSUME HealthTypes, NEW w \in Watchers, sess' = Unsubscribed(w)
  PROVE  \A q \in Pods, j \in Sessions : sess'[q][j].age = sess[q][j].age
  <1> SUFFICES ASSUME NEW q \in Pods, NEW j \in Sessions
               PROVE  sess'[q][j].age = sess[q][j].age
    OBVIOUS
  <1>1. sess[q][j] \in Telemetry BY DEF HealthTypes
  <1>2. sess'[q][j] = [sess[q][j] EXCEPT !.subs = @ \ {w}] BY DEF Unsubscribed
  <1> QED BY <1>1, <1>2 DEF Telemetry

LEMMA OpenDeckStrand ==
  ASSUME HealthTypes, StrandInv, NEW w \in Watchers, NEW p \in Pods, NEW k \in Sessions,
         OpenDeck(w, p, k), UNCHANGED callVars
  PROVE  StrandInv'
  <1> DEFINE r == [pc |-> "checked", pod |-> p, key |-> k]
  <1>1. r \in Stream /\ r.pc = "checked" BY DEF Stream, DeckPCs
  <1>2. deck' = [deck EXCEPT ![w] = r] /\ UNCHANGED <<sess, hmail, row>> BY DEF OpenDeck
  <1> HIDE DEF r
  <1>3. HeldInv' BY <1>1, <1>2, HeldMoves DEF StrandInv
  <1>4. \A j \in Conferences : InMail(j)' => InMail(j) BY <1>2 DEF InMail, Pending
  <1> QED BY <1>2, <1>3, <1>4, StrandStep

LEMMA CloseDeckStrand ==
  ASSUME HealthTypes, StrandInv, NEW w \in Watchers, CloseDeck(w), UNCHANGED callVars
  PROVE  StrandInv'
  <1>1. NoDeck \in Stream /\ NoDeck.pc = "idle" BY DEF NoDeck, Stream, DeckPCs
  <1>2. deck' = [deck EXCEPT ![w] = NoDeck] /\ UNCHANGED <<hmail, row>> BY DEF CloseDeck
  <1>3. \A q \in Pods, j \in Sessions : sess'[q][j].age = sess[q][j].age
    BY UnsubscribedAges DEF CloseDeck
  <1>4. HeldInv' BY <1>1, <1>2, <1>3, HeldMoves DEF StrandInv
  <1>5. \A j \in Conferences : InMail(j)' => InMail(j) BY <1>2 DEF InMail, Pending
  <1> QED BY <1>2, <1>4, <1>5, StrandStep

LEMMA GetSessionStrand ==
  ASSUME HealthTypes, StrandInv, NEW w \in Watchers, GetSession(w), UNCHANGED callVars
  PROVE  StrandInv'
  <1> DEFINE p == deck[w].pod
             k == deck[w].key
             r == [deck[w] EXCEPT !.pc = "got"]
  <1>1. p \in Pods /\ k \in Sessions BY DeckTypes
  <1>2. r \in Stream /\ r.pc = "got" /\ r.pod = p /\ r.key = k BY DeckTypes, DeckPc DEF DeckPCs
  <1>3. /\ deck' = [deck EXCEPT ![w] = r] /\ UNCHANGED <<hmail, row>>
        /\ sess' = [sess EXCEPT ![p][k] = getOrCreateSession(@)]
    BY DEF GetSession
  <1> HIDE DEF r, p, k
  <1>4. /\ sess'[p][k].age = 0
        /\ \A q \in Pods, j \in Sessions : sess[q][j].age = 0 => sess'[q][j].age = 0
    BY <1>1, <1>3, Younger
  <1>5. HeldInv' BY <1>2, <1>3, <1>4, HeldMoves DEF StrandInv
  <1>6. \A j \in Conferences : InMail(j)' => InMail(j) BY <1>3 DEF InMail, Pending
  <1> QED BY <1>3, <1>5, <1>6, StrandStep

LEMMA subscribeSessionStrand ==
  ASSUME HealthTypes, StrandInv, NEW w \in Watchers, subscribeSession(w), UNCHANGED callVars
  PROVE  StrandInv'
  <1>1. UNCHANGED <<hmail, row>> BY DEF subscribeSession
  <1>2. \A j \in Conferences : InMail(j)' => InMail(j) BY <1>1 DEF InMail, Pending
  <1>3. CASE deck[w].pc = "got"
    <2> DEFINE p == deck[w].pod
               k == deck[w].key
               s == [sess[p][k] EXCEPT !.subs = @ \cup {w}]
               r == [deck[w] EXCEPT !.pc = "subscribed"]
    <2>1. p \in Pods /\ k \in Sessions BY DeckTypes
    <2>2. r \in Stream /\ r.pc = "subscribed" BY DeckTypes, DeckPc DEF DeckPCs
    <2>3. s.age = sess[p][k].age
      <3>1. sess[p][k] \in Telemetry BY <2>1 DEF HealthTypes
      <3> QED BY <3>1 DEF Telemetry
    <2>4. deck' = [deck EXCEPT ![w] = r] /\ sess' = [sess EXCEPT ![p][k] = s]
      BY <1>3 DEF subscribeSession
    <2> HIDE DEF r, s, p, k
    <2>5. \A q \in Pods, j \in Sessions : sess[q][j].age = 0 => sess'[q][j].age = 0
      BY <2>1, <2>3, <2>4 DEF HealthTypes
    <2>6. HeldInv' BY <1>1, <2>2, <2>4, <2>5, HeldMoves DEF StrandInv
    <2> QED BY <1>1, <1>2, <2>6, StrandStep
  <1>4. CASE deck[w].pc = "missed"
    <2> DEFINE r == [deck[w] EXCEPT !.pc = "orphan"]
    <2>1. r \in Stream /\ r.pc = "orphan" /\ r.key = deck[w].key
      BY DeckTypes, DeckPc DEF DeckPCs
    <2>2. deck' = [deck EXCEPT ![w] = r] /\ UNCHANGED sess BY <1>4 DEF subscribeSession
    <2> HIDE DEF r
    <2>3. r.key \in Conferences => row[r.key] = "ended"
      BY <1>4, <2>1 DEF StrandInv, HeldInv, MissedIsOver
    <2>4. HeldInv' BY <1>1, <2>1, <2>2, <2>3, HeldMoves DEF StrandInv
    <2> QED BY <1>1, <1>2, <2>4, StrandStep
  <1> QED BY <1>3, <1>4 DEF subscribeSession

LEMMA RecheckEndedStrand ==
  ASSUME HealthTypes, StrandInv, NEW w \in Watchers, RecheckEnded(w), UNCHANGED callVars
  PROVE  StrandInv'
  <1> DEFINE k == deck[w].key
             pc == IF row[k] = "ended" THEN "done" ELSE Streams(w)
             r == [deck[w] EXCEPT !.pc = pc]
  <1>1. deck' = [deck EXCEPT ![w] = r] /\ UNCHANGED <<hmail, row>> BY DEF RecheckEnded
  <1>2. sess' = Unsubscribed(w) \/ UNCHANGED sess BY DEF RecheckEnded
  <1>3. pc \in {"done", "streaming", "stranded"} BY DEF Streams
  <1>4. pc = "stranded" => deck[w].pc = "orphan" /\ row[k] # "ended" BY DEF Streams
  <1>5. pc \in DeckPCs BY <1>3 DEF DeckPCs
  <1> HIDE DEF pc, k
  <1>6. r \in Stream /\ r.pc = pc /\ r.key = k BY <1>5, DeckTypes, DeckPc DEF k
  <1> HIDE DEF r
  <1>7. k \in Conferences => pc # "stranded"
    BY <1>4 DEF StrandInv, HeldInv, MissedIsOver, k
  <1>8. \A q \in Pods, j \in Sessions : sess'[q][j].age = sess[q][j].age
    BY <1>2, UnsubscribedAges
  <1>9. r.key \in Conferences =>
          r.pc # "stranded" /\ (r.pc \in {"missed", "orphan"} => row[r.key] = "ended")
    BY <1>3, <1>6, <1>7
  <1>10. r.pc # "got" BY <1>3, <1>6
  <1>11. HeldInv' BY <1>1, <1>6, <1>8, <1>9, <1>10, HeldMoves DEF StrandInv
  <1>12. \A j \in Conferences : InMail(j)' => InMail(j) BY <1>1 DEF InMail, Pending
  <1> QED BY <1>1, <1>11, <1>12, StrandStep

(* The jobs.                                                               *)
LEMMA StrandJob ==
  ASSUME StrandInv, HeldInv',
         \A p \in Pods, k \in Conferences :
           /\ job'[p][k].pc # "redis"
           /\ job'[p][k].pc = "share" => job[p][k].pc = "share"
           /\ job[p][k].pc = "none" /\ k \notin active[p] => job'[p][k].pc = "none"
           /\ job'[p][k].pc = "evict" => job[p][k].pc = "evict" \/ row'[k] = "ended"
           /\ k \in active'[p] => k \in active[p],
         \A k \in Conferences :
           /\ row[k] = "ended" => row'[k] = "ended"
           /\ row[k] = "none" /\ row'[k] # "none" => \A p \in Pods : job'[p][k].pc # "share"
           /\ InMail(k)' => InMail(k) \/ row'[k] = "ended"
  PROVE  StrandInv'
  <1>1. StartsAlone' BY DEF StrandInv, StartsAlone
  <1>2. EvictionsFollow' BY DEF StrandInv, EvictionsFollow, Evicting
  <1> QED BY <1>1, <1>2 DEF StrandInv

LEMMA EndStrand ==
  ASSUME CallTypes, StrandInv, HeldInv', UNCHANGED row, NEW p \in Pods, NEW k \in Sessions,
         (k \notin Conferences /\ CallEnds(p, k)) \/ ConferenceEnds(p, k),
         \A j \in Conferences : InMail(j)' => InMail(j)
  PROVE  StrandInv'
  <1>1. \A q \in Pods, j \in Sessions :
          q # p \/ j # k => job'[q][j] = job[q][j]
    BY DEF CallTypes, CallEnds, ConferenceEnds
  <1>2. \A q \in Pods, j \in Sessions : j \in active'[q] => j \in active[q]
    BY DEF CallTypes, CallEnds, ConferenceEnds
  <1>3. k \in Conferences => k \in active[p] /\ job'[p][k].pc = "row"
    BY DEF CallTypes, ConferenceEnds
  <1>4. ASSUME NEW q \in Pods, NEW j \in Conferences
        PROVE  /\ job'[q][j].pc # "redis"
               /\ job'[q][j].pc = "share" => job[q][j].pc = "share"
               /\ job[q][j].pc = "none" /\ j \notin active[q] => job'[q][j].pc = "none"
               /\ job'[q][j].pc = "evict" => job[q][j].pc = "evict" \/ row'[j] = "ended"
               /\ j \in active'[q] => j \in active[q]
    BY <1>1, <1>2, <1>3 DEF StrandInv, StartsAlone
  <1> QED BY <1>4, StrandJob

LEMMA HangupStrand ==
  ASSUME HealthTypes, CallTypes, StrandInv, NEW c \in Conns, Pod(c) \in Pods, NEW k \in Sessions,
         Hangup(c, k)
  PROVE  StrandInv'
  <1>1. UNCHANGED <<sess, hmail, deck, row>> BY DEF Hangup, healthVars
  <1>2. HeldInv' BY <1>1, HeldStay DEF StrandInv
  <1>3. \A j \in Conferences : InMail(j)' => InMail(j) BY <1>1 DEF InMail, Pending
  <1>4. (k \notin Conferences /\ CallEnds(Pod(c), k)) \/ ConferenceEnds(Pod(c), k) BY DEF Hangup
  <1> QED BY <1>1, <1>2, <1>3, <1>4, EndStrand

LEMMA GraceEndsCallStrand ==
  ASSUME HealthTypes, CallTypes, StrandInv, NEW p \in Pods, NEW d \in Phones, GraceEndsCall(p, d)
  PROVE  StrandInv'
  <1>1. UNCHANGED <<sess, hmail, deck, row>> BY DEF GraceEndsCall, healthVars
  <1>2. HeldInv' BY <1>1, HeldStay DEF StrandInv
  <1>3. \A j \in Conferences : InMail(j)' => InMail(j) BY <1>1 DEF InMail, Pending
  <1>4. CASE UNCHANGED callVars BY <1>1, <1>2, <1>3, <1>4, StrandStep
  <1>5. ASSUME NEW k \in SessionsOf(FALSE), CallEnds(p, k) PROVE StrandInv'
    <2>1. k \in Sessions /\ k \notin Conferences BY <1>5 DEF SessionsOf, CallTypes
    <2> QED BY <1>1, <1>2, <1>3, <1>5, <2>1, EndStrand
  <1> QED BY <1>4, <1>5 DEF GraceEndsCall

LEMMA ForceEndStrand ==
  ASSUME HealthTypes, CallTypes, StrandInv, NEW p \in Pods, NEW k \in Sessions, ForceEnd(p, k)
  PROVE  StrandInv'
  <1> DEFINE env == [kind |-> "disconnect", key |-> k]
  <1>1. env \in Envelope /\ \A j : env # [kind |-> "evict", key |-> j] BY DEF Envelope
  <1>2. publish(p, env) /\ deck' = Told(p, k) /\ UNCHANGED <<sess, row>>
    BY DEF ForceEnd, NotifyDisconnected
  <1> HIDE DEF env
  <1>3. \A w \in Watchers : deck'[w] = deck[w] \/ deck'[w].pc = "told" BY <1>2, ToldDecks
  <1>4. HeldInv' BY <1>2, <1>3, HeldStay DEF StrandInv
  <1>5. \A j \in Conferences : InMail(j)' => InMail(j) BY <1>1, <1>2, PublishedPending
  <1>6. CASE UNCHANGED callVars BY <1>2, <1>4, <1>5, <1>6, StrandStep
  <1>7. CASE ~ UNCHANGED callVars
    <2>1. (k \notin Conferences /\ CallEnds(p, k)) \/ ConferenceEnds(p, k) BY <1>7 DEF ForceEnd
    <2> QED BY <1>2, <1>4, <1>5, <2>1, EndStrand
  <1> QED BY <1>6, <1>7

LEMMA OnConnClosedStrand ==
  ASSUME HealthTypes, CallTypes, StrandInv, NEW c \in Conns, Pod(c) \in Pods, OnConnClosed(c)
  PROVE  StrandInv'
  <1> DEFINE p == Pod(c)
             confs == SessionsOf(TRUE) \cap active[p]
             row1 == [pc |-> "row", known |-> TRUE]
  <1>1. UNCHANGED <<sess, hmail, deck, row>> BY DEF OnConnClosed, healthVars
  <1>2. HeldInv' BY <1>1, HeldStay DEF StrandInv
  <1>3. \A j \in Conferences : InMail(j)' => InMail(j) BY <1>1 DEF InMail, Pending
  <1>4. CASE UNCHANGED callVars BY <1>1, <1>2, <1>3, <1>4, StrandStep
  <1>5. CASE ~ UNCHANGED callVars
    <2>1. /\ active' = [active EXCEPT ![p] = @ \ confs]
          /\ job' = [job EXCEPT ![p] = [k \in Sessions |-> IF k \in confs THEN row1 ELSE @[k]]]
      BY <1>5 DEF OnConnClosed, callVars
    <2>2. row1.pc = "row" /\ confs \subseteq active[p] OBVIOUS
    <2> HIDE DEF row1, confs, p
    <2>3. p \in Pods BY DEF p
    <2>4. /\ active'[p] = active[p] \ confs /\ \A q \in Pods : q # p => active'[q] = active[q]
          /\ \A j \in Sessions : job'[p][j] = IF j \in confs THEN row1 ELSE job[p][j]
          /\ \A q \in Pods : q # p => job'[q] = job[q]
      BY <2>1, <2>3 DEF CallTypes
    <2>5. ASSUME NEW q \in Pods, NEW j \in Conferences
          PROVE  /\ job'[q][j].pc # "redis"
                 /\ job'[q][j].pc = "share" => job[q][j].pc = "share"
                 /\ job[q][j].pc = "none" /\ j \notin active[q] => job'[q][j].pc = "none"
                 /\ job'[q][j].pc = "evict" => job[q][j].pc = "evict" \/ row'[j] = "ended"
                 /\ j \in active'[q] => j \in active[q]
      BY <2>2, <2>3, <2>4 DEF StrandInv, StartsAlone
    <2> QED BY <1>1, <1>2, <1>3, <2>5, StrandJob
  <1> QED BY <1>4, <1>5

LEMMA StartStrand ==
  ASSUME HealthTypes, CallTypes, StrandInv, NEW p \in Pods, NEW k \in Sessions, Start(p, k)
  PROVE  StrandInv'
  <1> DEFINE r == [pc |-> "share", known |-> TRUE]
  <1>1. /\ row[k] = "none" /\ UNCHANGED <<sess, hmail, deck>>
        /\ \A q \in Pods : job[q][k].pc = "none"
        /\ \A q \in Pods, j \in Sessions : job[q][j].pc # "share" /\ j \notin active[q]
    BY DEF Start, NoJob
  <1>2. active' = [active EXCEPT ![p] = @ \cup {k}] /\ job' = [job EXCEPT ![p][k] = r]
    BY DEF Start
  <1>3. UNCHANGED row \/ (k \notin Conferences /\ row' = [row EXCEPT ![k] = "open"])
    BY DEF Start
  <1>4. r.pc = "share" OBVIOUS
  <1> HIDE DEF r
  <1>5. \A j \in Conferences : row'[j] = row[j] BY <1>3 DEF HealthTypes
  <1>6. job'[p][k] = r /\ \A q \in Pods, j \in Sessions : q # p \/ j # k => job'[q][j] = job[q][j]
    BY <1>2 DEF CallTypes
  <1>7. \A q \in Pods : q # p => k \notin active'[q] BY <1>1, <1>2 DEF CallTypes
  <1>8. HeldInv' BY <1>1, <1>5, HeldStay DEF StrandInv
  <1>9. StartsAlone' BY <1>1, <1>4, <1>5, <1>6, <1>7 DEF StrandInv, StartsAlone
  <1>10. \A j \in Conferences : Evicting(j)' => Evicting(j) BY <1>4, <1>6 DEF Evicting
  <1>11. \A j \in Conferences : InMail(j)' => InMail(j) BY <1>1 DEF InMail, Pending
  <1>12. EvictionsFollow' BY <1>5, <1>10, <1>11 DEF StrandInv, EvictionsFollow
  <1> QED BY <1>8, <1>9, <1>12 DEF StrandInv

LEMMA StartedStrand ==
  ASSUME HealthTypes, CallTypes, StrandInv, NEW p \in Pods, NEW k \in Sessions, Started(p, k)
  PROVE  StrandInv'
  <1>1. /\ job[p][k].pc = "share" /\ UNCHANGED <<hmail, deck, active>>
        /\ job' = [job EXCEPT ![p][k] = NoJob] /\ row' = [row EXCEPT ![k] = "open"]
        /\ sess' = [sess EXCEPT ![p][k] = getOrCreateSession(@)]
    BY DEF Started, Init_
  <1>2. row'[k] = "open" /\ \A j \in Sessions : j # k => row'[j] = row[j]
    BY <1>1 DEF HealthTypes
  <1>3. k \in Conferences =>
          row[k] = "none" /\ \A q \in Pods : q # p => job[q][k].pc = "none"
    BY <1>1 DEF StrandInv, StartsAlone
  <1>4. \A j \in Conferences : row[j] = "ended" => row'[j] = "ended" BY <1>2, <1>3
  <1>5. job'[p][k].pc = "none" /\ \A q \in Pods, j \in Sessions : q # p \/ j # k => job'[q][j] = job[q][j]
    BY <1>1 DEF CallTypes, NoJob
  <1>6. \A q \in Pods, j \in Sessions : sess[q][j].age = 0 => sess'[q][j].age = 0
    BY <1>1, Younger
  <1>7. HeldInv' BY <1>1, <1>4, <1>6, HeldStay DEF StrandInv
  <1>8. \A j \in Conferences : InMail(j)' => InMail(j) BY <1>1 DEF InMail, Pending
  <1>9. ASSUME NEW q \in Pods, NEW j \in Conferences
        PROVE  /\ job'[q][j].pc # "redis"
               /\ job'[q][j].pc = "share" => job[q][j].pc = "share"
               /\ job[q][j].pc = "none" /\ j \notin active[q] => job'[q][j].pc = "none"
               /\ job'[q][j].pc = "evict" => job[q][j].pc = "evict" \/ row'[j] = "ended"
               /\ j \in active'[q] => j \in active[q]
    BY <1>1, <1>5 DEF StrandInv, StartsAlone
  <1>10. ASSUME NEW j \in Conferences, row'[j] # row[j]
         PROVE  \A q \in Pods : job'[q][j].pc # "share"
    BY <1>2, <1>3, <1>5, <1>10
  <1> QED BY <1>4, <1>7, <1>8, <1>9, <1>10, StrandJob

LEMMA RemoveFromRedisStrand ==
  ASSUME HealthTypes, CallTypes, StrandInv, NEW p \in Pods, NEW k \in Sessions,
         RemoveFromRedis(p, k)
  PROVE  StrandInv'
  <1> DEFINE r == [job[p][k] EXCEPT !.pc = "evict"]
  <1>1. job[p][k].pc = "redis" /\ UNCHANGED <<sess, hmail, deck, row, active>>
    BY DEF RemoveFromRedis, healthVars
  <1>2. job' = [job EXCEPT ![p][k] = r] BY DEF RemoveFromRedis
  <1>3. k \notin Conferences BY <1>1 DEF StrandInv, StartsAlone
  <1> HIDE DEF r
  <1>4. \A q \in Pods, j \in Conferences : job'[q][j] = job[q][j] BY <1>2, <1>3 DEF CallTypes
  <1>5. HeldInv' BY <1>1, HeldStay DEF StrandInv
  <1>6. \A j \in Conferences : InMail(j)' => InMail(j) BY <1>1 DEF InMail, Pending
  <1>7. \A q \in Pods, j \in Conferences : job'[q][j].pc # "redis"
    BY <1>4 DEF StrandInv, StartsAlone
  <1> QED BY <1>1, <1>4, <1>5, <1>6, <1>7, StrandJob

LEMMA RowStepStrand ==
  ASSUME HealthTypes, CallTypes, StrandInv, NEW p \in Pods, NEW k \in Sessions, RowStep(p, k)
  PROVE  StrandInv'
  <1> DEFINE moved == [job[p][k] EXCEPT !.pc = "evict"]
             r == IF k \in Conferences THEN moved ELSE NoJob
  <1>1. /\ job[p][k].pc = "row" /\ row' = [row EXCEPT ![k] = "ended"]
        /\ UNCHANGED <<sess, hmail, deck, active>>
    BY DEF RowStep
  <1>2. job[p][k] \in Job BY JobTypes
  <1>3. moved.pc = "evict" BY <1>2 DEF Job
  <1>4. job' = [job EXCEPT ![p][k] = r] BY DEF RowStep
  <1> HIDE DEF moved
  <1>5. r.pc \in {"evict", "none"} /\ (k \in Conferences => r.pc = "evict")
    BY <1>3 DEF NoJob
  <1> HIDE DEF r
  <1>6. row'[k] = "ended" /\ \A j \in Sessions : j # k => row'[j] = row[j]
    BY <1>1 DEF HealthTypes
  <1>7. job'[p][k] = r /\ \A q \in Pods, j \in Sessions : q # p \/ j # k => job'[q][j] = job[q][j]
    BY <1>4 DEF CallTypes
  <1>8. HeldInv' BY <1>1, <1>6, HeldStay DEF StrandInv
  <1>9. \A j \in Conferences : InMail(j)' => InMail(j) BY <1>1 DEF InMail, Pending
  <1>10. ASSUME NEW q \in Pods, NEW j \in Conferences
         PROVE  /\ job'[q][j].pc # "redis"
                /\ job'[q][j].pc = "share" => job[q][j].pc = "share"
                /\ job[q][j].pc = "none" /\ j \notin active[q] => job'[q][j].pc = "none"
                /\ job'[q][j].pc = "evict" => job[q][j].pc = "evict" \/ row'[j] = "ended"
                /\ j \in active'[q] => j \in active[q]
    BY <1>1, <1>5, <1>6, <1>7 DEF StrandInv, StartsAlone
  <1>11. ASSUME NEW j \in Conferences, row'[j] # row[j]
         PROVE  \A q \in Pods : job'[q][j].pc # "share"
    BY <1>1, <1>5, <1>6, <1>7, <1>11 DEF StrandInv, StartsAlone
  <1> QED BY <1>6, <1>8, <1>9, <1>10, <1>11, StrandJob

LEMMA EvictStepStrand ==
  ASSUME HealthTypes, CallTypes, StrandInv, NEW p \in Pods, NEW k \in Sessions, EvictStep(p, k)
  PROVE  StrandInv'
  <1> DEFINE moved == [job[p][k] EXCEPT !.pc = "row"]
             r == IF k \in Conferences THEN NoJob ELSE moved
             env == [kind |-> "evict", key |-> k]
  <1>1. /\ job[p][k].pc = "evict" /\ UNCHANGED <<row, active>>
        /\ Evict(p, k) \/ UNCHANGED <<sess, hmail, deck>>
    BY DEF EvictStep
  <1>2. job[p][k] \in Job BY JobTypes
  <1>3. moved.pc = "row" BY <1>2 DEF Job
  <1>4. job' = [job EXCEPT ![p][k] = r] BY DEF EvictStep
  <1> HIDE DEF moved
  <1>5. r.pc \in {"row", "none"} BY <1>3 DEF NoJob
  <1> HIDE DEF r
  <1>6. k \in Conferences => row[k] = "ended" BY <1>1 DEF StrandInv, EvictionsFollow, Evicting
  <1>7. job'[p][k] = r /\ \A q \in Pods, j \in Sessions : q # p \/ j # k => job'[q][j] = job[q][j]
    BY <1>4 DEF CallTypes
  <1>8. HeldInv'
    <2>1. CASE Evict(p, k) BY <1>1, <1>6, <2>1, HeldEvicted DEF StrandInv, Evict
    <2>2. CASE UNCHANGED <<sess, hmail, deck>> BY <1>1, <2>2, HeldStay DEF StrandInv
    <2> QED BY <1>1, <2>1, <2>2
  <1>9. \A j \in Conferences : InMail(j)' => InMail(j) \/ row'[j] = "ended"
    <2>1. env \in Envelope /\ \A j : env = [kind |-> "evict", key |-> j] => j = k BY DEF Envelope
    <2>2. Evict(p, k) => publish(p, env) BY DEF Evict
    <2>3. UNCHANGED hmail => \A j \in Conferences : InMail(j)' => InMail(j) BY DEF InMail, Pending
    <2> HIDE DEF env
    <2> QED BY <1>1, <1>6, <2>1, <2>2, <2>3, PublishedPending
  <1>10. ASSUME NEW q \in Pods, NEW j \in Conferences
         PROVE  /\ job'[q][j].pc # "redis"
                /\ job'[q][j].pc = "share" => job[q][j].pc = "share"
                /\ job[q][j].pc = "none" /\ j \notin active[q] => job'[q][j].pc = "none"
                /\ job'[q][j].pc = "evict" => job[q][j].pc = "evict" \/ row'[j] = "ended"
                /\ j \in active'[q] => j \in active[q]
    BY <1>1, <1>5, <1>7 DEF StrandInv, StartsAlone
  <1> QED BY <1>1, <1>8, <1>9, <1>10, StrandJob

LEMMA WorkStrand ==
  ASSUME HealthTypes, CallTypes, StrandInv, NEW p \in Pods, Work(p)
  PROVE  StrandInv'
  <1>1. CASE deliverFromRedis(p) BY <1>1, StrandRest DEF deliverFromRedis
  <1>2. CASE applyRemote(p) /\ Rest BY <1>2, applyRemoteStrand DEF Rest
  <1>3. ASSUME NEW k \in Sessions,
               \/ Started(p, k) \/ RemoveFromRedis(p, k) \/ EvictStep(p, k) \/ RowStep(p, k)
        PROVE  StrandInv'
    BY <1>3, StartedStrand, RemoveFromRedisStrand, EvictStepStrand, RowStepStrand
  <1>4. ASSUME NEW k \in Sessions, sweepIdleSessions(p, k) \/ Ages(p, k), Rest
        PROVE  StrandInv'
    BY <1>4, sweepStrand, AgesStrand DEF Rest
  <1>5. ASSUME NEW d \in Phones, GraceExpires(p, d) \/ GraceEndsCall(p, d) PROVE StrandInv'
    <2>1. CASE GraceExpires(p, d) BY <2>1, StrandRest DEF GraceExpires
    <2> QED BY <1>5, <2>1, GraceEndsCallStrand
  <1> QED BY <1>1, <1>2, <1>3, <1>4, <1>5 DEF Work

LEMMA StrandNext ==
  ASSUME LinkTypes, HealthTypes, CallTypes, StrandInv, Next
  PROVE  StrandInv'
  <1>1. ASSUME NEW c \in Conns, conn[c].pc # "free" PROVE Pod(c) \in Pods
    BY <1>1, AtWork DEF Pod
  <1>2. ASSUME NEW c \in Conns, Connection(c) \/ TouchLastSeen(c) PROVE StrandInv'
    <2>1. CASE OnConnClosed(c)
      <3>1. conn[c].pc # "free" BY <2>1 DEF OnConnClosed
      <3> QED BY <1>1, <2>1, <3>1, OnConnClosedStrand
    <2>2. CASE RecordSample(c)
      <3>1. conn[c].pc = "record" /\ Record(Pod(c), conn[c].key) /\ UNCHANGED callVars
        BY <2>2 DEF RecordSample
      <3>2. conn[c].key \in Sessions BY <3>1 DEF LinkTypes
      <3> QED BY <1>1, <3>1, <3>2, RecordStrand
    <2> QED BY <1>2, <2>1, <2>2, StrandRest
         DEF Connection, SetOnline, OnReconnect, ReadFails, Unregister, SetOffline, TouchLastSeen
  <1>3. ASSUME NEW p \in Pods, Work(p) PROVE StrandInv' BY <1>3, WorkStrand
  <1>4. ASSUME NEW p \in Pods, NEW k \in Sessions, Start(p, k) \/ ForceEnd(p, k) PROVE StrandInv'
    BY <1>4, StartStrand, ForceEndStrand
  <1>5. ASSUME NEW c \in Conns, NEW k \in Sessions, Hangup(c, k) \/ LookUp(c, k) PROVE StrandInv'
    <2>1. CASE Hangup(c, k)
      <3>1. conn[c].pc # "free" BY <2>1 DEF Hangup, Reading
      <3> QED BY <1>1, <2>1, <3>1, HangupStrand
    <2>2. CASE LookUp(c, k) BY <2>2, StrandRest DEF LookUp
    <2> QED BY <1>5, <2>1, <2>2
  <1>6. ASSUME NEW w \in Watchers, Deck(w) \/ (CloseDeck(w) /\ Rest) PROVE StrandInv'
    BY <1>6, GetSessionStrand, subscribeSessionStrand, RecheckEndedStrand, CloseDeckStrand
       DEF Deck, Rest
  <1>7. ASSUME NEW w \in Watchers, NEW p \in Pods, NEW k \in Sessions, OpenDeck(w, p, k),
               UNCHANGED callVars
        PROVE  StrandInv'
    BY <1>7, OpenDeckStrand
  <1>8. ASSUME NEW c \in Conns, NEW p \in Pods, NEW d \in Phones, Register(c, p, d)
        PROVE  StrandInv'
    BY <1>8, StrandRest DEF Register
  <1>9. ASSUME NEW p \in Pods, NEW d \in Phones, SendTo(p, d) PROVE StrandInv'
    BY <1>9, StrandRest DEF SendTo
  <1>10. ASSUME NEW d \in Phones, ConnectionLost(d) \/ PresenceExpires(d) PROVE StrandInv'
    BY <1>10, StrandRest DEF ConnectionLost, PresenceExpires
  <1> QED BY <1>2, <1>3, <1>4, <1>5, <1>6, <1>7, <1>8, <1>9, <1>10 DEF Next

LEMMA StrandInit == Init => StrandInv
  <1> SUFFICES ASSUME Init PROVE StrandInv OBVIOUS
  <1>1. \A p \in Pods, k \in Sessions : job[p][k].pc = "none" BY DEF Init, NoJob
  <1>2. \A p \in Pods : hmail[p] = <<>> BY DEF Init, HealthInit
  <1>3. \A w \in Watchers : deck[w].pc = "idle" BY DEF Init, HealthInit, NoDeck
  <1>4. \A k : ~InMail(k) BY <1>2 DEF InMail, Pending
  <1>5. \A k \in Conferences : ~Evicting(k) BY <1>1 DEF Evicting
  <1>6. StartsAlone BY <1>1 DEF StartsAlone
  <1> QED BY <1>3, <1>4, <1>5, <1>6
          DEF StrandInv, EvictionsFollow, HeldInv, HeldIsFresh, MissedIsOver

LEMMA StrandInvariance == Spec => []StrandInv
  <1>1. IInv => LinkTypes /\ HealthTypes /\ CallTypes BY DEF IInv, LinkInv, DeckInv
  <1>2. IInv /\ StrandInv /\ [Next]_vars => StrandInv'
    <2> SUFFICES ASSUME IInv, StrandInv, [Next]_vars PROVE StrandInv' OBVIOUS
    <2>1. CASE UNCHANGED vars
      <3>1. UNCHANGED <<healthVars, callVars>> BY <2>1 DEF vars
      <3> QED BY <1>1, <3>1, StrandRest
    <2>2. CASE Next BY <1>1, <2>2, StrandNext
    <2> QED BY <2>1, <2>2
  <1> QED BY <1>2, StrandInit, Invariance, PTL DEF Spec


(* Once a conference has ended and the pods have heard of it, no deck      *)
(* shows it as live, whenever the deck was opened.                         *)
THEOREM EndedConferencesDark == Spec => []EndedConferenceHasNoDeck
  <1>1. ASSUME IInv, StrandInv PROVE EndedConferenceHasNoDeck
    <2> SUFFICES ASSUME NEW w \in Watchers, NEW k \in Conferences,
                        ShowsLive(w, k), row[k] = "ended", Settled(k)
                 PROVE  FALSE
      BY DEF EndedConferenceHasNoDeck
    <2>6. Shows(w, k)
      BY <1>1 DEF ShowsLive, Shows, StrandInv, HeldInv, MissedIsOver
    <2>1. Evicting(k) \/ Pending(hmail[deck[w].pod], k)
      BY <1>1, <2>6 DEF IInv, DeckInv, EvictionUnderWay
    <2>2. ~ Evicting(k) BY DEF Evicting, Settled, NoJob
    <2>3. deck[w].pod \in Pods BY <1>1, DeckTypes DEF IInv, DeckInv
    <2>4. hmail[deck[w].pod] = <<>> BY <2>3 DEF Settled
    <2>5. ~ Pending(<<>>, k) BY DEF Pending
    <2> QED BY <2>1, <2>2, <2>4, <2>5
  <1> QED BY <1>1, Invariance, StrandInvariance, PTL

-----------------------------------------------------------------------------
(* A message and the connections of its line.  The hub of a pod names only *)
(* goroutines of that pod that have not unregistered (HubServes).  The     *)
(* message waits at most once for a pod (OneLetter), and a connection that *)
(* has it is on a pod it no longer waits for (AtMostOnce); one that is due *)
(* to get it is still in its pod's hub, and has it or it waits for that    *)
(* pod (DueServed).  Before the message is sent there is none of this      *)
(* (NothingSent).                                                          *)

Carries(m) == \E i \in 1 .. Len(m) : m[i].type = "number"
Single(m) == \A i, j \in 1 .. Len(m) : m[i].type = "number" /\ m[j].type = "number" => i = j
Names(m, d) == \A i \in 1 .. Len(m) : m[i].type = "number" => m[i].phone = d

HubServes ==
  \A p \in Pods, d \in Phones : hub[p][d] # NoConn =>
    /\ conn[hub[p][d]].pc \notin {"free", "offline"}
    /\ conn[hub[p][d]].pod = p /\ conn[hub[p][d]].phone = d
OneLetter == \A q \in Pods : Single(mail[q])
NothingSent ==
  left.sends > 0 =>
    due = {} /\ (\A c \in Conns : got[c] = 0) /\ \A q \in Pods : ~ Carries(mail[q])
AtMostOnce ==
  \A c \in Conns : got[c] # 0 => got[c] = 1 /\ conn[c].pc # "free" /\ ~ Carries(mail[Pod(c)])
DueServed ==
  \A c \in due :
    /\ conn[c].pc # "free" /\ hub[Pod(c)][Phone(c)] = c
    /\ got[c] = 1 \/ Carries(mail[Pod(c)])
    /\ \A q \in Pods : Names(mail[q], Phone(c))

HandsetInv == HubServes /\ OneLetter /\ NothingSent /\ AtMostOnce /\ DueServed

(* What happens to a pod's letters.                                        *)
LEMMA Appended ==
  ASSUME NEW m \in Seq(Letter), NEW e \in Letter
  PROVE  /\ Append(m, e) \in Seq(Letter) /\ Len(Append(m, e)) = Len(m) + 1
         /\ Append(m, e)[Len(m) + 1] = e
         /\ \A i \in 1 .. Len(m) : Append(m, e)[i] = m[i]
  OBVIOUS

LEMMA NoticeAppended ==
  ASSUME NEW m \in Seq(Letter), NEW e \in Letter, e.type = "reconnect"
  PROVE  /\ Carries(Append(m, e)) <=> Carries(m)
         /\ Single(m) => Single(Append(m, e))
         /\ \A d : Names(m, d) => Names(Append(m, e), d)
  <1> DEFINE n == Append(m, e)
  <1>1. /\ n \in Seq(Letter) /\ Len(n) = Len(m) + 1 /\ n[Len(m) + 1] = e /\ Len(m) \in Nat
        /\ \A i \in 1 .. Len(m) : n[i] = m[i]
    BY Appended
  <1> HIDE DEF n
  <1>2. \A i \in 1 .. Len(n) : n[i].type = "number" => i \in 1 .. Len(m) /\ n[i] = m[i] BY <1>1
  <1>3. 1 .. Len(m) \subseteq 1 .. Len(n) BY <1>1
  <1>4. Carries(n) <=> Carries(m) BY <1>1, <1>2, <1>3 DEF Carries
  <1>5. Single(m) => Single(n) BY <1>2 DEF Single
  <1>6. \A d : Names(m, d) => Names(n, d) BY <1>2 DEF Names
  <1> QED BY <1>4, <1>5, <1>6 DEF n

LEMMA NumberAppended ==
  ASSUME NEW m \in Seq(Letter), NEW e \in Letter, e.type = "number", ~ Carries(m)
  PROVE  Carries(Append(m, e)) /\ Single(Append(m, e)) /\ Names(Append(m, e), e.phone)
  <1> DEFINE n == Append(m, e)
  <1>1. /\ n \in Seq(Letter) /\ Len(n) = Len(m) + 1 /\ n[Len(m) + 1] = e /\ Len(m) \in Nat
        /\ \A i \in 1 .. Len(m) : n[i] = m[i]
    BY Appended
  <1> HIDE DEF n
  <1>2. \A i \in 1 .. Len(n) : n[i].type = "number" => i = Len(m) + 1 BY <1>1 DEF Carries
  <1>3. Len(m) + 1 \in 1 .. Len(n) BY <1>1
  <1>4. Carries(n) BY <1>1, <1>3 DEF Carries
  <1>5. Single(n) BY <1>2 DEF Single
  <1>6. Names(n, e.phone) BY <1>1, <1>2 DEF Names
  <1> QED BY <1>4, <1>5, <1>6 DEF n

LEMMA LetterTaken ==
  ASSUME NEW m \in Seq(Letter), m # <<>>
  PROVE  /\ Single(m) => Single(Tail(m))
         /\ \A d : Names(m, d) => Names(Tail(m), d)
         /\ Head(m).type = "number" =>
              /\ Carries(m)
              /\ Single(m) => ~ Carries(Tail(m))
              /\ \A d : Names(m, d) => Head(m).phone = d
         /\ Head(m).type # "number" => (Carries(Tail(m)) <=> Carries(m))
  <1> DEFINE n == Tail(m)
  <1>1. /\ Len(n) = Len(m) - 1 /\ Len(m) \in Nat /\ Len(m) > 0 /\ Head(m) = m[1]
        /\ \A i \in 1 .. Len(n) : n[i] = m[i + 1]
    OBVIOUS
  <1> HIDE DEF n
  <1>2. \A i \in 1 .. Len(n) : i + 1 \in 1 .. Len(m) /\ i + 1 # 1 /\ n[i] = m[i + 1] BY <1>1
  <1>3. 1 \in 1 .. Len(m) BY <1>1
  <1>4. ASSUME Single(m) PROVE Single(n)
    <2> SUFFICES ASSUME NEW i \in 1 .. Len(n), NEW j \in 1 .. Len(n),
                        n[i].type = "number", n[j].type = "number"
                 PROVE  i = j
      BY DEF Single
    <2>1. i + 1 = j + 1 BY <1>2, <1>4 DEF Single
    <2> QED BY <2>1
  <1>5. \A d : Names(m, d) => Names(n, d) BY <1>2 DEF Names
  <1>6. Head(m).type = "number" => Carries(m) BY <1>1, <1>3 DEF Carries
  <1>7. Head(m).type = "number" /\ Single(m) => ~ Carries(n)
    BY <1>1, <1>2, <1>3 DEF Single, Carries
  <1>8. Head(m).type = "number" => \A d : Names(m, d) => Head(m).phone = d
    BY <1>1, <1>3 DEF Names
  <1>9. ASSUME Head(m).type # "number" PROVE Carries(n) <=> Carries(m)
    <2>1. Carries(n) => Carries(m) BY <1>2 DEF Carries
    <2>2. ASSUME Carries(m) PROVE Carries(n)
      <3>1. PICK i \in 1 .. Len(m) : m[i].type = "number" BY <2>2 DEF Carries
      <3>2. i # 1 BY <1>1, <1>9, <3>1
      <3>3. i - 1 \in 1 .. Len(n) /\ (i - 1) + 1 = i BY <1>1, <3>1, <3>2
      <3>4. n[i - 1] = m[i] BY <1>2, <3>3
      <3> QED BY <3>1, <3>3, <3>4 DEF Carries
    <2> QED BY <2>1, <2>2
  <1> QED BY <1>4, <1>5, <1>6, <1>7, <1>8, <1>9 DEF n

(* The connections stay with their pods and phones, and what the message   *)
(* has reached stays the same.                                             *)
LEMMA HandsetsKept ==
  ASSUME LinkTypes, MailTypes, HandsetInv,
         \A c \in Conns :
           /\ conn'[c].pod = conn[c].pod /\ conn'[c].phone = conn[c].phone
           /\ conn[c].pc # "free" => conn'[c].pc # "free"
           /\ conn[c].pc \notin {"free", "offline"} => conn'[c].pc # "offline",
         UNCHANGED <<hub, due, got>>, left'.sends = left.sends,
         \A q \in Pods :
           /\ Carries(mail'[q]) <=> Carries(mail[q])
           /\ Single(mail[q]) => Single(mail'[q])
           /\ \A d : Names(mail[q], d) => Names(mail'[q], d)
  PROVE  HandsetInv'
  <1>1. /\ HubServes /\ OneLetter /\ NothingSent /\ AtMostOnce /\ DueServed /\ due \subseteq Conns
    BY DEF HandsetInv, MailTypes
  <1>2. \A p \in Pods, d \in Phones : hub[p][d] \in Conns \cup {NoConn} BY DEF LinkTypes
  <1>3. HubServes' BY <1>1, <1>2 DEF HubServes
  <1>4. OneLetter' BY <1>1 DEF OneLetter
  <1>5. NothingSent' BY <1>1 DEF NothingSent
  <1>6. \A c \in Conns : conn[c].pc # "free" => conn[c].pod \in Pods BY AtWork
  <1>7. AtMostOnce' BY <1>1, <1>6 DEF AtMostOnce, Pod
  <1>8. DueServed' BY <1>1, <1>6 DEF DueServed, Pod, Phone
  <1> QED BY <1>3, <1>4, <1>5, <1>7, <1>8 DEF HandsetInv

LEMMA HandsetsAtRest ==
  ASSUME LinkTypes, MailTypes, HandsetInv, UNCHANGED <<conn, hub, mailVars>>,
         left'.sends = left.sends
  PROVE  HandsetInv'
  BY HandsetsKept DEF mailVars

(* A goroutine moves on and stays on its pod, with its phone.              *)
LEMMA GoesOn ==
  ASSUME LinkTypes, MailTypes, HandsetInv, NEW c \in Conns, conn[c].pc # "free",
         NEW pc \in ConnPCs \ {"offline"}, Goto(c, pc), UNCHANGED <<hub, mailVars, left>>
  PROVE  HandsetInv'
  <1>1. /\ conn'[c].pc = pc /\ conn'[c].pod = conn[c].pod /\ conn'[c].phone = conn[c].phone
        /\ \A x \in Conns : x # c => conn'[x] = conn[x]
    BY Goes
  <1>2. pc # "free" BY DEF ConnPCs, Serving
  <1> QED BY <1>1, <1>2, HandsetsKept DEF mailVars

LEMMA OnReconnectHandsets ==
  ASSUME LinkTypes, MailTypes, HandsetInv, NEW c \in Conns, OnReconnect(c)
  PROVE  HandsetInv'
  <1> DEFINE e == [type |-> "reconnect", phone |-> Phone(c)]
  <1>1. /\ conn[c].pc = "announce" /\ Goto(c, "read") /\ UNCHANGED <<hub, due, got, left>>
        /\ mail' = Deliveries(Pod(c), e)
    BY DEF OnReconnect
  <1>2. Phone(c) \in Phones BY <1>1, AtWork DEF Phone
  <1>3. e \in Letter /\ e.type = "reconnect" BY <1>2, LetterTypes
  <1> HIDE DEF e
  <1>4. /\ conn'[c].pc = "read" /\ conn'[c].pod = conn[c].pod /\ conn'[c].phone = conn[c].phone
        /\ \A x \in Conns : x # c => conn'[x] = conn[x]
    BY <1>1, Goes DEF ConnPCs, Serving
  <1>5. ASSUME NEW q \in Pods
        PROVE  /\ Carries(mail'[q]) <=> Carries(mail[q])
               /\ Single(mail[q]) => Single(mail'[q])
               /\ \A d : Names(mail[q], d) => Names(mail'[q], d)
    <2>1. mail[q] \in Seq(Letter) BY DEF MailTypes
    <2>2. mail'[q] = mail[q] \/ mail'[q] = Append(mail[q], e) BY <1>1 DEF Deliveries
    <2>3. CASE mail'[q] = mail[q] BY <2>3
    <2>4. CASE mail'[q] = Append(mail[q], e)
      <3>1. /\ Carries(Append(mail[q], e)) <=> Carries(mail[q])
            /\ Single(mail[q]) => Single(Append(mail[q], e))
            /\ \A d : Names(mail[q], d) => Names(Append(mail[q], e), d)
        BY <1>3, <2>1, NoticeAppended
      <3> QED BY <2>4, <3>1
    <2> QED BY <2>2, <2>3, <2>4
  <1> QED BY <1>1, <1>4, <1>5, HandsetsKept

LEMMA RegisterHandsets ==
  ASSUME LinkTypes, MailTypes, HandsetInv,
         NEW c \in Conns, NEW p \in Pods, NEW d \in Phones, Register(c, p, d)
  PROVE  HandsetInv'
  <1> DEFINE r == [pc |-> "online", pod |-> p, phone |-> d, key |-> None]
  <1>1. /\ conn[c] = Free /\ conn' = [conn EXCEPT ![c] = r] /\ hub' = [hub EXCEPT ![p][d] = c]
        /\ due' = due \ {hub[p][d]} /\ UNCHANGED <<mail, got, left>>
    BY DEF Register
  <1>2. r.pc = "online" /\ r.pod = p /\ r.phone = d OBVIOUS
  <1> HIDE DEF r
  <1>3. conn'[c] = r /\ \A x \in Conns : x # c => conn'[x] = conn[x] BY <1>1 DEF LinkTypes
  <1>4. /\ \A q \in Pods, e \in Phones : hub[q][e] \in Conns \cup {NoConn}
        /\ hub'[p][d] = c
        /\ \A q \in Pods, e \in Phones : q # p \/ e # d => hub'[q][e] = hub[q][e]
    BY <1>1 DEF LinkTypes
  <1>5. /\ HubServes /\ OneLetter /\ NothingSent /\ AtMostOnce /\ DueServed /\ due \subseteq Conns
    BY DEF HandsetInv, MailTypes
  <1>6. conn[c].pc = "free" BY <1>1, FreeIsNot
  <1>7. \A q \in Pods, e \in Phones : hub[q][e] # c BY <1>5, <1>6 DEF HubServes
  <1>8. HubServes' BY <1>2, <1>3, <1>4, <1>5, <1>7 DEF HubServes
  <1>9. OneLetter' BY <1>1, <1>5 DEF OneLetter
  <1>10. NothingSent' BY <1>1, <1>5 DEF NothingSent
  <1>11. AtMostOnce' BY <1>1, <1>3, <1>5, <1>6 DEF AtMostOnce, Pod
  <1>12. ASSUME NEW x \in due'
         PROVE  /\ conn'[x].pc # "free" /\ hub'[Pod(x)'][Phone(x)'] = x
                /\ got'[x] = 1 \/ Carries(mail'[Pod(x)'])
                /\ \A q \in Pods : Names(mail'[q], Phone(x)')
    <2>1. x \in due /\ x \in Conns /\ x # hub[p][d] BY <1>1, <1>5
    <2>2. x # c BY <1>5, <1>6, <2>1 DEF DueServed
    <2>3. conn'[x] = conn[x] BY <1>3, <2>1, <2>2
    <2>4. /\ conn[x].pc # "free" /\ hub[Pod(x)][Phone(x)] = x
          /\ got[x] = 1 \/ Carries(mail[Pod(x)])
          /\ \A q \in Pods : Names(mail[q], Phone(x))
      BY <1>5, <2>1 DEF DueServed
    <2>5. Pod(x)' = Pod(x) /\ Phone(x)' = Phone(x) BY <2>3 DEF Pod, Phone
    <2>6. Pod(x) \in Pods /\ Phone(x) \in Phones BY <2>1, <2>4, AtWork DEF Pod, Phone
    <2>7. hub'[Pod(x)][Phone(x)] = x BY <1>4, <2>1, <2>4, <2>6
    <2> QED BY <1>1, <2>3, <2>4, <2>5, <2>7
  <1>13. DueServed' BY <1>12 DEF DueServed
  <1> QED BY <1>8, <1>9, <1>10, <1>11, <1>13 DEF HandsetInv

(* A goroutine that no hub names returns.                                  *)
LEMMA ReleaseHandsets ==
  ASSUME LinkTypes, MailTypes, HandsetInv, NEW c \in Conns, Release(c),
         \A p \in Pods, d \in Phones : hub[p][d] # c, UNCHANGED <<hub, mail, left>>
  PROVE  HandsetInv'
  <1>1. /\ HubServes /\ OneLetter /\ NothingSent /\ AtMostOnce /\ DueServed /\ due \subseteq Conns
    BY DEF HandsetInv, MailTypes
  <1>2. /\ conn'[c] = Free /\ \A x \in Conns : x # c => conn'[x] = conn[x]
        /\ due' = due \ {c}
    BY DEF Release, LinkTypes
  <1>3. got'[c] = 0 /\ \A x \in Conns : x # c => got'[x] = got[x] BY DEF Release, MailTypes
  <1>4. \A p \in Pods, d \in Phones : hub[p][d] \in Conns \cup {NoConn} BY DEF LinkTypes
  <1>5. HubServes' BY <1>1, <1>2, <1>4 DEF HubServes
  <1>6. OneLetter' BY <1>1 DEF OneLetter
  <1>7. NothingSent' BY <1>1, <1>2, <1>3 DEF NothingSent
  <1>8. AtMostOnce' BY <1>1, <1>2, <1>3 DEF AtMostOnce, Pod
  <1>9. DueServed' BY <1>1, <1>2, <1>3 DEF DueServed, Pod, Phone
  <1> QED BY <1>5, <1>6, <1>7, <1>8, <1>9 DEF HandsetInv

LEMMA UnregisterHandsets ==
  ASSUME LinkTypes, MailTypes, HandsetInv, NEW c \in Conns, Unregister(c)
  PROVE  HandsetInv'
  <1>1. conn[c].pc = "unregister" /\ UNCHANGED <<mail, left>> BY DEF Unregister
  <1>2. /\ HubServes /\ OneLetter /\ NothingSent /\ AtMostOnce /\ DueServed /\ due \subseteq Conns
    BY DEF HandsetInv, MailTypes
  <1>3. Pod(c) \in Pods /\ Phone(c) \in Phones BY <1>1, AtWork DEF Pod, Phone
  <1>4. ASSUME NEW q \in Pods, NEW e \in Phones, hub[q][e] = c
        PROVE  q = Pod(c) /\ e = Phone(c)
    BY <1>2, <1>4, NamesAssumption DEF HubServes, Pod, Phone
  <1>5. CASE hub[Pod(c)][Phone(c)] # c
    <2>1. Release(c) /\ UNCHANGED hub BY <1>5 DEF Unregister
    <2> QED BY <1>1, <1>4, <1>5, <2>1, ReleaseHandsets
  <1>6. CASE hub[Pod(c)][Phone(c)] = c
    <2>1. /\ hub' = [hub EXCEPT ![Pod(c)][Phone(c)] = NoConn]
          /\ Goto(c, "offline") /\ due' = due \ {c} /\ UNCHANGED got
      BY <1>6 DEF Unregister
    <2>2. /\ conn'[c].pc = "offline" /\ conn'[c].pod = conn[c].pod
          /\ conn'[c].phone = conn[c].phone /\ \A x \in Conns : x # c => conn'[x] = conn[x]
      BY <1>1, <2>1, Goes DEF ConnPCs
    <2>3. /\ \A q \in Pods, e \in Phones : hub[q][e] \in Conns \cup {NoConn}
          /\ hub'[Pod(c)][Phone(c)] = NoConn
          /\ \A q \in Pods, e \in Phones : q # Pod(c) \/ e # Phone(c) => hub'[q][e] = hub[q][e]
      BY <1>3, <2>1 DEF LinkTypes
    <2>4. HubServes' BY <1>2, <1>4, <2>2, <2>3 DEF HubServes
    <2>5. OneLetter' BY <1>1, <1>2 DEF OneLetter
    <2>6. NothingSent' BY <1>1, <1>2, <2>1 DEF NothingSent
    <2>7. AtMostOnce' BY <1>1, <1>2, <2>1, <2>2 DEF AtMostOnce, Pod
    <2>8. ASSUME NEW x \in due'
          PROVE  /\ conn'[x].pc # "free" /\ hub'[Pod(x)'][Phone(x)'] = x
                 /\ got'[x] = 1 \/ Carries(mail'[Pod(x)'])
                 /\ \A q \in Pods : Names(mail'[q], Phone(x)')
      <3>1. x \in due /\ x \in Conns /\ x # c BY <1>2, <2>1
      <3>2. /\ conn[x].pc # "free" /\ hub[Pod(x)][Phone(x)] = x
            /\ got[x] = 1 \/ Carries(mail[Pod(x)])
            /\ \A q \in Pods : Names(mail[q], Phone(x))
        BY <1>2, <3>1 DEF DueServed
      <3>3. Pod(x)' = Pod(x) /\ Phone(x)' = Phone(x) BY <2>2, <3>1 DEF Pod, Phone
      <3>4. Pod(x) \in Pods /\ Phone(x) \in Phones BY <3>1, <3>2, AtWork DEF Pod, Phone
      <3>5. hub'[Pod(x)][Phone(x)] = x BY <1>6, <2>3, <3>1, <3>2, <3>4
      <3> QED BY <1>1, <2>1, <2>2, <3>1, <3>2, <3>3, <3>5
    <2>9. DueServed' BY <2>8 DEF DueServed
    <2> QED BY <2>4, <2>5, <2>6, <2>7, <2>9 DEF HandsetInv
  <1> QED BY <1>5, <1>6

LEMMA SetOfflineHandsets ==
  ASSUME LinkTypes, MailTypes, HandsetInv, NEW c \in Conns, SetOffline(c)
  PROVE  HandsetInv'
  <1>1. conn[c].pc = "offline" /\ Release(c) /\ UNCHANGED <<hub, mail, left>> BY DEF SetOffline
  <1>2. \A p \in Pods, d \in Phones : hub[p][d] # c
    BY <1>1, NamesAssumption DEF HandsetInv, HubServes
  <1> QED BY <1>1, <1>2, ReleaseHandsets

(* What the queue of a connection takes in.                                *)
LEMMA Enqueued ==
  ASSUME LinkTypes, MailTypes, HubServes, NEW p \in Pods, NEW d \in Phones,
         got' = Enqueue(p, d)
  PROVE  /\ \A x \in Conns : x # hub[p][d] => got'[x] = got[x]
         /\ hub[p][d] # NoConn => /\ hub[p][d] \in Conns /\ got'[hub[p][d]] = got[hub[p][d]] + 1
                                  /\ conn[hub[p][d]].pc # "free"
                                  /\ Pod(hub[p][d]) = p /\ Phone(hub[p][d]) = d
  <1>1. hub[p][d] \in Conns \cup {NoConn} BY DEF LinkTypes
  <1>2. got \in [Conns -> Nat] BY DEF MailTypes
  <1>3. \A x \in Conns : x # hub[p][d] => got'[x] = got[x] BY <1>2 DEF Enqueue
  <1>4. hub[p][d] # NoConn => hub[p][d] \in Conns /\ got'[hub[p][d]] = got[hub[p][d]] + 1
    BY <1>1, <1>2 DEF Enqueue
  <1>5. hub[p][d] # NoConn =>
          /\ conn[hub[p][d]].pc # "free" /\ Pod(hub[p][d]) = p /\ Phone(hub[p][d]) = d
    BY DEF HubServes, Pod, Phone
  <1> QED BY <1>3, <1>4, <1>5

LEMMA SendToHandsets ==
  ASSUME LinkTypes, MailTypes, left \in Budget, HandsetInv,
         NEW p \in Pods, NEW d \in Phones, SendTo(p, d)
  PROVE  HandsetInv'
  <1> DEFINE e == [type |-> "number", phone |-> d]
  <1>1. /\ left.sends > 0 /\ left' = [left EXCEPT !.sends = @ - 1] /\ UNCHANGED <<conn, hub>>
        /\ due' = {hub[q][d] : q \in Pods} \ {NoConn}
        /\ got' = Enqueue(p, d) /\ mail' = Deliveries(p, e)
    BY DEF SendTo, linkVars
  <1>2. e \in Letter /\ e.type = "number" /\ e.phone = d BY LetterTypes
  <1> HIDE DEF e
  <1>3. HubServes /\ OneLetter /\ NothingSent BY DEF HandsetInv
  <1>4. (\A c \in Conns : got[c] = 0) /\ \A q \in Pods : ~ Carries(mail[q])
    BY <1>1, <1>3 DEF NothingSent
  <1>5. mail'[p] = mail[p] /\ \A q \in Pods : q # p => mail'[q] = Append(mail[q], e)
    BY <1>1 DEF Deliveries
  <1>6. ASSUME NEW q \in Pods, q # p
        PROVE  Carries(mail'[q]) /\ Single(mail'[q]) /\ Names(mail'[q], d)
    <2>1. mail[q] \in Seq(Letter) BY DEF MailTypes
    <2> QED BY <1>2, <1>4, <1>5, <1>6, <2>1, NumberAppended
  <1>7. HubServes' BY <1>1, <1>3 DEF HubServes
  <1>8. OneLetter' BY <1>3, <1>5, <1>6 DEF OneLetter
  <1>9. NothingSent'
    <2>1. left'.sends = 0 BY <1>1 DEF Budget
    <2> QED BY <2>1 DEF NothingSent
  <1>10. AtMostOnce'
    <2> SUFFICES ASSUME NEW c \in Conns, got'[c] # 0
                 PROVE  got'[c] = 1 /\ conn[c].pc # "free" /\ ~ Carries(mail'[Pod(c)])
      BY <1>1 DEF AtMostOnce, Pod
    <2>1. c = hub[p][d] BY <1>1, <1>3, <1>4, Enqueued
    <2>2. c # NoConn BY NamesAssumption
    <2>3. got'[c] = got[c] + 1 /\ conn[c].pc # "free" /\ Pod(c) = p
      BY <1>1, <1>3, <2>1, <2>2, Enqueued
    <2> QED BY <1>4, <1>5, <2>3
  <1>11. ASSUME NEW c \in due'
         PROVE  /\ conn[c].pc # "free" /\ hub[Pod(c)][Phone(c)] = c
                /\ got'[c] = 1 \/ Carries(mail'[Pod(c)])
                /\ \A q \in Pods : Names(mail'[q], Phone(c))
    <2>1. PICK q \in Pods : c = hub[q][d] BY <1>1
    <2>2. c # NoConn BY <1>1
    <2>3. conn[c].pc # "free" /\ Pod(c) = q /\ Phone(c) = d
      BY <1>3, <2>1, <2>2 DEF HubServes, Pod, Phone
    <2>4. got'[c] = 1 \/ Carries(mail'[q])
      <3>1. CASE q # p BY <1>6, <3>1
      <3>2. CASE q = p
        <4>1. c \in Conns /\ got'[c] = got[c] + 1 BY <1>1, <1>3, <2>1, <2>2, <3>2, Enqueued
        <4> QED BY <1>4, <4>1
      <3> QED BY <3>1, <3>2
    <2>5. Names(mail'[p], d) BY <1>4, <1>5 DEF Names, Carries
    <2> QED BY <1>6, <2>1, <2>3, <2>4, <2>5
  <1>12. DueServed' BY <1>1, <1>11 DEF DueServed, Pod, Phone
  <1> QED BY <1>7, <1>8, <1>9, <1>10, <1>12 DEF HandsetInv

LEMMA deliverFromRedisHandsets ==
  ASSUME LinkTypes, MailTypes, HandsetInv, NEW p \in Pods, deliverFromRedis(p)
  PROVE  HandsetInv'
  <1> DEFINE env == Head(mail[p])
  <1>1. /\ mail[p] # <<>> /\ mail[p] \in Seq(Letter) /\ mail \in [Pods -> Seq(Letter)]
        /\ mail' = [mail EXCEPT ![p] = Tail(@)] /\ UNCHANGED <<conn, hub, due, left>>
    BY DEF deliverFromRedis, MailTypes, linkVars
  <1>2. \/ env.type = "number" /\ got' = Enqueue(p, env.phone)
        \/ env.type = "reconnect" /\ UNCHANGED got
    BY DEF deliverFromRedis
  <1>3. env.phone \in Phones BY <1>1, LetterTypes
  <1>4. /\ Single(mail[p]) => Single(Tail(mail[p]))
        /\ \A d : Names(mail[p], d) => Names(Tail(mail[p]), d)
        /\ env.type = "number" =>
             /\ Carries(mail[p])
             /\ Single(mail[p]) => ~ Carries(Tail(mail[p]))
             /\ \A d : Names(mail[p], d) => env.phone = d
        /\ env.type # "number" => (Carries(Tail(mail[p])) <=> Carries(mail[p]))
    BY <1>1, LetterTaken
  <1> HIDE DEF env
  <1>5. mail'[p] = Tail(mail[p]) /\ \A q \in Pods : q # p => mail'[q] = mail[q] BY <1>1
  <1>6. CASE env.type = "reconnect" /\ UNCHANGED got
    <2>1. ASSUME NEW q \in Pods
          PROVE  /\ Carries(mail'[q]) <=> Carries(mail[q])
                 /\ Single(mail[q]) => Single(mail'[q])
                 /\ \A d : Names(mail[q], d) => Names(mail'[q], d)
      BY <1>4, <1>5, <1>6
    <2> QED BY <1>1, <1>6, <2>1, HandsetsKept
  <1>7. CASE env.type = "number" /\ got' = Enqueue(p, env.phone)
    <2> DEFINE h == hub[p][env.phone]
    <2>1. /\ HubServes /\ OneLetter /\ NothingSent /\ AtMostOnce /\ DueServed /\ due \subseteq Conns
      BY DEF HandsetInv, MailTypes
    <2>2. Carries(mail[p]) /\ Single(mail[p]) /\ Single(mail'[p]) /\ ~ Carries(mail'[p])
      BY <1>4, <1>5, <1>7, <2>1 DEF OneLetter
    <2>3. /\ \A x \in Conns : x # h => got'[x] = got[x]
          /\ h # NoConn => h \in Conns /\ got'[h] = got[h] + 1 /\ conn[h].pc # "free" /\ Pod(h) = p
      BY <1>3, <1>7, <2>1, Enqueued
    <2> HIDE DEF h
    <2>4. HubServes' BY <1>1, <2>1 DEF HubServes
    <2>5. OneLetter' BY <1>5, <2>1, <2>2 DEF OneLetter
    <2>6. NothingSent' BY <1>1, <2>1, <2>2 DEF NothingSent
    <2>7. \A x \in Conns : Pod(x) = p => got[x] = 0 BY <2>1, <2>2 DEF AtMostOnce
    <2>8. ASSUME NEW c \in Conns, got'[c] # 0
          PROVE  got'[c] = 1 /\ conn[c].pc # "free" /\ ~ Carries(mail'[Pod(c)])
      <3>1. CASE c = h
        <4>1. h # NoConn BY <3>1, NamesAssumption
        <4> QED BY <2>2, <2>3, <2>7, <3>1, <4>1
      <3>2. CASE c # h
        <4>1. got[c] # 0 /\ got'[c] = got[c] BY <2>3, <2>8, <3>2
        <4>2. got[c] = 1 /\ conn[c].pc # "free" /\ ~ Carries(mail[Pod(c)])
          BY <2>1, <4>1 DEF AtMostOnce
        <4>3. Pod(c) \in Pods BY <4>2, AtWork DEF Pod
        <4> QED BY <1>5, <2>2, <4>1, <4>2, <4>3
      <3> QED BY <3>1, <3>2
    <2>9. AtMostOnce' BY <1>1, <2>8 DEF AtMostOnce, Pod
    <2>10. ASSUME NEW c \in due
           PROVE  /\ conn[c].pc # "free" /\ hub[Pod(c)][Phone(c)] = c
                  /\ got'[c] = 1 \/ Carries(mail'[Pod(c)])
                  /\ \A q \in Pods : Names(mail'[q], Phone(c))
      <3>1. /\ c \in Conns /\ conn[c].pc # "free" /\ hub[Pod(c)][Phone(c)] = c
            /\ got[c] = 1 \/ Carries(mail[Pod(c)])
            /\ \A q \in Pods : Names(mail[q], Phone(c))
        BY <2>1 DEF DueServed
      <3>2. Pod(c) \in Pods BY <3>1, AtWork DEF Pod
      <3>3. \A q \in Pods : Names(mail'[q], Phone(c)) BY <1>4, <1>5, <3>1
      <3>4. CASE Pod(c) = p
        <4>1. env.phone = Phone(c) BY <1>4, <1>7, <3>1
        <4>2. h = c /\ h # NoConn BY <3>1, <3>4, <4>1, NamesAssumption DEF h
        <4>3. got'[c] = 1 BY <2>3, <2>7, <3>1, <3>4, <4>2
        <4> QED BY <3>1, <3>3, <4>3
      <3>5. CASE Pod(c) # p
        <4>1. c # h BY <2>3, <3>1, <3>5, NamesAssumption
        <4>2. got'[c] = got[c] /\ mail'[Pod(c)] = mail[Pod(c)] BY <1>5, <2>3, <3>1, <3>2, <3>5, <4>1
        <4> QED BY <3>1, <3>3, <4>2
      <3> QED BY <3>4, <3>5
    <2>11. DueServed' BY <1>1, <2>10 DEF DueServed, Pod, Phone
    <2> QED BY <2>4, <2>5, <2>6, <2>9, <2>11 DEF HandsetInv
  <1> QED BY <1>2, <1>6, <1>7

LEMMA SamplesHandsets ==
  ASSUME LinkTypes, MailTypes, left \in Budget, HandsetInv, NEW c \in Conns,
         (\E k \in Sessions : LookUp(c, k)) \/ RecordSample(c)
  PROVE  HandsetInv'
  <1>1. PICK pc \in {"record", "read"}, k \in Sessions \cup {None} :
          /\ conn[c].pc \in {"read", "record"}
          /\ conn' = [conn EXCEPT ![c].pc = pc, ![c].key = k]
          /\ UNCHANGED <<hub, mailVars>>
    BY DEF LookUp, RecordSample, Reading
  <1>2. left'.sends = left.sends BY DEF LookUp, RecordSample, Budget
  <1>3. conn[c] \in Connected BY <1>1, AtWork
  <1> DEFINE r == [conn[c] EXCEPT !.pc = pc, !.key = k]
  <1>4. r.pc = pc /\ r.pod = conn[c].pod /\ r.phone = conn[c].phone BY <1>3 DEF Connected
  <1>5. conn' = [conn EXCEPT ![c] = r] BY <1>1, <1>3 DEF LinkTypes
  <1> HIDE DEF r
  <1>6. conn'[c] = r /\ \A x \in Conns : x # c => conn'[x] = conn[x] BY <1>5 DEF LinkTypes
  <1>7. \A x \in Conns : conn'[x].pod = conn[x].pod /\ conn'[x].phone = conn[x].phone
    BY <1>4, <1>6
  <1>8. \A x \in Conns : /\ conn[x].pc # "free" => conn'[x].pc # "free"
                         /\ conn[x].pc \notin {"free", "offline"} => conn'[x].pc # "offline"
    BY <1>4, <1>6
  <1> QED BY <1>1, <1>2, <1>7, <1>8, HandsetsKept DEF mailVars

LEMMA ConnectionHandsets ==
  ASSUME LinkTypes, MailTypes, left \in Budget, HandsetInv, NEW c \in Conns, Connection(c)
  PROVE  HandsetInv'
  <1>1. CASE SetOnline(c) BY <1>1, GoesOn DEF SetOnline, ConnPCs, Serving
  <1>2. CASE ReadFails(c) BY <1>2, GoesOn DEF ReadFails, ConnPCs
  <1>3. CASE OnConnClosed(c) BY <1>3, GoesOn DEF OnConnClosed, ConnPCs
  <1> QED BY <1>1, <1>2, <1>3, OnReconnectHandsets, UnregisterHandsets, SetOfflineHandsets,
          SamplesHandsets DEF Connection

LEMMA HandsetNext ==
  ASSUME LinkTypes, MailTypes, left \in Budget, HandsetInv, Next
  PROVE  HandsetInv'
  <1>1. /\ [left EXCEPT !.moves = @ - 1].sends = left.sends
        /\ [left EXCEPT !.decks = @ - 1].sends = left.sends
        /\ [left EXCEPT !.forced = @ - 1].sends = left.sends
    BY DEF Budget
  <1>2. ASSUME NEW c \in Conns, Connection(c) \/ TouchLastSeen(c) PROVE HandsetInv'
    <2>1. CASE TouchLastSeen(c) BY <2>1, HandsetsAtRest DEF TouchLastSeen
    <2> QED BY <1>2, <2>1, ConnectionHandsets
  <1>3. ASSUME NEW c \in Conns, NEW p \in Pods, NEW d \in Phones, Register(c, p, d)
        PROVE  HandsetInv'
    BY <1>3, RegisterHandsets
  <1>4. ASSUME NEW d \in Phones, ConnectionLost(d) \/ PresenceExpires(d) PROVE HandsetInv'
    BY <1>1, <1>4, HandsetsAtRest DEF ConnectionLost, PresenceExpires
  <1>5. ASSUME NEW p \in Pods, Work(p) PROVE HandsetInv'
    <2>1. CASE deliverFromRedis(p) BY <2>1, deliverFromRedisHandsets
    <2>2. ASSUME UNCHANGED <<linkVars, mailVars, left>> PROVE HandsetInv'
      BY <2>2, HandsetsAtRest DEF linkVars
    <2> QED BY <1>5, <2>1, <2>2 DEF Work, Rest, Started, RemoveFromRedis, EvictStep, RowStep,
         GraceExpires, GraceEndsCall
  <1>6. ASSUME NEW p \in Pods, NEW d \in Phones, SendTo(p, d) PROVE HandsetInv'
    BY <1>6, SendToHandsets
  <1>7. ASSUME NEW p \in Pods, NEW k \in Sessions, Start(p, k) \/ ForceEnd(p, k)
        PROVE  HandsetInv'
    BY <1>1, <1>7, HandsetsAtRest DEF Start, ForceEnd, linkVars
  <1>8. ASSUME NEW c \in Conns, NEW k \in Sessions, Hangup(c, k) \/ LookUp(c, k)
        PROVE  HandsetInv'
    <2>1. CASE Hangup(c, k) BY <2>1, HandsetsAtRest DEF Hangup, linkVars
    <2> QED BY <1>8, <2>1, SamplesHandsets
  <1>9. ASSUME NEW w \in Watchers, Deck(w) \/ (CloseDeck(w) /\ Rest) PROVE HandsetInv'
    BY <1>9, HandsetsAtRest DEF Deck, Rest, linkVars
  <1>10. ASSUME left' = [left EXCEPT !.decks = @ - 1], UNCHANGED <<linkVars, mailVars>>
         PROVE  HandsetInv'
    BY <1>1, <1>10, HandsetsAtRest DEF linkVars
  <1> QED BY <1>2, <1>3, <1>4, <1>5, <1>6, <1>7, <1>8, <1>9, <1>10 DEF Next

LEMMA HandsetInit ==
  ASSUME Init
  PROVE  HandsetInv
  <1>1. PICK at \in [Phones -> Pods] :
          /\ conn = [c \in Conns |->
               IF \E d \in Phones : sock[d] = c
                 THEN LET d == CHOOSE d \in Phones : sock[d] = c
                      IN  [pc |-> "read", pod |-> at[d], phone |-> d, key |-> None]
                 ELSE Free]
          /\ hub = [p \in Pods |-> [d \in Phones |-> IF at[d] = p THEN sock[d] ELSE NoConn]]
    BY DEF Init
  <1>2. /\ sock \in [Phones -> Conns] /\ \A d, e \in Phones : sock[d] = sock[e] => d = e
        /\ mail = [p \in Pods |-> <<>>] /\ due = {} /\ got = [c \in Conns |-> 0]
    BY DEF Init
  <1>3. ASSUME NEW d \in Phones
        PROVE  conn[sock[d]] = [pc |-> "read", pod |-> at[d], phone |-> d, key |-> None]
    <2>1. sock[d] \in Conns BY <1>2
    <2>2. (CHOOSE e \in Phones : sock[e] = sock[d]) = d BY <1>2
    <2> QED BY <1>1, <2>1, <2>2
  <1>4. HubServes
    <2> SUFFICES ASSUME NEW p \in Pods, NEW d \in Phones, hub[p][d] # NoConn
                 PROVE  /\ conn[hub[p][d]].pc \notin {"free", "offline"}
                        /\ conn[hub[p][d]].pod = p /\ conn[hub[p][d]].phone = d
      BY DEF HubServes
    <2>1. at[d] = p /\ hub[p][d] = sock[d] BY <1>1
    <2>2. conn[sock[d]] = [pc |-> "read", pod |-> p, phone |-> d, key |-> None] BY <1>3, <2>1
    <2> QED BY <2>1, <2>2
  <1>5. \A q \in Pods : ~ Carries(mail[q]) /\ Single(mail[q]) BY <1>2 DEF Carries, Single
  <1> QED BY <1>2, <1>4, <1>5 DEF HandsetInv, OneLetter, NothingSent, AtMostOnce, DueServed

THEOREM HandsetInvariance == Spec => []HandsetInv
  <1>1. Init => HandsetInv BY HandsetInit
  <1>2. IInv /\ HandsetInv /\ [Next]_vars => HandsetInv'
    <2> SUFFICES ASSUME IInv, HandsetInv, [Next]_vars PROVE HandsetInv' OBVIOUS
    <2>1. LinkTypes /\ MailTypes /\ left \in Budget BY DEF IInv, LinkInv
    <2>2. CASE Next BY <2>1, <2>2, HandsetNext
    <2>3. CASE UNCHANGED vars BY <2>1, <2>3, HandsetsAtRest DEF vars, linkVars
    <2> QED BY <2>2, <2>3
  <1> QED BY <1>1, <1>2, Invariance, PTL DEF Spec

(* A message to a line reaches each connection that was in a pod's hub     *)
(* when it was sent and still is, and none gets it twice (SendTo,          *)
(* deliverFromRedis).                                                      *)
THEOREM EachHandsetOnce == Spec => []EveryHandsetOnce
  <1>1. ASSUME IInv, HandsetInv PROVE EveryHandsetOnce
    <2>1. AtMostOnce /\ DueServed /\ got \in [Conns -> Nat]
      BY <1>1 DEF HandsetInv, IInv, MailTypes
    <2>2. \A c \in Conns : got[c] <= 1 BY <2>1 DEF AtMostOnce
    <2>3. ASSUME \A p \in Pods : mail[p] = <<>>, NEW c \in due PROVE got[c] = 1
      <3>1. c \in Conns /\ LinkTypes BY <1>1 DEF IInv, MailTypes, LinkInv
      <3>2. conn[c].pc # "free" /\ (got[c] = 1 \/ Carries(mail[Pod(c)])) BY <2>1 DEF DueServed
      <3>3. mail[Pod(c)] = <<>> BY <2>3, <3>1, <3>2, AtWork DEF Pod
      <3>4. ~ Carries(<<>>) BY DEF Carries
      <3> QED BY <3>2, <3>3, <3>4
    <2> QED BY <2>2, <2>3 DEF EveryHandsetOnce
  <1> QED BY <1>1, Invariance, HandsetInvariance, PTL
=============================================================================
