--------------------------- MODULE AccountsProofs ---------------------------
(***************************************************************************)
(* Proofs about Accounts, for every number of accounts, households and     *)
(* requests at once: the tables refer to rows that exist, no household is  *)
(* left without a member unless its membership changed under a request,    *)
(* and two households are linked twice only by overlapping acceptances.    *)
(***************************************************************************)
EXTENDS Accounts, FiniteSetTheorems, WellFoundedInduction, TLAPS

(***************************************************************************)
(* The inductive invariant.  The tables refer to rows that exist (UsersOK  *)
(* to InvitesOK).  A request that has counted a household's members and    *)
(* will remove one of them may still do so: there are two, or somebody has *)
(* changed the membership since (Counted).  A request about to commit an   *)
(* acceptance holds the code's row, and no other code links the two        *)
(* households, or two acceptances of theirs overlapped (Accepting).        *)
(***************************************************************************)
UserRow == [addr : Addresses, enabled : BOOLEAN]
LinkRow == [a : Homes, b : Homes \cup {None}, status : {"pending", "active", "revoked"},
            by : Users \cup {None}]
InviteRow == [home : Homes, addr : Addresses,
              status : {"pending", "cancelled", "accepted"}, fresh : BOOLEAN,
              by : Users \cup {None}]

UsersOK ==
  /\ user \in [Users -> UserRow \cup {None}]
  /\ \A u, v \in Users : Exists(u) /\ Exists(v) /\ user[u].addr = user[v].addr => u = v

SessOK ==
  /\ sess \in [Users -> [home : home \cup {None}] \cup {None}]
  /\ \A u \in Users : sess[u] # None => Exists(u)

HomesOK == born \in 0..MaxHomes /\ home \subseteq 1..born

MembersOK == /\ members \subseteq Users \X home
             /\ \A m \in members : Exists(m[1])

LinksOK ==
  /\ link \in [Links -> LinkRow \cup {None}]
  /\ \A l \in Links : link[l] # None =>
       /\ link[l].a \in home /\ link[l].b \in home \cup {None}
       /\ link[l].by # None => Exists(link[l].by)

InvitesOK ==
  /\ invite \in [Invites -> InviteRow \cup {None}]
  /\ \A i \in Invites : invite[i] # None =>
       /\ invite[i].home \in home
       /\ invite[i].by # None => Exists(invite[i].by)

\* What a request carries.
Knows(j) ==
  /\ j.pc \in {"lookup", "create_user", "invite_check", "invite_row"} => j.addr \in Addresses
  /\ j.pc \in {"count", "create", "mark", "redeem", "invite_check", "invite_row", "link_row"}
       => j.user \in Users
  /\ j.pc \in {"delete_count", "delete_row", "delete_members", "delete_commit"}
       => j.homes # {} /\ j.homes \subseteq Homes
  /\ j.pc = "delete_row" => j.home \in j.homes
  /\ j.pc \in {"mark", "forget"} =>
       /\ j.then.pc \in {"idle", "activate", "delete_count", "delete_user"}
       /\ j.then.pc = "delete_count" => j.then.homes # {} /\ j.then.homes \subseteq Homes
  /\ j.pc = "redeem" => j.invite \in Invites
  /\ j.pc = "accept" => /\ j.link \in Links
                        /\ j = [pc |-> "accept", link |-> j.link, home |-> j.home]
  /\ j.pc = "invite_check" =>
       j = [pc |-> "invite_check", user |-> j.user, home |-> j.home, addr |-> j.addr]

JobsOK == /\ task = [t \in Tasks |-> task[t]]
          /\ \A t \in Tasks : Knows(task[t])

Shared(h) == \E u, v \in Users : u # v /\ <<u, h>> \in members /\ <<v, h>> \in members

Counted == \A t \in Tasks : task[t].pc \in {"remove_row", "delete_row"} =>
             Shared(task[t].home) \/ task[t].home \in crossed

Active(l) == link[l] # None /\ link[l].status = "active"

Joins(l, pair) == Active(l) /\ {link[l].a, link[l].b} = pair

Accepts(j) ==
  j.pc = "accept_commit" =>
    /\ j.link \in Links /\ link[j.link] # None /\ link[j.link].status = "pending"
    /\ \A k \in Links : Joins(k, {link[j.link].a, j.home}) => {link[j.link].a, j.home} \in doubled

Accepting ==
  /\ \A t \in Tasks : Accepts(task[t])
  /\ \A s, t \in Tasks : /\ s # t
                         /\ task[s].pc = "accept_commit" /\ task[t].pc = "accept_commit"
                         => task[s].link # task[t].link

IInv ==
  /\ UsersOK /\ SessOK /\ HomesOK /\ MembersOK /\ LinksOK /\ InvitesOK
  /\ magic \in [Addresses -> 0..MagicLinksPerHour] /\ cached \subseteq Users
  /\ JobsOK /\ Counted /\ Accepting
  /\ HouseholdsHaveMembers /\ LinkedOnce

-----------------------------------------------------------------------------
(* Facts about the operators.                                              *)

LEMMA IdTypes ==
  /\ \A h \in Homes : h \in Nat /\ h # None
  /\ \A u \in Users : u \in Nat /\ u # None
  BY SetUp DEF Homes, Users

LEMMA NoneIsNoRow == None \notin UserRow
  BY SetUp DEF UserRow

LEMMA InHomes ==
  ASSUME HomesOK
  PROVE  /\ home \subseteq Homes
         /\ born # MaxHomes => born + 1 \in Homes /\ born + 1 \in 0..MaxHomes
                             /\ home \subseteq 1..(born + 1)
  <1>1. MaxHomes \in Nat BY SetUp
  <1>2. 1..born \subseteq 1..MaxHomes BY <1>1 DEF HomesOK
  <1> QED BY <1>1, <1>2 DEF HomesOK, Homes

LEMMA LeastExists ==
  ASSUME NEW S \in SUBSET Nat, S # {}
  PROVE  Min(S) \in S /\ \A y \in S : Min(S) <= y
  <1>1. IsWellFoundedOn(OpToRel(<, Nat), Nat) BY NatLessThanWellFounded
  <1>2. PICK x \in S : \A y \in S : ~ (<<y, x>> \in OpToRel(<, Nat)) BY <1>1, WFMin
  <1>3. \A y \in S : x <= y
    <2> TAKE y \in S
    <2>1. ~ (y < x) BY <1>2 DEF OpToRel
    <2> QED BY <2>1
  <1> QED BY <1>3 DEF Min

LEMMA GreatestExists ==
  ASSUME NEW n \in Nat, NEW S \in SUBSET (1..n), S # {}
  PROVE  Max(S) \in S /\ \A y \in S : y <= Max(S)
  <1> DEFINE D == {n - x : x \in S}
  <1>1. D \in SUBSET Nat /\ D # {}
    <2>1. \A x \in S : n - x \in Nat
      <3> TAKE x \in S
      <3>1. x \in 1..n OBVIOUS
      <3> QED BY <3>1
    <2>2. PICK x \in S : TRUE OBVIOUS
    <2>3. n - x \in D OBVIOUS
    <2> QED BY <2>1, <2>3
  <1> HIDE DEF D
  <1>2. PICK e \in D : \A f \in D : e <= f BY <1>1, LeastExists
  <1>3. PICK x \in S : e = n - x BY <1>2 DEF D
  <1>4. ASSUME NEW y \in S PROVE x >= y
    <2>1. n - y \in D BY DEF D
    <2>2. n - x <= n - y BY <1>2, <1>3, <2>1
    <2>3. x \in 1..n /\ y \in 1..n OBVIOUS
    <2> QED BY <2>2, <2>3
  <1> QED BY <1>4 DEF Max

(* A household of more than one member has two.                            *)
LEMMA MoreThanOne ==
  ASSUME NEW h, ~ (MemberCount(h) <= 1)
  PROVE  Shared(h)
  <1>1. IsFiniteSet(Users) BY FS_Interval, SetUp DEF Users
  <1>2. MembersOf(h) \subseteq Users BY DEF MembersOf
  <1>3. IsFiniteSet(MembersOf(h)) BY <1>1, <1>2, FS_Subset
  <1>4. MembersOf(h) # {}
    <2>1. MembersOf(h) = {} => MemberCount(h) = 0 BY FS_EmptySet DEF MemberCount
    <2> QED BY <2>1
  <1>5. PICK u \in MembersOf(h) : TRUE BY <1>4
  <1>6. MembersOf(h) # {u}
    <2>1. MembersOf(h) = {u} => MemberCount(h) = 1 BY FS_Singleton DEF MemberCount
    <2> QED BY <2>1
  <1>7. PICK v \in MembersOf(h) : v # u BY <1>4, <1>5, <1>6
  <1> QED BY <1>5, <1>7 DEF Shared, MembersOf

LEMMA Inherits == IInv => TypeOK
  BY IdTypes DEF IInv, TypeOK, UsersOK, SessOK, HomesOK, MembersOK, LinksOK, InvitesOK, UserRow,
                 LinkRow, Exists

-----------------------------------------------------------------------------
(* The parts of the invariant that a step leaves alone.                    *)

\* A request that counts no members and holds no code.
Plain(j) == Knows(j) /\ j.pc \notin {"remove_row", "delete_row", "accept_commit"}

\* Every request stays where it was or becomes a plain one.
Plainly == /\ task' = [t \in Tasks |-> task'[t]]
           /\ \A t \in Tasks : task'[t] = task[t] \/ Plain(task'[t])

LEMMA GoesTo ==
  ASSUME JobsOK, NEW t \in Tasks, NEW r, Goto(t, r)
  PROVE  /\ task' = [s \in Tasks |-> task'[s]]
         /\ task'[t] = r /\ \A s \in Tasks : s # t => task'[s] = task[s]
  BY DEF JobsOK, Goto

LEMMA GoesPlainly ==
  ASSUME JobsOK, NEW t \in Tasks, NEW r, Goto(t, r), Plain(r)
  PROVE  Plainly
  BY GoesTo DEF Plainly

LEMMA Finishes ==
  ASSUME JobsOK, NEW t \in Tasks, Done(t)
  PROVE  Plainly
  <1>1. Plain(Idle) BY DEF Plain, Knows, Idle
  <1> QED BY <1>1, GoesPlainly DEF Done

LEMMA StaysPlainly ==
  ASSUME JobsOK, UNCHANGED task
  PROVE  Plainly
  BY DEF JobsOK, Plainly

LEMMA JobsKnown ==
  ASSUME JobsOK, Plainly
  PROVE  JobsOK'
  BY DEF JobsOK, Plainly, Plain

LEMMA CountsStand ==
  ASSUME Counted, Plainly, crossed \subseteq crossed',
         \A t \in Tasks : task'[t].pc \in {"remove_row", "delete_row"} =>
           \/ task[t].home \in crossed'
           \/ \A u \in Users : <<u, task[t].home>> \in members => <<u, task[t].home>> \in members'
  PROVE  Counted'
  <1> SUFFICES ASSUME NEW t \in Tasks, task'[t].pc \in {"remove_row", "delete_row"},
                      task'[t].home \notin crossed'
               PROVE  Shared(task[t].home)'
    BY DEF Counted
  <1>1. task'[t] = task[t] BY DEF Plainly, Plain
  <1>2. Shared(task[t].home) BY <1>1 DEF Counted
  <1> QED BY <1>1, <1>2 DEF Shared

LEMMA AcceptancesStand ==
  ASSUME Accepting, Plainly, UNCHANGED doubled,
         \A l \in Links : LinkLocked(l) => link'[l] = link[l],
         \A l \in Links :
           Active(l)' => Active(l) /\ link'[l].a = link[l].a /\ link'[l].b = link[l].b
  PROVE  Accepting'
  <1>1. ASSUME NEW t \in Tasks, task'[t].pc = "accept_commit"
        PROVE  task'[t] = task[t]
    BY <1>1 DEF Plainly, Plain
  <1>2. ASSUME NEW t \in Tasks PROVE Accepts(task[t])'
    <2> SUFFICES ASSUME task'[t].pc = "accept_commit" PROVE Accepts(task[t])'
      BY DEF Accepts
    <2> PICK l, pair : l = task[t].link /\ pair = {link[l].a, task[t].home} OBVIOUS
    <2>1. task'[t] = task[t] BY <1>1
    <2>2. /\ l \in Links /\ link[l] # None /\ link[l].status = "pending"
          /\ \A k \in Links : Joins(k, pair) => pair \in doubled
      BY <2>1 DEF Accepting, Accepts
    <2>3. link'[l] = link[l] BY <2>1, <2>2 DEF LinkLocked
    <2>4. \A k \in Links : Active(k)' /\ {link'[k].a, link'[k].b} = pair => pair \in doubled'
      BY <2>2 DEF Joins
    <2>5. \A k \in Links : Joins(k, pair)' => pair \in doubled' BY <2>4 DEF Joins
    <2>6. task'[t].link = l /\ {link'[l].a, task'[t].home} = pair BY <2>1, <2>3
    <2> QED BY <2>2, <2>3, <2>5, <2>6 DEF Accepts
  <1>3. ASSUME NEW r \in Tasks, NEW t \in Tasks, r # t,
               task'[r].pc = "accept_commit", task'[t].pc = "accept_commit"
        PROVE  task'[r].link # task'[t].link
    <2>1. task'[r] = task[r] /\ task'[t] = task[t] BY <1>1, <1>3
    <2> QED BY <1>3, <2>1 DEF Accepting
  <1> QED BY <1>2, <1>3 DEF Accepting

LEMMA LinksStand ==
  ASSUME Accepting, LinkedOnce, Plainly, UNCHANGED <<link, doubled>>
  PROVE  Accepting' /\ LinkedOnce'
  <1>1. /\ \A l \in Links : LinkLocked(l) => link'[l] = link[l]
        /\ \A l \in Links :
             Active(l)' => Active(l) /\ link'[l].a = link[l].a /\ link'[l].b = link[l].b
        /\ UNCHANGED doubled
    BY DEF Active
  <1>2. Accepting' BY <1>1, AcceptancesStand
  <1> QED BY <1>2 DEF LinkedOnce

LEMMA MembersStand ==
  ASSUME Counted, HouseholdsHaveMembers, Plainly, UNCHANGED <<members, crossed>>, home' = home
  PROVE  Counted' /\ HouseholdsHaveMembers'
  <1>1. Counted' BY CountsStand
  <1> QED BY <1>1 DEF HouseholdsHaveMembers, MembersOf

(* Accounts and households that stay, or come, orphan no row.              *)
LEMMA RowsStand ==
  ASSUME IInv, home \subseteq home', \A u \in Users : Exists(u) => Exists(u)'
  PROVE  /\ UNCHANGED sess => SessOK'
         /\ UNCHANGED members => MembersOK'
         /\ UNCHANGED link => LinksOK'
         /\ UNCHANGED invite => InvitesOK'
  <1>1. UNCHANGED sess => SessOK' BY DEF IInv, SessOK
  <1>2. UNCHANGED members => MembersOK'
    <2>1. ASSUME NEW m \in members PROVE m[1] \in Users /\ Exists(m[1])
      BY <2>1 DEF IInv, MembersOK
    <2> QED BY <2>1 DEF IInv, MembersOK
  <1>3. UNCHANGED link => LinksOK'
    <2>1. \A l \in Links : link[l] # None => link[l].by \in Users \cup {None}
      BY DEF IInv, LinksOK, LinkRow
    <2> QED BY <2>1 DEF IInv, LinksOK
  <1>4. UNCHANGED invite => InvitesOK'
    <2>1. \A i \in Invites : invite[i] # None => invite[i].by \in Users \cup {None}
      BY DEF IInv, InvitesOK, InviteRow
    <2> QED BY <2>1 DEF IInv, InvitesOK
  <1> QED BY <1>1, <1>2, <1>3, <1>4

(* A step that changes no table but the links sent and the cache.          *)
LEMMA Reads ==
  ASSUME IInv, Plainly, UNCHANGED <<user, sess, home, born, members, link, invite, history>>,
         magic' \in [Addresses -> 0..MagicLinksPerHour], cached' \subseteq Users
  PROVE  IInv'
  <1>1. UNCHANGED <<crossed, doubled>> BY DEF history
  <1>2. \A u \in Users : Exists(u) => Exists(u)' BY DEF Exists
  <1>3. UsersOK' /\ HomesOK' BY DEF IInv, UsersOK, HomesOK, Exists
  <1>4. SessOK' /\ MembersOK' /\ LinksOK' /\ InvitesOK' BY <1>2, RowsStand
  <1>5. JobsOK' BY JobsKnown DEF IInv
  <1>6. Counted' /\ HouseholdsHaveMembers' BY <1>1, MembersStand DEF IInv
  <1>7. Accepting' /\ LinkedOnce' BY <1>1, LinksStand DEF IInv
  <1> QED BY <1>3, <1>4, <1>5, <1>6, <1>7 DEF IInv

(* Two households are linked once, in terms of the active links.           *)
LEMMA OnceByActive ==
  LinkedOnce <=> \A k, l \in Links :
                   (k # l /\ Active(k) /\ Active(l) /\ {link[k].a, link[k].b} = {link[l].a, link[l].b})
                     => {link[k].a, link[k].b} \in doubled
  <1>1. \A x, y : {x, y} # {"active"} <=> ~ (x = "active" /\ y = "active") OBVIOUS
  <1> QED BY <1>1 DEF LinkedOnce, Active

(* Links that nobody is accepting may go, come as codes, or be revoked.    *)
LEMMA LinksMove ==
  ASSUME Accepting, LinkedOnce, Plainly, UNCHANGED doubled,
         \A l \in Links : LinkLocked(l) => link'[l] = link[l],
         \A l \in Links :
           Active(l)' => Active(l) /\ link'[l].a = link[l].a /\ link'[l].b = link[l].b
  PROVE  Accepting' /\ LinkedOnce'
  <1>1. Accepting' BY AcceptancesStand
  <1>2. ASSUME NEW k \in Links, NEW l \in Links, k # l, Active(k)', Active(l)',
               {link'[k].a, link'[k].b} = {link'[l].a, link'[l].b}
        PROVE  {link'[k].a, link'[k].b} \in doubled
    <2>1. /\ Active(k) /\ link'[k].a = link[k].a /\ link'[k].b = link[k].b
          /\ Active(l) /\ link'[l].a = link[l].a /\ link'[l].b = link[l].b
      BY <1>2
    <2>2. {link[k].a, link[k].b} \in doubled BY <1>2, <2>1, OnceByActive
    <2> QED BY <2>1, <2>2
  <1>3. LinkedOnce'
    <2>1. \A x, y : {x, y} # {"active"} <=> ~ (x = "active" /\ y = "active") OBVIOUS
    <2> SUFFICES ASSUME NEW k \in Links, NEW l \in Links, k # l, link'[k] # None, link'[l] # None,
                        {link'[k].status, link'[l].status} = {"active"},
                        {link'[k].a, link'[k].b} = {link'[l].a, link'[l].b}
                 PROVE  {link'[k].a, link'[k].b} \in doubled'
      BY DEF LinkedOnce
    <2>2. Active(k)' /\ Active(l)' BY <2>1 DEF Active
    <2> QED BY <1>2, <2>2
  <1> QED BY <1>1, <1>3

(* A membership that changes under a request that has counted is marked.   *)
LEMMA WatchersKnow ==
  ASSUME Counted, JobsOK, Plainly, NEW t \in Tasks, Plain(task'[t]), NEW h,
         crossed' = IF Watched(t, h) THEN crossed \cup {h} ELSE crossed,
         \A u \in Users : \A g : g # h /\ <<u, g>> \in members => <<u, g>> \in members'
  PROVE  Counted'
  <1>1. ASSUME NEW s \in Tasks, task'[s].pc \in {"remove_row", "delete_row"}, task[s].home = h
        PROVE  h \in crossed'
    <2>1. task'[s] = task[s] /\ s # t BY <1>1 DEF Plainly, Plain
    <2>2. Watched(t, h) BY <1>1, <2>1 DEF Watched, JobsOK, Knows
    <2> QED BY <2>2
  <1> QED BY <1>1, CountsStand

-----------------------------------------------------------------------------
(* Steps that change accounts, sessions and invitations only.              *)

LEMMA Rewrites ==
  ASSUME IInv, Plainly, UNCHANGED <<home, born, members, link, crossed, doubled>>,
         UsersOK', SessOK', InvitesOK', \A u \in Users : Exists(u) => Exists(u)',
         magic' \in [Addresses -> 0..MagicLinksPerHour], cached' \subseteq Users
  PROVE  IInv'
  <1>1. HomesOK' BY DEF IInv, HomesOK
  <1>2. MembersOK' /\ LinksOK' BY RowsStand
  <1>3. JobsOK' BY JobsKnown DEF IInv
  <1>4. Counted' /\ HouseholdsHaveMembers' BY MembersStand DEF IInv
  <1>5. Accepting' /\ LinkedOnce' BY LinksStand DEF IInv
  <1> QED BY <1>1, <1>2, <1>3, <1>4, <1>5 DEF IInv

LEMMA Carries ==
  ASSUME IInv, NEW t \in Tasks, NEW r, Goto(t, r), Plain(r), UNCHANGED <<tables, history>>
  PROVE  IInv'
  <1>1. Plainly BY GoesPlainly DEF IInv
  <1>2. UNCHANGED <<user, sess, home, born, members, link, invite, magic, cached, history>>
    BY DEF tables
  <1> QED BY <1>1, <1>2, Reads DEF IInv

LEMMA Ends ==
  ASSUME IInv, NEW t \in Tasks, Done(t), UNCHANGED <<tables, history>>
  PROVE  IInv'
  <1>1. Plain(Idle) BY DEF Plain, Knows, Idle
  <1> QED BY <1>1, Carries DEF Done

LEMMA NextHouseholdPlain ==
  ASSUME NEW u, NEW hs \in SUBSET Homes
  PROVE  LET r == NextHousehold(u, hs)
         IN  /\ Plain(r) /\ r.pc \in {"delete_count", "delete_user"}
             /\ r.pc = "delete_count" => r.homes # {} /\ r.homes \subseteq Homes
  <1>1. CASE hs = {}
    <2>1. NextHousehold(u, hs) = [pc |-> "delete_user", user |-> u] BY <1>1 DEF NextHousehold
    <2> QED BY <2>1 DEF Plain, Knows
  <1>2. CASE hs # {}
    <2>1. NextHousehold(u, hs) = [pc |-> "delete_count", user |-> u, homes |-> hs]
      BY <1>2 DEF NextHousehold
    <2> QED BY <1>2, <2>1 DEF Plain, Knows
  <1> QED BY <1>1, <1>2

LEMMA HomesOfTypes ==
  ASSUME IInv, NEW u
  PROVE  HomesOf(u) \subseteq Homes
  <1>1. home \subseteq Homes BY InHomes DEF IInv
  <1> QED BY <1>1 DEF HomesOf

LEMMA SignInMoves ==
  ASSUME IInv, NEW t \in Tasks, GetUserByEmail(t) \/ CreateUser(t) \/ CreateSession(t)
  PROVE  IInv'
  <1>1. CASE GetUserByEmail(t)
    <2>1. UNCHANGED <<tables, history>> BY <1>1 DEF GetUserByEmail
    <2>2. task[t].addr \in Addresses BY <1>1 DEF GetUserByEmail, IInv, JobsOK, Knows
    <2> DEFINE s == [pc |-> "session", user |-> CHOOSE u \in UserOf(task[t].addr) : TRUE]
               n == [pc |-> "create_user", addr |-> task[t].addr]
    <2>3. Plain(s) /\ Plain(n) BY <2>2 DEF Plain, Knows
    <2>4. Goto(t, s) \/ Goto(t, n) BY <1>1 DEF GetUserByEmail
    <2> HIDE DEF s, n
    <2> QED BY <2>1, <2>3, <2>4, Carries
  <1>2. CASE CreateUser(t)
    <2>1. /\ UNCHANGED <<sess, magic, home, born, members, link, invite, cached, crossed, doubled>>
          /\ task[t].addr \in Addresses
      BY <1>2 DEF CreateUser, history, IInv, JobsOK, Knows
    <2>2. CASE UNCHANGED <<user, made>> /\ Done(t)
      BY <2>1, <2>2, Ends DEF tables, history
    <2>3. CASE /\ UserOf(task[t].addr) = {} /\ Goto(t, [pc |-> "session", user |-> made + 1])
               /\ user' = [user EXCEPT ![made + 1] = [addr |-> task[t].addr, enabled |-> TRUE]]
      <3> DEFINE n == [addr |-> task[t].addr, enabled |-> TRUE]
                 k == made + 1
      <3>1. n \in UserRow /\ n.addr = task[t].addr BY <2>1 DEF UserRow
      <3>2. user' = [user EXCEPT ![k] = n] BY <2>3
      <3> HIDE DEF n, k
      <3>3. /\ user' \in [Users -> UserRow \cup {None}]
            /\ \A u \in Users : user'[u] = user[u] \/ (u = k /\ user'[u] = n)
            /\ n # None
        <4>1. user \in [Users -> UserRow \cup {None}] BY DEF IInv, UsersOK
        <4> QED BY <3>1, <3>2, <4>1, NoneIsNoRow
      <3>4. \A u \in Users : Exists(u) => Exists(u)' BY <3>1, <3>3 DEF Exists
      <3>5. \A u \in Users : Exists(u) => user[u].addr # task[t].addr BY <2>3 DEF UserOf
      <3>6. UsersOK'
        <4>1. ASSUME NEW u \in Users, NEW v \in Users, user'[u] # None, user'[v] # None,
                     user'[u].addr = user'[v].addr
              PROVE  u = v
          BY <3>1, <3>3, <3>5, <4>1 DEF IInv, UsersOK, Exists
        <4> QED BY <3>3, <4>1 DEF UsersOK, Exists
      <3>7. Plain([pc |-> "session", user |-> made + 1]) BY DEF Plain, Knows
      <3>8. Plainly BY <2>3, <3>7, GoesPlainly DEF IInv
      <3>9. SessOK' /\ InvitesOK' BY <2>1, <3>4, RowsStand
      <3> QED BY <2>1, <3>4, <3>6, <3>8, <3>9, Rewrites DEF IInv
    <2> QED BY <1>2, <2>2, <2>3 DEF CreateUser
  <1>3. CASE CreateSession(t)
    <2>1. /\ UNCHANGED <<user, magic, home, born, members, link, invite, cached, crossed, doubled>>
          /\ Done(t)
      BY <1>3 DEF CreateSession, history
    <2>2. SessOK'
      <3>1. [home |-> None] \in [home : home \cup {None}] OBVIOUS
      <3>2. sess \in [Users -> [home : home \cup {None}] \cup {None}] BY DEF IInv, SessOK
      <3>3. sess' = sess \/ /\ sess' = [sess EXCEPT ![task[t].user] = [home |-> None]]
                            /\ Exists(task[t].user)
        BY <1>3 DEF CreateSession
      <3>4. sess' \in [Users -> [home : home \cup {None}] \cup {None}] BY <3>1, <3>2, <3>3
      <3>5. \A u \in Users : sess'[u] = sess[u] \/ Exists(u) BY <3>2, <3>3
      <3> QED BY <2>1, <3>4, <3>5 DEF IInv, SessOK, Exists
    <2>3. Plainly BY <2>1, Finishes DEF IInv
    <2>4. UsersOK' /\ \A u \in Users : Exists(u) => Exists(u)' BY <2>1 DEF IInv, UsersOK, Exists
    <2>5. InvitesOK' BY <2>1, <2>4, RowsStand
    <2> QED BY <2>1, <2>2, <2>3, <2>4, <2>5, Rewrites DEF IInv
  <1> QED BY <1>1, <1>2, <1>3

LEMMA UserMoves ==
  ASSUME IInv, NEW u \in Users,
         DeleteSession(u) \/ SetDisabled(u, TRUE) \/ SetDisabled(u, FALSE)
  PROVE  IInv'
  <1>1. sess \in [Users -> [home : home \cup {None}] \cup {None}] BY DEF IInv, SessOK
  <1>2. CASE DeleteSession(u)
    <2>1. /\ UNCHANGED <<user, magic, home, born, members, link, invite, cached, crossed, doubled, task>>
          /\ sess' = [sess EXCEPT ![u] = None]
      BY <1>2 DEF DeleteSession, history
    <2>2. SessOK' BY <1>1, <2>1 DEF IInv, SessOK, Exists
    <2>3. UsersOK' /\ \A v \in Users : Exists(v) => Exists(v)' BY <2>1 DEF IInv, UsersOK, Exists
    <2>4. InvitesOK' BY <2>1, <2>3, RowsStand
    <2>5. Plainly BY <2>1, StaysPlainly DEF IInv
    <2> QED BY <2>1, <2>2, <2>3, <2>4, <2>5, Rewrites DEF IInv
  <1>3. ASSUME NEW disabled \in BOOLEAN, SetDisabled(u, disabled) PROVE IInv'
    <2>1. /\ UNCHANGED <<magic, home, born, members, link, invite, cached, crossed, doubled, task>>
          /\ Exists(u) /\ user' = [user EXCEPT ![u].enabled = ~disabled]
          /\ sess' = [sess EXCEPT ![u] = None] \/ sess' = sess
      BY <1>3 DEF SetDisabled, history
    <2> DEFINE n == [user[u] EXCEPT !.enabled = ~disabled]
    <2>2. user \in [Users -> UserRow \cup {None}] BY DEF IInv, UsersOK
    <2>3. n \in UserRow /\ n.addr = user[u].addr BY <2>1, <2>2 DEF UserRow, Exists
    <2>4. user' = [user EXCEPT ![u] = n] BY <2>1
    <2> HIDE DEF n
    <2>5. /\ user' \in [Users -> UserRow \cup {None}] /\ n # None
          /\ \A v \in Users : (v # u => user'[v] = user[v]) /\ user'[u] = n
      BY <2>2, <2>3, <2>4, NoneIsNoRow
    <2>6. \A v \in Users : (Exists(v)' <=> Exists(v)) /\ (Exists(v) => user'[v].addr = user[v].addr)
      BY <2>1, <2>3, <2>5 DEF Exists
    <2>7. UsersOK' BY <2>5, <2>6 DEF IInv, UsersOK
    <2>8. SessOK'
      <3>1. /\ sess' \in [Users -> [home : home \cup {None}] \cup {None}]
            /\ \A v \in Users : sess'[v] = sess[v] \/ sess'[v] = None
        BY <1>1, <2>1
      <3> QED BY <2>1, <2>6, <3>1 DEF IInv, SessOK
    <2>9. InvitesOK' BY <2>1, <2>6, RowsStand
    <2>10. Plainly BY <2>1, StaysPlainly DEF IInv
    <2> QED BY <2>1, <2>6, <2>7, <2>8, <2>9, <2>10, Rewrites DEF IInv
  <1> QED BY <1>2, <1>3

LEMMA InvitationMoves ==
  ASSUME IInv, (\E i \in Invites : InviteExpires(i))
               \/ \E t \in Tasks : CreateInvite(t) \/ CancelInvite(t)
  PROVE  IInv'
  <1> SUFFICES /\ InvitesOK' /\ Plainly
               /\ UNCHANGED <<user, sess, magic, home, born, members, link, cached, crossed, doubled>>
    <2>1. UsersOK' /\ SessOK' /\ \A v \in Users : Exists(v) => Exists(v)'
      BY DEF IInv, UsersOK, SessOK, Exists
    <2> QED BY <2>1, Rewrites DEF IInv
  <1>1. /\ invite \in [Invites -> InviteRow \cup {None}]
        /\ \A i \in Invites : invite[i] # None => invite[i].home \in home
                                /\ (invite[i].by # None => Exists(invite[i].by))
    BY DEF IInv, InvitesOK
  <1>2. ASSUME NEW i \in Invites, NEW n \in InviteRow, invite' = [invite EXCEPT ![i] = n],
               n.home \in home, n.by # None => Exists(n.by), UNCHANGED <<user, home>>
        PROVE  InvitesOK'
    <2>1. /\ invite' \in [Invites -> InviteRow \cup {None}]
          /\ \A k \in Invites : (k # i => invite'[k] = invite[k]) /\ invite'[i] = n
      BY <1>1, <1>2
    <2>2. \A v : Exists(v)' <=> Exists(v) BY <1>2 DEF Exists
    <2> QED BY <1>1, <1>2, <2>1, <2>2 DEF InvitesOK
  <1>3. ASSUME NEW i \in Invites, InviteExpires(i)
        PROVE  /\ InvitesOK' /\ Plainly
               /\ UNCHANGED <<user, sess, magic, home, born, members, link, cached, crossed, doubled>>
    <2> DEFINE n == [invite[i] EXCEPT !.fresh = FALSE]
    <2>1. invite[i] # None /\ invite' = [invite EXCEPT ![i] = n] BY <1>3 DEF InviteExpires
    <2>2. n \in InviteRow /\ n.home = invite[i].home /\ n.by = invite[i].by
      BY <1>1, <2>1 DEF InviteRow
    <2> HIDE DEF n
    <2>3. UNCHANGED <<user, sess, magic, home, born, members, link, cached, crossed, doubled, task>>
      BY <1>3 DEF InviteExpires, history
    <2>4. Plainly BY <2>3, StaysPlainly DEF IInv
    <2> QED BY <1>1, <1>2, <2>1, <2>2, <2>3, <2>4
  <1>4. ASSUME NEW t \in Tasks, CancelInvite(t)
        PROVE  /\ InvitesOK' /\ Plainly
               /\ UNCHANGED <<user, sess, magic, home, born, members, link, cached, crossed, doubled>>
    <2> DEFINE i == task[t].invite
               n == [invite[i] EXCEPT !.status = "cancelled"]
    <2>1. /\ UNCHANGED <<user, sess, magic, home, born, members, link, cached, crossed, doubled>>
          /\ Done(t)
      BY <1>4 DEF CancelInvite, history
    <2>2. Plainly BY <2>1, Finishes DEF IInv
    <2>3. invite' = invite \/ (invite[i] # None /\ invite' = [invite EXCEPT ![i] = n])
      BY <1>4 DEF CancelInvite
    <2> HIDE DEF i
    <2>4. CASE i \in Invites /\ invite[i] # None /\ invite' = [invite EXCEPT ![i] = n]
      <3>1. n \in InviteRow /\ n.home = invite[i].home /\ n.by = invite[i].by
        BY <1>1, <2>4 DEF InviteRow
      <3>2. invite' = [invite EXCEPT ![i] = n] BY <2>4
      <3> HIDE DEF n
      <3>3. InvitesOK' BY <1>1, <1>2, <2>1, <2>4, <3>1, <3>2
      <3> QED BY <2>1, <2>2, <3>3
    <2>5. CASE invite' = invite
      <3>1. InvitesOK' BY <2>1, <2>5 DEF IInv, InvitesOK, Exists
      <3> QED BY <2>1, <2>2, <3>1
    <2>6. CASE i \notin Invites /\ invite' = [invite EXCEPT ![i] = n]
      <3>1. invite' = invite BY <1>1, <2>6
      <3> QED BY <2>5, <3>1
    <2> QED BY <2>3, <2>4, <2>5, <2>6
  <1>5. ASSUME NEW t \in Tasks, CreateInvite(t)
        PROVE  /\ InvitesOK' /\ Plainly
               /\ UNCHANGED <<user, sess, magic, home, born, members, link, cached, crossed, doubled>>
    <2>1. /\ UNCHANGED <<user, sess, magic, home, born, members, link, cached, crossed, doubled>>
          /\ Done(t)
      BY <1>5 DEF CreateInvite, history
    <2>2. Plainly BY <2>1, Finishes DEF IInv
    <2> DEFINE free == {i \in Invites : invite[i] = None}
               n == [home |-> task[t].home, addr |-> task[t].addr, status |-> "pending",
                     fresh |-> TRUE, by |-> task[t].user]
    <2>3. invite' = invite \/ /\ invite' = [invite EXCEPT ![Min(free)] = n] /\ free # {}
                              /\ task[t].home \in home /\ Exists(task[t].user)
      BY <1>5 DEF CreateInvite
    <2>4. CASE invite' = invite
      <3>1. InvitesOK' BY <2>1, <2>4 DEF IInv, InvitesOK, Exists
      <3> QED BY <2>1, <2>2, <3>1
    <2>5. CASE /\ invite' = [invite EXCEPT ![Min(free)] = n] /\ free # {}
               /\ task[t].home \in home /\ Exists(task[t].user)
      <3>1. free \in SUBSET Nat BY DEF Invites
      <3>2. Min(free) \in free BY <2>5, <3>1, LeastExists
      <3>3. task[t].addr \in Addresses /\ task[t].user \in Users
        BY <1>5 DEF CreateInvite, IInv, JobsOK, Knows
      <3>4. task[t].home \in Homes BY <2>5, InHomes DEF IInv
      <3>5. n \in InviteRow /\ n.home = task[t].home /\ n.by = task[t].user
        BY <3>3, <3>4 DEF InviteRow
      <3> DEFINE k == Min(free)
      <3>6. k \in Invites /\ invite' = [invite EXCEPT ![k] = n] BY <2>5, <3>2
      <3> HIDE DEF n, k, free
      <3>7. InvitesOK' BY <1>2, <2>1, <2>5, <3>5, <3>6
      <3> QED BY <2>1, <2>2, <3>7
    <2> QED BY <2>3, <2>4, <2>5
  <1> QED BY <1>3, <1>4, <1>5

LEMMA SetActiveHouseholdMoves ==
  ASSUME IInv, NEW t \in Tasks, SetActiveHousehold(t)
  PROVE  IInv'
  <1>1. /\ UNCHANGED <<user, magic, home, born, members, link, invite, cached, crossed, doubled>>
        /\ Done(t)
    BY DEF SetActiveHousehold, history
  <1>2. sess \in [Users -> [home : home \cup {None}] \cup {None}] BY DEF IInv, SessOK
  <1>3. SessOK'
    <2> DEFINE u == task[t].user
               n == [sess[u] EXCEPT !.home = task[t].home]
    <2>1. \/ sess' = sess
          \/ sess' = [sess EXCEPT ![u] = n] /\ sess[u] # None /\ task[t].home \in home
      BY DEF SetActiveHousehold
    <2>2. u \in Users /\ sess[u] # None /\ task[t].home \in home
            => n \in [home : home \cup {None}]
      BY <1>2
    <2> HIDE DEF n, u
    <2>3. /\ sess' \in [Users -> [home : home \cup {None}] \cup {None}]
          /\ \A v \in Users : sess'[v] = sess[v] \/ (v = u /\ sess[v] # None)
      BY <1>2, <2>1, <2>2
    <2> QED BY <1>1, <2>3 DEF IInv, SessOK, Exists
  <1>4. UsersOK' /\ \A v \in Users : Exists(v) => Exists(v)' BY <1>1 DEF IInv, UsersOK, Exists
  <1>5. InvitesOK' BY <1>1, <1>4, RowsStand
  <1>6. Plainly BY <1>1, Finishes DEF IInv
  <1> QED BY <1>1, <1>3, <1>4, <1>5, <1>6, Rewrites DEF IInv

-----------------------------------------------------------------------------
(* Steps that change the links.                                            *)

(* One link that nobody is accepting gets a row that is not active, or     *)
(* whose households are those it had.                                      *)
LEMMA LinkRewritten ==
  ASSUME IInv, Plainly, NEW l \in Links, ~ LinkLocked(l), NEW n \in LinkRow,
         link' = [link EXCEPT ![l] = n], n.status # "active",
         n.a \in home, n.b \in home \cup {None}, n.by # None => Exists(n.by),
         UNCHANGED <<user, sess, home, born, members, invite, magic, cached, crossed, doubled>>
  PROVE  IInv'
  <1>1. link \in [Links -> LinkRow \cup {None}] BY DEF IInv, LinksOK
  <1>2. /\ link' \in [Links -> LinkRow \cup {None}]
        /\ \A k \in Links : (k # l => link'[k] = link[k]) /\ link'[l] = n
    BY <1>1
  <1>3. \A v \in Users : Exists(v)' <=> Exists(v) BY DEF Exists
  <1>4. LinksOK'
    <2>1. \A k \in Links : link'[k] # None /\ link'[k].by # None => link'[k].by \in Users
      BY <1>2 DEF LinkRow
    <2>2. n.by # None => n.by \in Users BY DEF LinkRow
    <2> QED BY <1>2, <1>3, <2>1, <2>2 DEF IInv, LinksOK
  <1>5. /\ \A k \in Links : LinkLocked(k) => link'[k] = link[k]
        /\ \A k \in Links :
             Active(k)' => Active(k) /\ link'[k].a = link[k].a /\ link'[k].b = link[k].b
    BY <1>2 DEF Active
  <1>6. Accepting' /\ LinkedOnce' BY <1>5, LinksMove DEF IInv
  <1>7. UsersOK' /\ HomesOK' BY DEF IInv, UsersOK, HomesOK, Exists
  <1>8. SessOK' /\ MembersOK' /\ InvitesOK' BY <1>3, RowsStand
  <1>9. JobsOK' BY JobsKnown DEF IInv
  <1>10. Counted' /\ HouseholdsHaveMembers' BY MembersStand DEF IInv
  <1> QED BY <1>4, <1>6, <1>7, <1>8, <1>9, <1>10 DEF IInv

LEMMA CreateLinkMoves ==
  ASSUME IInv, NEW t \in Tasks, CreateLink(t)
  PROVE  IInv'
  <1>1. /\ UNCHANGED <<user, sess, home, born, members, invite, magic, cached, crossed, doubled, made>>
        /\ Done(t)
    BY DEF CreateLink, history
  <1>2. Plainly BY <1>1, Finishes DEF IInv
  <1> DEFINE free == {l \in Links : link[l] = None}
             n == [a |-> task[t].home, b |-> None, status |-> "pending", by |-> task[t].user]
  <1>3. link' = link \/ /\ link' = [link EXCEPT ![Min(free)] = n] /\ free # {}
                        /\ task[t].home \in home /\ Exists(task[t].user)
    BY DEF CreateLink
  <1>4. CASE link' = link
    <2>1. UNCHANGED <<tables, history>> BY <1>1, <1>4 DEF tables, history
    <2> QED BY <1>1, <2>1, Ends
  <1>5. CASE /\ link' = [link EXCEPT ![Min(free)] = n] /\ free # {}
             /\ task[t].home \in home /\ Exists(task[t].user)
    <2>1. free \in SUBSET Nat BY DEF Links
    <2>2. Min(free) \in free BY <1>5, <2>1, LeastExists
    <2>3. task[t].user \in Users BY DEF CreateLink, IInv, JobsOK, Knows
    <2>4. task[t].home \in Homes BY <1>5, InHomes DEF IInv
    <2>5. /\ n \in LinkRow /\ n.a = task[t].home /\ n.b = None /\ n.status = "pending"
          /\ n.by = task[t].user
      BY <2>3, <2>4 DEF LinkRow
    <2> DEFINE k == Min(free)
    <2>6. k \in Links /\ link[k] = None /\ link' = [link EXCEPT ![k] = n] BY <1>5, <2>2
    <2>7. ~ LinkLocked(k) BY <2>6 DEF LinkLocked, IInv, Accepting, Accepts
    <2> HIDE DEF n, k, free
    <2> QED BY <1>1, <1>2, <1>5, <2>5, <2>6, <2>7, LinkRewritten
  <1> QED BY <1>3, <1>4, <1>5

LEMMA RevokeLinkMoves ==
  ASSUME IInv, NEW t \in Tasks, RevokeLink(t)
  PROVE  IInv'
  <1>1. /\ UNCHANGED <<user, sess, home, born, members, invite, magic, cached, crossed, doubled, made>>
        /\ Done(t)
    BY DEF RevokeLink, history
  <1>2. Plainly BY <1>1, Finishes DEF IInv
  <1> DEFINE l == task[t].link
             n == [link[l] EXCEPT !.status = "revoked"]
  <1>3. ~ LinkLocked(l) /\ (link' = link \/ (link[l] # None /\ link' = [link EXCEPT ![l] = n]))
    BY DEF RevokeLink
  <1>4. link \in [Links -> LinkRow \cup {None}] BY DEF IInv, LinksOK
  <1>5. CASE link' = link
    <2>1. UNCHANGED <<tables, history>> BY <1>1, <1>5 DEF tables, history
    <2> QED BY <1>1, <2>1, Ends
  <1>6. CASE l \in Links /\ link[l] # None /\ link' = [link EXCEPT ![l] = n]
    <2>1. /\ n \in LinkRow /\ n.status = "revoked"
          /\ n.a = link[l].a /\ n.b = link[l].b /\ n.by = link[l].by
      BY <1>4, <1>6 DEF LinkRow
    <2>2. /\ link[l].a \in home /\ link[l].b \in home \cup {None}
          /\ link[l].by # None => Exists(link[l].by)
      BY <1>6 DEF IInv, LinksOK
    <2>3. link' = [link EXCEPT ![l] = n] BY <1>6
    <2> HIDE DEF n, l
    <2> QED BY <1>1, <1>2, <1>3, <1>6, <2>1, <2>2, <2>3, LinkRewritten
  <1>7. CASE l \notin Links /\ link' = [link EXCEPT ![l] = n]
    <2>1. link' = link BY <1>4, <1>7
    <2> QED BY <1>5, <2>1
  <1> QED BY <1>3, <1>5, <1>6, <1>7

(* The check before an acceptance holds the row and finds no link between  *)
(* the two households.                                                     *)
LEMMA AcceptCheckMoves ==
  ASSUME IInv, NEW t \in Tasks, AcceptCheck(t)
  PROVE  IInv'
  <1>1. UNCHANGED <<tables, history>> /\ ~ LinkLocked(task[t].link) BY DEF AcceptCheck
  <1>2. CASE Done(t) BY <1>1, <1>2, Ends
  <1>3. CASE /\ Goto(t, [task[t] EXCEPT !.pc = "accept_commit"]) /\ ReadableLink(task[t].link)
             /\ link[task[t].link].status = "pending"
             /\ ~ AreLinked(link[task[t].link].a, task[t].home)
    <2> DEFINE r == [task[t] EXCEPT !.pc = "accept_commit"]
    <2>1. /\ UNCHANGED <<user, sess, home, born, members, link, invite, magic, cached>>
          /\ UNCHANGED <<crossed, doubled>>
      BY <1>1 DEF tables, history
    <2>2. task[t].link \in Links /\ task[t].pc = "accept"
      BY DEF AcceptCheck, IInv, JobsOK, Knows
    <2>3. task'[t].pc = "accept_commit" /\ task'[t].link = task[t].link /\ task'[t].home = task[t].home
      <3>1. task'[t] = r BY <1>3, GoesTo DEF IInv
      <3>2. task[t] = [pc |-> "accept", link |-> task[t].link, home |-> task[t].home]
        BY <2>2 DEF IInv, JobsOK, Knows
      <3>3. r = [pc |-> "accept_commit", link |-> task[t].link, home |-> task[t].home] BY <3>2
      <3> QED BY <3>1, <3>3
    <2>4. /\ task' = [s \in Tasks |-> task'[s]] /\ \A s \in Tasks : s # t => task'[s] = task[s]
      BY <1>3, GoesTo DEF IInv
    <2>5. UsersOK' /\ HomesOK' BY <2>1 DEF IInv, UsersOK, HomesOK, Exists
    <2>6. \A v \in Users : Exists(v) => Exists(v)' BY <2>1 DEF Exists
    <2>7. SessOK' /\ MembersOK' /\ LinksOK' /\ InvitesOK' BY <2>1, <2>6, RowsStand
    <2>8. JobsOK' BY <2>3, <2>4 DEF IInv, JobsOK, Knows
    <2>9. Counted' BY <2>1, <2>3, <2>4 DEF IInv, Counted, Shared
    <2>10. HouseholdsHaveMembers' /\ LinkedOnce'
      BY <2>1 DEF IInv, HouseholdsHaveMembers, LinkedOnce, MembersOf
    <2>11. Accepting'
      <3>1. ASSUME NEW s \in Tasks PROVE Accepts(task[s])'
        <4>1. CASE s # t
          <5>1. Accepts(task[s]) /\ task'[s] = task[s] BY <2>4, <4>1 DEF IInv, Accepting
          <5> QED BY <2>1, <5>1 DEF Accepts, Joins, Active
        <4>2. CASE s = t
          <5>1. \A k \in Links : ~ Joins(k, {link[task[t].link].a, task[t].home})
            BY <1>3 DEF AreLinked, Joins, Active
          <5>2. link[task[t].link] # None BY <1>3 DEF ReadableLink
          <5> QED BY <1>3, <2>1, <2>2, <2>3, <4>2, <5>1, <5>2 DEF Accepts, Joins, Active
        <4> QED BY <4>1, <4>2
      <3>2. ASSUME NEW s \in Tasks, s # t, task'[s].pc = "accept_commit"
            PROVE  task'[s].link # task'[t].link
        BY <1>1, <2>3, <2>4, <3>2 DEF LinkLocked
      <3>3. ASSUME NEW s \in Tasks, NEW u \in Tasks, s # u,
                   task'[s].pc = "accept_commit", task'[u].pc = "accept_commit"
            PROVE  task'[s].link # task'[u].link
        <4>1. CASE s # t /\ u # t BY <2>4, <3>3, <4>1 DEF IInv, Accepting
        <4> QED BY <3>2, <3>3, <4>1
      <3> QED BY <3>1, <3>3 DEF Accepting
    <2> QED BY <2>1, <2>5, <2>7, <2>8, <2>9, <2>10, <2>11 DEF IInv
  <1> QED BY <1>2, <1>3 DEF AcceptCheck

(* The code becomes a link: nobody else has the row, nothing else links    *)
(* the two households, and an acceptance of theirs at the same time is     *)
(* remembered.                                                             *)
LEMMA AcceptInviteMoves ==
  ASSUME IInv, NEW t \in Tasks, AcceptInvite(t)
  PROVE  IInv'
  <1> DEFINE l == task[t].link
             h == task[t].home
             pair == {link[l].a, h}
             n == [link[l] EXCEPT !.b = h, !.status = "active"]
             both == \E u \in Tasks \ {t} : /\ task[u].pc = "accept_commit"
                                            /\ {link[task[u].link].a, task[u].home} = pair
  <1>1. /\ UNCHANGED <<made, user, sess, magic, home, born, members, invite, cached, crossed>>
        /\ Done(t) /\ task[t].pc = "accept_commit"
    BY DEF AcceptInvite
  <1>2. Plainly BY <1>1, Finishes DEF IInv
  <1>3. \/ /\ link' = [link EXCEPT ![l] = n] /\ h \in home
           /\ doubled' = IF both THEN doubled \cup {pair} ELSE doubled
        \/ UNCHANGED <<link, doubled>>
    BY DEF AcceptInvite
  <1>4. CASE UNCHANGED <<link, doubled>>
    <2>1. UNCHANGED <<tables, history>> BY <1>1, <1>4 DEF tables, history
    <2> QED BY <1>1, <2>1, Ends
  <1>5. CASE /\ link' = [link EXCEPT ![l] = n] /\ h \in home
             /\ doubled' = IF both THEN doubled \cup {pair} ELSE doubled
    <2>1. /\ l \in Links /\ link[l] # None /\ link[l].status = "pending"
          /\ \A k \in Links : Joins(k, pair) => pair \in doubled
      BY <1>1 DEF IInv, Accepting, Accepts
    <2>2. /\ link \in [Links -> LinkRow \cup {None}] /\ h \in Homes
          /\ link[l].a \in home /\ (link[l].by # None => Exists(link[l].by))
      BY <1>5, <2>1, InHomes DEF IInv, LinksOK
    <2>3. /\ n \in LinkRow /\ n.a = link[l].a /\ n.b = h /\ n.status = "active"
          /\ n.by = link[l].by
      BY <2>1, <2>2 DEF LinkRow
    <2> HIDE DEF n
    <2>4. /\ link' \in [Links -> LinkRow \cup {None}]
          /\ \A k \in Links : (k # l => link'[k] = link[k]) /\ link'[l] = n
      BY <1>5, <2>1, <2>2, <2>3
    <2>5. \A v : Exists(v)' <=> Exists(v) BY <1>1 DEF Exists
    <2>6. LinksOK'
      <3>1. UNCHANGED home BY <1>1
      <3> QED BY <1>5, <2>2, <2>3, <2>4, <2>5, <3>1 DEF IInv, LinksOK
    <2>7. UsersOK' /\ HomesOK' BY <1>1 DEF IInv, UsersOK, HomesOK, Exists
    <2>8. SessOK' /\ MembersOK' /\ InvitesOK' BY <1>1, <2>5, RowsStand
    <2>9. JobsOK' BY <1>2, JobsKnown DEF IInv
    <2>10. Counted' /\ HouseholdsHaveMembers' BY <1>1, <1>2, MembersStand DEF IInv
    <2>11. doubled \subseteq doubled' /\ (both => pair \in doubled') BY <1>5
    <2> DEFINE NewPair(k) == {link'[k].a, link'[k].b}
    <2>12. \A k \in Links \ {l} : (Active(k)' <=> Active(k)) /\ NewPair(k) = {link[k].a, link[k].b}
      BY <2>4 DEF Active
    <2>13. NewPair(l) = pair BY <2>1, <2>3, <2>4
    <2>14. Accepting'
      <3>1. ASSUME NEW s \in Tasks, task'[s].pc = "accept_commit"
            PROVE  s # t /\ task'[s] = task[s]
        <4>1. task'[t] = Idle BY <1>1, GoesTo DEF IInv, Done
        <4> QED BY <1>2, <3>1, <4>1 DEF Plainly, Plain, Idle
      <3>2. ASSUME NEW s \in Tasks PROVE Accepts(task[s])'
        <4> SUFFICES ASSUME task'[s].pc = "accept_commit" PROVE Accepts(task[s])'
          BY DEF Accepts
        <4>1. PICK m, q : m = task[s].link /\ q = {link[m].a, task[s].home} OBVIOUS
        <4>2. s # t /\ task'[s] = task[s] BY <3>1
        <4>3. /\ m \in Links /\ link[m] # None /\ link[m].status = "pending"
              /\ \A k \in Links : Joins(k, q) => q \in doubled
          BY <4>1, <4>2 DEF IInv, Accepting, Accepts
        <4>4. m # l BY <1>1, <4>1, <4>2 DEF IInv, Accepting
        <4>5. link'[m] = link[m] BY <2>4, <4>3, <4>4
        <4>6. ASSUME NEW k \in Links, Joins(k, q)' PROVE q \in doubled'
          <5>1. CASE k # l
            <6>1. Joins(k, q) BY <2>12, <4>6, <5>1 DEF Joins
            <6> QED BY <2>11, <4>3, <6>1
          <5>2. CASE k = l
            <6>1. q = pair BY <2>13, <4>6, <5>2 DEF Joins
            <6>2. both BY <4>1, <4>2, <6>1
            <6> QED BY <2>11, <6>1, <6>2
          <5> QED BY <5>1, <5>2
        <4>7. task'[s].link = m /\ {link'[m].a, task'[s].home} = q BY <4>1, <4>2, <4>5
        <4> QED BY <4>3, <4>5, <4>6, <4>7 DEF Accepts
      <3>3. ASSUME NEW r \in Tasks, NEW s \in Tasks, r # s,
                   task'[r].pc = "accept_commit", task'[s].pc = "accept_commit"
            PROVE  task'[r].link # task'[s].link
        <4>1. task'[r] = task[r] /\ task'[s] = task[s] BY <3>1, <3>3
        <4> QED BY <3>3, <4>1 DEF IInv, Accepting
      <3> QED BY <3>2, <3>3 DEF Accepting
    <2>15. LinkedOnce'
      <3>1. ASSUME NEW k \in Links, Active(k), k # l, NewPair(k) = pair PROVE pair \in doubled'
        BY <2>1, <2>11, <2>12, <3>1 DEF Joins
      <3>2. ASSUME NEW k \in Links, NEW m \in Links, k # m, Active(k)', Active(m)',
                   NewPair(k) = NewPair(m)
            PROVE  NewPair(k) \in doubled'
        <4>1. CASE k = l
          <5>1. NewPair(k) = pair /\ NewPair(m) = pair BY <2>13, <3>2, <4>1
          <5>2. Active(m) BY <2>12, <3>2, <4>1
          <5> QED BY <3>1, <3>2, <4>1, <5>1, <5>2
        <4>2. CASE m = l
          <5>1. NewPair(k) = pair BY <2>13, <3>2, <4>2
          <5>2. Active(k) BY <2>12, <3>2, <4>2
          <5> QED BY <3>1, <3>2, <4>2, <5>1, <5>2
        <4>3. CASE k # l /\ m # l
          <5>1. /\ Active(k) /\ Active(m)
                /\ {link[k].a, link[k].b} = {link[m].a, link[m].b}
            BY <2>12, <3>2, <4>3
          <5>2. {link[k].a, link[k].b} \in doubled BY <3>2, <5>1, OnceByActive DEF IInv
          <5> QED BY <2>11, <2>12, <4>3, <5>2
        <4> QED BY <4>1, <4>2, <4>3
      <3> SUFFICES ASSUME NEW k \in Links, NEW m \in Links, k # m, link'[k] # None, link'[m] # None,
                          {link'[k].status, link'[m].status} = {"active"},
                          NewPair(k) = NewPair(m)
                   PROVE  NewPair(k) \in doubled'
        BY DEF LinkedOnce
      <3>3. \A x, y : {x, y} = {"active"} => x = "active" /\ y = "active" OBVIOUS
      <3>4. Active(k)' /\ Active(m)' BY <3>3 DEF Active
      <3> QED BY <3>2, <3>4
    <2> QED BY <1>1, <2>6, <2>7, <2>8, <2>9, <2>10, <2>14, <2>15 DEF IInv
  <1> QED BY <1>3, <1>4, <1>5

-----------------------------------------------------------------------------
(* Steps that change households and their members.                         *)

LEMMA CreateMoves ==
  ASSUME IInv, NEW t \in Tasks, Create(t)
  PROVE  IInv'
  <1> DEFINE u == task[t].user
             h == born + 1
             r == [pc |-> "mark", user |-> u, then |-> Idle]
  <1>1. /\ UNCHANGED <<made, user, sess, magic, link, invite, cached, crossed, doubled>>
        /\ u \in Users
    BY DEF Create, history, IInv, JobsOK, Knows
  <1>2. CASE Done(t) /\ UNCHANGED <<home, born, members>>
    <2>1. UNCHANGED <<tables, history>> BY <1>1, <1>2 DEF tables, history
    <2> QED BY <1>2, <2>1, Ends
  <1>3. CASE /\ Exists(u) /\ born # MaxHomes /\ home' = home \cup {h} /\ born' = h
             /\ members' = members \cup {<<u, h>>} /\ Goto(t, r)
    <2>1. Plain(r) BY <1>1 DEF Plain, Knows, Idle
    <2>2. Plainly BY <1>3, <2>1, GoesPlainly DEF IInv
    <2>3. h \in Homes /\ HomesOK' BY <1>3, InHomes DEF IInv, HomesOK
    <2>4. UsersOK' /\ \A v \in Users : Exists(v) => Exists(v)' BY <1>1 DEF IInv, UsersOK, Exists
    <2>5. SessOK'
      <3>1. \A v \in Users : sess[v] \in [home : home' \cup {None}] \cup {None}
        BY <1>3 DEF IInv, SessOK
      <3> QED BY <1>1, <3>1 DEF IInv, SessOK, Exists
    <2>6. LinksOK' /\ InvitesOK' BY <1>1, <1>3, <2>4, RowsStand
    <2>7. MembersOK' BY <1>1, <1>3 DEF IInv, MembersOK, Exists
    <2>8. Counted' BY <1>1, <1>3, <2>2, CountsStand DEF IInv
    <2>9. HouseholdsHaveMembers' BY <1>1, <1>3 DEF IInv, HouseholdsHaveMembers, MembersOf
    <2>10. Accepting' /\ LinkedOnce' BY <1>1, <2>2, LinksStand DEF IInv
    <2>11. JobsOK' BY <2>2, JobsKnown DEF IInv
    <2> QED BY <1>1, <2>3, <2>4, <2>5, <2>6, <2>7, <2>8, <2>9, <2>10, <2>11 DEF IInv
  <1> QED BY <1>2, <1>3 DEF Create

(* One membership goes: the household has another member, or its           *)
(* membership has changed since it was counted.                            *)
LEMMA RemoveRowMoves ==
  ASSUME IInv, NEW t \in Tasks, task[t].pc \in {"remove_row", "delete_row"},
         NEW u, NEW then, Plain(then),
         then.pc \in {"idle", "delete_count", "delete_user"},
         then.pc = "delete_count" => then.homes # {} /\ then.homes \subseteq Homes,
         RemoveRow(t, u, task[t].home, then)
  PROVE  IInv'
  <1> DEFINE h == task[t].home
             r == [pc |-> "forget", gone |-> {u}, then |-> then]
  <1>1. UNCHANGED <<made, user, sess, magic, home, born, link, invite, cached, doubled>>
    BY DEF RemoveRow
  <1>2. CASE Goto(t, then) /\ UNCHANGED <<members, crossed>>
    <2>1. UNCHANGED <<tables, history>> BY <1>1, <1>2 DEF tables, history
    <2> QED BY <1>2, <2>1, Carries
  <1>3. CASE /\ members' = members \ {<<u, h>>} /\ Goto(t, r)
             /\ crossed' = IF Watched(t, h) THEN crossed \cup {h} ELSE crossed
    <2>1. Plain(r) BY DEF Plain, Knows
    <2>2. Plainly BY <1>3, <2>1, GoesPlainly DEF IInv
    <2>3. Plain(task'[t]) BY <1>3, <2>1, GoesTo DEF IInv
    <2>4. Counted' BY <1>3, <2>2, <2>3, WatchersKnow DEF IInv
    <2>5. HouseholdsHaveMembers'
      <3> SUFFICES ASSUME NEW g \in home, g \notin crossed' PROVE MembersOf(g)' # {}
        BY <1>1 DEF HouseholdsHaveMembers
      <3>1. g \notin crossed BY <1>3
      <3>2. CASE g = h
        <4>1. PICK v \in Users, w \in Users : v # w /\ <<v, h>> \in members /\ <<w, h>> \in members
          BY <3>1, <3>2 DEF IInv, Counted, Shared
        <4>2. <<v, h>> \in members' \/ <<w, h>> \in members' BY <1>3, <4>1
        <4> QED BY <3>2, <4>2 DEF MembersOf
      <3>3. CASE g # h
        <4>1. PICK v \in Users : <<v, g>> \in members
          BY <3>1 DEF IInv, HouseholdsHaveMembers, MembersOf
        <4>2. <<v, g>> \in members' BY <1>3, <3>3, <4>1
        <4> QED BY <4>2 DEF MembersOf
      <3> QED BY <3>2, <3>3
    <2>6. MembersOK' BY <1>1, <1>3 DEF IInv, MembersOK, Exists
    <2>7. UsersOK' /\ HomesOK' /\ \A v \in Users : Exists(v) => Exists(v)'
      BY <1>1 DEF IInv, UsersOK, HomesOK, Exists
    <2>8. SessOK' /\ LinksOK' /\ InvitesOK' BY <1>1, <2>7, RowsStand
    <2>9. Accepting' /\ LinkedOnce' BY <1>1, <2>2, LinksStand DEF IInv
    <2>10. JobsOK' BY <2>2, JobsKnown DEF IInv
    <2> QED BY <1>1, <2>4, <2>5, <2>6, <2>7, <2>8, <2>9, <2>10 DEF IInv
  <1> QED BY <1>2, <1>3 DEF RemoveRow

LEMMA RemovalMoves ==
  ASSUME IInv, NEW t \in Tasks, RemoveMember(t) \/ DeleteRow(t)
  PROVE  IInv'
  <1>1. CASE RemoveMember(t)
    <2>1. Plain(Idle) /\ Idle.pc = "idle" BY DEF Plain, Knows, Idle
    <2> QED BY <1>1, <2>1, RemoveRowMoves DEF RemoveMember
  <1>2. CASE DeleteRow(t)
    <2> DEFINE then == NextHousehold(task[t].user, task[t].homes \ {task[t].home})
    <2>1. task[t].homes \ {task[t].home} \in SUBSET Homes
      BY <1>2 DEF DeleteRow, IInv, JobsOK, Knows
    <2>2. /\ Plain(then) /\ then.pc \in {"delete_count", "delete_user"}
          /\ then.pc = "delete_count" => then.homes # {} /\ then.homes \subseteq Homes
      BY <2>1, NextHouseholdPlain
    <2>3. task[t].pc = "delete_row" /\ RemoveRow(t, task[t].user, task[t].home, then)
      BY <1>2 DEF DeleteRow
    <2> HIDE DEF then
    <2> QED BY <2>2, <2>3, RemoveRowMoves
  <1> QED BY <1>1, <1>2

(* A household goes with everything that refers to it.                     *)
LEMMA DeleteCommitMoves ==
  ASSUME IInv, NEW t \in Tasks, DeleteCommit(t)
  PROVE  IInv'
  <1> DEFINE h == task[t].home
             touches(l) == link[l] # None /\ h \in {link[l].a, link[l].b}
             then == NextHousehold(task[t].user, task[t].homes \ {h})
             r == [pc |-> "forget", gone |-> task[t].victims, then |-> then]
  <1>1. /\ UNCHANGED <<made, user, magic, born, cached, doubled>>
        /\ task[t].homes \subseteq Homes
    BY DEF DeleteCommit, IInv, JobsOK, Knows
  <1>2. CASE Done(t) /\ UNCHANGED <<home, members, link, invite, sess, crossed>>
    <2>1. UNCHANGED <<tables, history>> BY <1>1, <1>2 DEF tables, history
    <2> QED BY <1>2, <2>1, Ends
  <1>3. CASE /\ \A l \in Links : touches(l) => ~LinkLocked(l)
             /\ home' = home \ {h}
             /\ members' = {m \in members : m[2] # h}
             /\ link' = [l \in Links |-> IF touches(l) THEN None ELSE link[l]]
             /\ invite' = [i \in Invites |-> IF invite[i] # None /\ invite[i].home = h
                                               THEN None ELSE invite[i]]
             /\ sess' = [u \in Users |-> IF sess[u] # None /\ sess[u].home = h
                                           THEN [home |-> None] ELSE sess[u]]
             /\ crossed' = IF Watched(t, h) THEN crossed \cup {h} ELSE crossed
             /\ Goto(t, r)
    <2>1. task[t].homes \ {h} \in SUBSET Homes BY <1>1
    <2>2. /\ Plain(then) /\ then.pc \in {"delete_count", "delete_user"}
          /\ then.pc = "delete_count" => then.homes # {} /\ then.homes \subseteq Homes
      BY <2>1, NextHouseholdPlain
    <2>3. Plain(r)
      <3> HIDE DEF then
      <3> QED BY <2>2 DEF Plain, Knows
    <2>4. Plainly /\ Plain(task'[t]) BY <1>3, <2>3, GoesPlainly, GoesTo DEF IInv
    <2> HIDE DEF r, then
    <2>5. MembersOK' BY <1>1, <1>3 DEF IInv, MembersOK, Exists
    <2>6. \A u \in Users : \A g : g # h /\ <<u, g>> \in members => <<u, g>> \in members' BY <1>3
    <2>7. Counted' BY <1>3, <2>4, <2>6, WatchersKnow DEF IInv
    <2>8. HouseholdsHaveMembers'
      <3> SUFFICES ASSUME NEW g \in home', g \notin crossed' PROVE MembersOf(g)' # {}
        BY DEF HouseholdsHaveMembers
      <3>1. g \in home /\ g # h /\ g \notin crossed BY <1>3
      <3>2. PICK v \in Users : <<v, g>> \in members
        BY <3>1 DEF IInv, HouseholdsHaveMembers, MembersOf
      <3> QED BY <2>6, <3>1, <3>2 DEF MembersOf
    <2>9. UsersOK' /\ HomesOK' BY <1>1, <1>3 DEF IInv, UsersOK, HomesOK, Exists
    <2>10. SessOK'
      <3>1. \A u \in Users : /\ sess[u] \in [home : home \cup {None}] \cup {None}
                             /\ sess[u] # None => user[u] # None
        BY DEF IInv, SessOK, Exists
      <3>2. \A u \in Users : /\ sess'[u] \in [home : home' \cup {None}] \cup {None}
                             /\ sess'[u] # None => sess[u] # None
        BY <1>3, <3>1
      <3>3. sess' \in [Users -> [home : home' \cup {None}] \cup {None}] BY <1>3, <3>2
      <3> QED BY <1>1, <3>1, <3>2, <3>3 DEF SessOK, Exists
    <2>11. /\ link' \in [Links -> LinkRow \cup {None}]
           /\ \A l \in Links : /\ LinkLocked(l) => link'[l] = link[l]
                               /\ link'[l] # None => link'[l] = link[l] /\ ~ touches(l)
      BY <1>3 DEF IInv, LinksOK
    <2>12. LinksOK' BY <1>1, <1>3, <2>11 DEF IInv, LinksOK, Exists
    <2>13. InvitesOK'
      <3>1. /\ invite' \in [Invites -> InviteRow \cup {None}]
            /\ \A i \in Invites : invite'[i] # None => invite'[i] = invite[i] /\ invite[i].home # h
        BY <1>3 DEF IInv, InvitesOK
      <3> QED BY <1>1, <1>3, <3>1 DEF IInv, InvitesOK, Exists
    <2>14. \A l \in Links : Active(l)' =>
             Active(l) /\ link'[l].a = link[l].a /\ link'[l].b = link[l].b
      BY <2>11 DEF Active
    <2>15. Accepting' /\ LinkedOnce' BY <1>1, <2>4, <2>11, <2>14, LinksMove DEF IInv
    <2>16. JobsOK' BY <2>4, JobsKnown DEF IInv
    <2> QED BY <1>1, <2>5, <2>7, <2>8, <2>9, <2>10, <2>12, <2>13, <2>15, <2>16 DEF IInv
  <1> QED BY <1>2, <1>3 DEF DeleteCommit

(* An account goes: its sessions and memberships with it, and what it      *)
(* issued no longer says by whom.                                          *)
LEMMA DeleteUserMoves ==
  ASSUME IInv, NEW t \in Tasks, DeleteUser(t)
  PROVE  IInv'
  <1> DEFINE u == task[t].user
  <1>1. /\ UNCHANGED <<made, magic, home, born, cached, doubled>> /\ Done(t)
        /\ \A l \in Links : link[l] # None /\ link[l].by = u => ~LinkLocked(l)
        /\ user' = [user EXCEPT ![u] = None]
        /\ sess' = [sess EXCEPT ![u] = None]
        /\ members' = {m \in members : m[1] # u}
        /\ crossed' = crossed \cup HomesOf(u)
        /\ link' = [l \in Links |-> IF link[l] # None /\ link[l].by = u
                                      THEN [link[l] EXCEPT !.by = None] ELSE link[l]]
        /\ invite' = [i \in Invites |-> IF invite[i] # None /\ invite[i].by = u
                                          THEN [invite[i] EXCEPT !.by = None] ELSE invite[i]]
    BY DEF DeleteUser
  <1> HIDE DEF u
  <1>2. Plainly BY <1>1, Finishes DEF IInv
  <1>3. /\ user \in [Users -> UserRow \cup {None}]
        /\ sess \in [Users -> [home : home \cup {None}] \cup {None}]
        /\ link \in [Links -> LinkRow \cup {None}] /\ invite \in [Invites -> InviteRow \cup {None}]
    BY DEF IInv, UsersOK, SessOK, LinksOK, InvitesOK
  <1>4. /\ user' \in [Users -> UserRow \cup {None}]
        /\ \A v \in Users : v # u => user'[v] = user[v]
        /\ u \in Users => user'[u] = None
    BY <1>1, <1>3
  <1>5. UsersOK' /\ HomesOK' BY <1>1, <1>4 DEF IInv, UsersOK, HomesOK, Exists
  <1>6. SessOK'
    <2>1. /\ sess' \in [Users -> [home : home \cup {None}] \cup {None}]
          /\ \A v \in Users : v # u => sess'[v] = sess[v]
          /\ u \in Users => sess'[u] = None
      BY <1>1, <1>3
    <2> QED BY <1>1, <1>4, <2>1 DEF IInv, SessOK, Exists
  <1>7. MembersOK'
    <2>1. ASSUME NEW m \in members' PROVE m \in members /\ m[1] # u BY <1>1, <2>1
    <2>2. ASSUME NEW m \in members' PROVE m \in Users \X home /\ m[1] \in Users /\ user[m[1]] # None
      BY <2>1, <2>2 DEF IInv, MembersOK, Exists
    <2> QED BY <1>1, <1>4, <2>1, <2>2 DEF MembersOK, Exists
  <1>8. ASSUME NEW l \in Links, link'[l] # None
        PROVE  /\ link[l] # None /\ link'[l] \in LinkRow
               /\ link'[l].a = link[l].a /\ link'[l].b = link[l].b
               /\ link'[l].status = link[l].status
               /\ link'[l].by # None => link'[l].by = link[l].by /\ link'[l].by \in Users \ {u}
    <2> DEFINE n == [link[l] EXCEPT !.by = None]
    <2>1. link'[l] = IF link[l] # None /\ link[l].by = u THEN n ELSE link[l] BY <1>1
    <2>2. CASE link[l] # None /\ link[l].by = u
      <3>1. /\ n \in LinkRow /\ n.a = link[l].a /\ n.b = link[l].b /\ n.status = link[l].status
            /\ n.by = None
        BY <1>3, <2>2 DEF LinkRow
      <3> HIDE DEF n
      <3> QED BY <2>1, <2>2, <3>1
    <2>3. CASE ~ (link[l] # None /\ link[l].by = u)
      <3>1. link'[l] = link[l] /\ link[l] # None /\ link[l].by # u BY <1>8, <2>1, <2>3
      <3> QED BY <1>3, <3>1 DEF LinkRow
    <2> QED BY <2>2, <2>3
  <1>9. LinksOK'
    <2>1. link' \in [Links -> LinkRow \cup {None}]
      <3>1. link' = [l \in Links |-> link'[l]] BY <1>1
      <3> QED BY <1>8, <3>1
    <2>2. ASSUME NEW l \in Links, link'[l] # None
          PROVE  /\ link[l].a \in home /\ link[l].b \in home \cup {None}
                 /\ link[l].by # None => user[link[l].by] # None
      BY <1>8, <2>2 DEF IInv, LinksOK, Exists
    <2> QED BY <1>1, <1>4, <1>8, <2>1, <2>2 DEF LinksOK, Exists
  <1>10. InvitesOK'
    <2>1. ASSUME NEW i \in Invites, invite'[i] # None
          PROVE  /\ invite[i] # None /\ invite'[i] \in InviteRow
                 /\ invite'[i].home = invite[i].home
                 /\ invite'[i].by # None => invite'[i].by = invite[i].by /\ invite'[i].by \in Users \ {u}
      <3> DEFINE n == [invite[i] EXCEPT !.by = None]
      <3>1. invite'[i] = IF invite[i] # None /\ invite[i].by = u THEN n ELSE invite[i] BY <1>1
      <3>2. CASE invite[i] # None /\ invite[i].by = u
        <4>1. n \in InviteRow /\ n.home = invite[i].home /\ n.by = None
          BY <1>3, <3>2 DEF InviteRow
        <4> HIDE DEF n
        <4> QED BY <3>1, <3>2, <4>1
      <3>3. CASE ~ (invite[i] # None /\ invite[i].by = u)
        <4>1. invite'[i] = invite[i] /\ invite[i] # None /\ invite[i].by # u BY <2>1, <3>1, <3>3
        <4> QED BY <1>3, <4>1 DEF InviteRow
      <3> QED BY <3>2, <3>3
    <2>2. invite' \in [Invites -> InviteRow \cup {None}]
      <3>1. invite' = [i \in Invites |-> invite'[i]] BY <1>1
      <3> QED BY <2>1, <3>1
    <2>3. ASSUME NEW i \in Invites, invite'[i] # None
          PROVE  invite[i].home \in home /\ (invite[i].by # None => user[invite[i].by] # None)
      BY <2>1, <2>3 DEF IInv, InvitesOK, Exists
    <2> QED BY <1>1, <1>4, <2>1, <2>2, <2>3 DEF InvitesOK, Exists
  <1>11. ASSUME NEW g \in home, g \notin crossed', NEW v \in Users, <<v, g>> \in members
         PROVE  <<v, g>> \in members'
    <2>1. g \notin HomesOf(u) BY <1>1, <1>11
    <2>2. v # u BY <1>11, <2>1 DEF HomesOf
    <2> QED BY <1>1, <1>11, <2>2
  <1>12. Counted'
    <2>1. ASSUME NEW g, NEW v \in Users, <<v, g>> \in members PROVE g \in home
      BY <2>1 DEF IInv, MembersOK
    <2> QED BY <1>1, <1>2, <1>11, <2>1, CountsStand DEF IInv
  <1>13. HouseholdsHaveMembers'
    <2> SUFFICES ASSUME NEW g \in home, g \notin crossed' PROVE MembersOf(g)' # {}
      BY <1>1 DEF HouseholdsHaveMembers
    <2>1. PICK v \in Users : <<v, g>> \in members
      BY <1>1 DEF IInv, HouseholdsHaveMembers, MembersOf
    <2> QED BY <1>11, <2>1 DEF MembersOf
  <1>14. \A l \in Links : LinkLocked(l) => link'[l] = link[l] BY <1>1
  <1>15. \A l \in Links : Active(l)' =>
           Active(l) /\ link'[l].a = link[l].a /\ link'[l].b = link[l].b
    BY <1>8 DEF Active
  <1>16. Accepting' /\ LinkedOnce' BY <1>1, <1>2, <1>14, <1>15, LinksMove DEF IInv
  <1>17. JobsOK' BY <1>2, JobsKnown DEF IInv
  <1> QED BY <1>1, <1>5, <1>6, <1>7, <1>9, <1>10, <1>12, <1>13, <1>16, <1>17 DEF IInv

LEMMA RedeemInviteMoves ==
  ASSUME IInv, NEW t \in Tasks, RedeemInvite(t)
  PROVE  IInv'
  <1> DEFINE i == task[t].invite
             u == task[t].user
             h == invite[i].home
             n == [invite[i] EXCEPT !.status = "accepted"]
             r == [pc |-> "mark", user |-> u,
                   then |-> [pc |-> "activate", user |-> u, home |-> h]]
  <1>1. /\ UNCHANGED <<made, user, sess, magic, home, born, link, cached, doubled>>
        /\ u \in Users
    BY DEF RedeemInvite, IInv, JobsOK, Knows
  <1>a. i \in Invites BY DEF RedeemInvite, IInv, JobsOK, Knows
  <1>2. CASE Done(t) /\ UNCHANGED <<members, invite, crossed>>
    <2>1. UNCHANGED <<tables, history>> BY <1>1, <1>2 DEF tables, history
    <2> QED BY <1>2, <2>1, Ends
  <1>3. CASE /\ ReadableInvite(i) /\ Exists(u)
             /\ members' = members \cup {<<u, h>>}
             /\ crossed' = IF Watched(t, h) THEN crossed \cup {h} ELSE crossed
             /\ invite' = [invite EXCEPT ![i] = n] /\ Goto(t, r)
    <2>1. Plain(r) BY <1>1 DEF Plain, Knows
    <2>2. Plainly BY <1>3, <2>1, GoesPlainly DEF IInv
    <2>3. invite \in [Invites -> InviteRow \cup {None}] BY DEF IInv, InvitesOK
    <2>4. invite[i] # None BY <1>3 DEF ReadableInvite
    <2>5. UsersOK' /\ HomesOK' /\ \A v \in Users : Exists(v)' <=> Exists(v)
      BY <1>1 DEF IInv, UsersOK, HomesOK, Exists
    <2>6. SessOK' /\ LinksOK' BY <1>1, <2>5, RowsStand
    <2>7. Accepting' /\ LinkedOnce' BY <1>1, <2>2, LinksStand DEF IInv
    <2>8. JobsOK' BY <2>2, JobsKnown DEF IInv
    <2>9. crossed \subseteq crossed' /\ members \subseteq members' BY <1>3
    <2>10. Counted' BY <2>2, <2>9, CountsStand DEF IInv
    <2>11. HouseholdsHaveMembers' BY <1>1, <2>9 DEF IInv, HouseholdsHaveMembers, MembersOf
    <2>12. InvitesOK' /\ h \in home
      <3>1. /\ n \in InviteRow /\ n.home = h /\ n.by = invite[i].by /\ h \in home
            /\ n.by # None => n.by \in Users /\ Exists(n.by)
        BY <1>a, <2>3, <2>4 DEF InviteRow, IInv, InvitesOK
      <3> HIDE DEF n, h
      <3>2. /\ invite' \in [Invites -> InviteRow \cup {None}]
            /\ \A k \in Invites : (k # i => invite'[k] = invite[k]) /\ invite'[i] = n
        BY <1>3, <1>a, <2>3, <3>1
      <3>3. \A k \in Invites : invite[k] # None /\ invite[k].by # None => invite[k].by \in Users
        BY <2>3 DEF InviteRow
      <3> QED BY <1>1, <2>5, <3>1, <3>2, <3>3 DEF IInv, InvitesOK
    <2>13. MembersOK' BY <1>1, <1>3, <2>12 DEF IInv, MembersOK, Exists
    <2> QED BY <1>1, <2>5, <2>6, <2>7, <2>8, <2>10, <2>11, <2>12, <2>13 DEF IInv
  <1> QED BY <1>2, <1>3 DEF RedeemInvite

-----------------------------------------------------------------------------
(* Requests that begin, read or remember.                                  *)

\* What RequireAuth leaves alone.
LEMMA Authenticated ==
  ASSUME NEW t, NEW u, RequireAuth(t, u)
  PROVE  UNCHANGED <<tables, history>> /\ task[t] = Idle
  BY DEF RequireAuth

LEMMA RequestsBegin ==
  ASSUME IInv, NEW t \in Tasks, NEW u \in Users,
         \/ OnboardPost(t, u) \/ NeedsOnboarding(t, u)
         \/ AccountDeletePost(t, u) \/ LinksInvitePost(t, u)
         \/ \E v \in Users : MemberRemovePost(t, u, v)
         \/ \E h \in Homes : HouseholdSwitchPost(t, u, h)
         \/ \E a \in Addresses : HouseholdInvitePost(t, u, a)
         \/ \E i \in Invites : InviteCancelPost(t, u, i) \/ InviteAcceptPost(t, u, i)
         \/ \E l \in Links : LinksAcceptPost(t, u, l) \/ LinksRevokePost(t, u, l)
  PROVE  IInv'
  <1> SUFFICES \E r : Plain(r) /\ Goto(t, r) /\ UNCHANGED <<tables, history>>
    BY Carries
  <1>1. ASSUME NEW r, Plain(r), RequireAuth(t, u), Goto(t, r)
        PROVE  \E q : Plain(q) /\ Goto(t, q) /\ UNCHANGED <<tables, history>>
    BY <1>1, Authenticated
  <1> DEFINE onboard == [pc |-> "create", user |-> u]
             count   == [pc |-> "count", user |-> u]
             leave   == NextHousehold(u, HomesOf(u))
             code    == [pc |-> "link_row", user |-> u, home |-> ActiveHousehold(u)]
  <1>2. Plain(onboard) /\ Plain(count) /\ Plain(code) BY DEF Plain, Knows
  <1>3. Plain(leave) BY HomesOfTypes, NextHouseholdPlain
  <1>4. CASE OnboardPost(t, u)
    <2>1. RequireAuth(t, u) /\ Goto(t, onboard) BY <1>4 DEF OnboardPost
    <2> HIDE DEF onboard
    <2> QED BY <1>1, <1>2, <2>1
  <1>5. CASE NeedsOnboarding(t, u)
    <2>1. RequireAuth(t, u) /\ Goto(t, count) BY <1>5 DEF NeedsOnboarding
    <2> HIDE DEF count
    <2> QED BY <1>1, <1>2, <2>1
  <1>6. CASE AccountDeletePost(t, u)
    <2>1. RequireAuth(t, u) /\ Goto(t, leave) BY <1>6 DEF AccountDeletePost
    <2> HIDE DEF leave
    <2> QED BY <1>1, <1>3, <2>1
  <1>7. CASE LinksInvitePost(t, u)
    <2>1. RequireAuth(t, u) /\ Goto(t, code) BY <1>7 DEF LinksInvitePost
    <2> HIDE DEF code
    <2> QED BY <1>1, <1>2, <2>1
  <1>8. ASSUME NEW v \in Users, MemberRemovePost(t, u, v)
        PROVE  \E q : Plain(q) /\ Goto(t, q) /\ UNCHANGED <<tables, history>>
    <2> DEFINE r == [pc |-> "remove_count", target |-> v, home |-> ActiveHousehold(u)]
    <2>1. Plain(r) BY DEF Plain, Knows
    <2>2. RequireAuth(t, u) /\ Goto(t, r) BY <1>8 DEF MemberRemovePost
    <2> HIDE DEF r
    <2> QED BY <1>1, <2>1, <2>2
  <1>9. ASSUME NEW h \in Homes, HouseholdSwitchPost(t, u, h)
        PROVE  \E q : Plain(q) /\ Goto(t, q) /\ UNCHANGED <<tables, history>>
    <2> DEFINE r == [pc |-> "activate", user |-> u, home |-> h]
    <2>1. Plain(r) BY DEF Plain, Knows
    <2>2. RequireAuth(t, u) /\ Goto(t, r) BY <1>9 DEF HouseholdSwitchPost
    <2> HIDE DEF r
    <2> QED BY <1>1, <2>1, <2>2
  <1>10. ASSUME NEW a \in Addresses, HouseholdInvitePost(t, u, a)
         PROVE  \E q : Plain(q) /\ Goto(t, q) /\ UNCHANGED <<tables, history>>
    <2> DEFINE r == [pc |-> "invite_check", user |-> u, home |-> ActiveHousehold(u), addr |-> a]
    <2>1. Plain(r) BY DEF Plain, Knows
    <2>2. RequireAuth(t, u) /\ Goto(t, r) BY <1>10 DEF HouseholdInvitePost
    <2> HIDE DEF r
    <2> QED BY <1>1, <2>1, <2>2
  <1>11. ASSUME NEW i \in Invites, InviteCancelPost(t, u, i)
         PROVE  \E q : Plain(q) /\ Goto(t, q) /\ UNCHANGED <<tables, history>>
    <2> DEFINE r == [pc |-> "cancel", invite |-> i]
    <2>1. Plain(r) BY DEF Plain, Knows
    <2>2. RequireAuth(t, u) /\ Goto(t, r) BY <1>11 DEF InviteCancelPost
    <2> HIDE DEF r
    <2> QED BY <1>1, <2>1, <2>2
  <1>12. ASSUME NEW i \in Invites, InviteAcceptPost(t, u, i)
         PROVE  \E q : Plain(q) /\ Goto(t, q) /\ UNCHANGED <<tables, history>>
    <2> DEFINE r == [pc |-> "redeem", user |-> u, addr |-> user[u].addr, invite |-> i]
    <2>1. Plain(r) BY DEF Plain, Knows
    <2>2. UNCHANGED <<tables, history>> /\ Goto(t, r) BY <1>12 DEF InviteAcceptPost
    <2> HIDE DEF r
    <2> QED BY <2>1, <2>2
  <1>13. ASSUME NEW l \in Links, LinksAcceptPost(t, u, l)
         PROVE  \E q : Plain(q) /\ Goto(t, q) /\ UNCHANGED <<tables, history>>
    <2> DEFINE r == [pc |-> "accept", link |-> l, home |-> ActiveHousehold(u)]
    <2>1. Plain(r) BY DEF Plain, Knows
    <2>2. RequireAuth(t, u) /\ Goto(t, r) BY <1>13 DEF LinksAcceptPost
    <2> HIDE DEF r
    <2> QED BY <1>1, <2>1, <2>2
  <1>14. ASSUME NEW l \in Links, LinksRevokePost(t, u, l)
         PROVE  \E q : Plain(q) /\ Goto(t, q) /\ UNCHANGED <<tables, history>>
    <2> DEFINE r == [pc |-> "revoke", link |-> l]
    <2>1. Plain(r) BY DEF Plain, Knows
    <2>2. RequireAuth(t, u) /\ Goto(t, r) BY <1>14 DEF LinksRevokePost
    <2> HIDE DEF r
    <2> QED BY <1>1, <2>1, <2>2
  <1> QED
    BY <1>4, <1>5, <1>6, <1>7, <1>8, <1>9, <1>10, <1>11, <1>12, <1>13, <1>14

(* A request that has counted two members goes on to remove one.           *)
LEMMA CountingMoves ==
  ASSUME IInv, NEW t \in Tasks, NEW r, Goto(t, r), Knows(r),
         r.pc \in {"remove_row", "delete_row"}, Shared(r.home), UNCHANGED <<tables, history>>
  PROVE  IInv'
  <1>1. /\ UNCHANGED <<user, sess, magic, home, born, members, link, invite, cached>>
        /\ UNCHANGED <<crossed, doubled>>
    BY DEF tables, history
  <1>2. /\ task' = [s \in Tasks |-> task'[s]] /\ task'[t] = r
        /\ \A s \in Tasks : s # t => task'[s] = task[s]
    BY GoesTo DEF IInv
  <1>3. UsersOK' /\ HomesOK' /\ \A v \in Users : Exists(v) => Exists(v)'
    BY <1>1 DEF IInv, UsersOK, HomesOK, Exists
  <1>4. SessOK' /\ MembersOK' /\ LinksOK' /\ InvitesOK' BY <1>1, <1>3, RowsStand
  <1>5. JobsOK' BY <1>2 DEF IInv, JobsOK
  <1>6. Counted'
    <2>1. \A h : Shared(h)' <=> Shared(h) BY <1>1 DEF Shared
    <2>2. ASSUME NEW s \in Tasks, task'[s].pc \in {"remove_row", "delete_row"}
          PROVE  Shared(task'[s].home) \/ task'[s].home \in crossed
      <3>1. CASE s = t BY <1>2, <3>1
      <3>2. CASE s # t BY <1>2, <2>2, <3>2 DEF IInv, Counted
      <3> QED BY <3>1, <3>2
    <2> QED BY <1>1, <2>1, <2>2 DEF Counted, Shared
  <1>7. Accepting'
    <2>1. \A s \in Tasks : task'[s].pc = "accept_commit" => task'[s] = task[s] BY <1>2
    <2>2. \A s \in Tasks : Accepts(task[s])'
      BY <1>1, <2>1 DEF IInv, Accepting, Accepts, Joins, Active
    <2>3. ASSUME NEW q \in Tasks, NEW s \in Tasks, q # s,
                 task'[q].pc = "accept_commit", task'[s].pc = "accept_commit"
          PROVE  task'[q].link # task'[s].link
      <3>1. task'[q] = task[q] /\ task'[s] = task[s] BY <2>1, <2>3
      <3> QED BY <2>3, <3>1 DEF IInv, Accepting
    <2> QED BY <2>2, <2>3 DEF Accepting
  <1>8. HouseholdsHaveMembers' /\ LinkedOnce'
    BY <1>1 DEF IInv, HouseholdsHaveMembers, LinkedOnce, MembersOf
  <1> QED BY <1>1, <1>3, <1>4, <1>5, <1>6, <1>7, <1>8 DEF IInv

LEMMA CountsMove ==
  ASSUME IInv, NEW t \in Tasks, RemoveCount(t) \/ DeleteCount(t) \/ CountMemberships(t)
  PROVE  IInv'
  <1>1. CASE RemoveCount(t)
    <2> DEFINE r == [pc |-> "remove_row", target |-> task[t].target, home |-> task[t].home]
    <2>1. UNCHANGED <<tables, history>> BY <1>1 DEF RemoveCount
    <2>2. CASE Done(t) BY <2>1, <2>2, Ends
    <2>3. CASE ~ (MemberCount(task[t].home) <= 1) /\ Goto(t, r)
      <3>1. Knows(r) /\ r.pc = "remove_row" /\ r.home = task[t].home BY DEF Knows
      <3>2. Shared(task[t].home) BY <2>3, MoreThanOne
      <3> HIDE DEF r
      <3> QED BY <2>1, <2>3, <3>1, <3>2, CountingMoves
    <2> QED BY <1>1, <2>2, <2>3 DEF RemoveCount
  <1>2. CASE DeleteCount(t)
    <2> DEFINE h == Min(task[t].homes)
               r == [pc |-> "delete_row", user |-> task[t].user, homes |-> task[t].homes, home |-> h]
               q == [pc |-> "delete_members", user |-> task[t].user, homes |-> task[t].homes,
                     home |-> h]
    <2>1. UNCHANGED <<tables, history>> BY <1>2 DEF DeleteCount
    <2>2. task[t].homes # {} /\ task[t].homes \subseteq Homes
      BY <1>2 DEF DeleteCount, IInv, JobsOK, Knows
    <2>3. h \in task[t].homes
      <3>1. task[t].homes \in SUBSET Nat BY <2>2, IdTypes
      <3> QED BY <2>2, <3>1, LeastExists
    <2>4. CASE MemberCount(h) <= 1
      <3>1. Goto(t, q) BY <1>2, <2>4 DEF DeleteCount
      <3>2. Plain(q) BY <2>2 DEF Plain, Knows
      <3> HIDE DEF q
      <3> QED BY <2>1, <3>1, <3>2, Carries
    <2>5. CASE ~ (MemberCount(h) <= 1)
      <3>1. Goto(t, r) BY <1>2, <2>5 DEF DeleteCount
      <3> HIDE DEF h
      <3>2. Knows(r) /\ r.pc = "delete_row" /\ r.home = h BY <2>2, <2>3 DEF Knows
      <3>3. Shared(h) BY <2>5, MoreThanOne
      <3> HIDE DEF r
      <3> QED BY <2>1, <3>1, <3>2, <3>3, CountingMoves
    <2> QED BY <2>4, <2>5
  <1>3. CASE CountMemberships(t)
    <2> DEFINE r == [pc |-> "mark", user |-> task[t].user, then |-> Idle]
    <2>1. UNCHANGED <<tables, history>> /\ task[t].user \in Users
      BY <1>3 DEF CountMemberships, IInv, JobsOK, Knows
    <2>2. Plain(r) BY <2>1 DEF Plain, Knows, Idle
    <2>3. Done(t) \/ Goto(t, r) BY <1>3 DEF CountMemberships
    <2> HIDE DEF r
    <2> QED BY <2>1, <2>2, <2>3, Carries, Ends
  <1> QED BY <1>1, <1>2, <1>3

(* Steps that read a table, send a link or change the onboarding cache.    *)
LEMMA SmallMoves ==
  ASSUME IInv, NEW t \in Tasks,
         \/ \E a \in Addresses : MagicLinkVerify(t, a) \/ HandleCallback(t, a)
         \/ MarkHasHousehold(t) \/ ForgetHousehold(t)
         \/ DeleteMembers(t) \/ InviteCheck(t) \/ Fails(t)
  PROVE  IInv'
  <1>1. ASSUME NEW a \in Addresses, MagicLinkVerify(t, a) PROVE IInv'
    <2> DEFINE r == [pc |-> "lookup", addr |-> a]
    <2>1. /\ UNCHANGED <<user, sess, home, born, members, link, invite, cached, history>>
          /\ magic[a] > 0 /\ magic' = [magic EXCEPT ![a] = magic[a] - 1] /\ Goto(t, r)
      BY <1>1 DEF MagicLinkVerify
    <2>2. Plain(r) BY DEF Plain, Knows
    <2> HIDE DEF r
    <2>3. Plainly BY <2>1, <2>2, GoesPlainly DEF IInv
    <2>4. magic' \in [Addresses -> 0..MagicLinksPerHour] BY <2>1 DEF IInv, MagicLinksPerHour
    <2> QED BY <2>1, <2>3, <2>4, Reads DEF IInv
  <1>2. ASSUME NEW a \in Addresses, HandleCallback(t, a) PROVE IInv'
    <2> DEFINE r == [pc |-> "lookup", addr |-> a]
    <2>1. UNCHANGED <<tables, history>> /\ Goto(t, r) BY <1>2 DEF HandleCallback
    <2>2. Plain(r) BY DEF Plain, Knows
    <2> HIDE DEF r
    <2> QED BY <2>1, <2>2, Carries
  <1>3. ASSUME MarkHasHousehold(t) \/ ForgetHousehold(t) PROVE IInv'
    <2>1. /\ UNCHANGED <<user, sess, magic, home, born, members, link, invite, history>>
          /\ Goto(t, task[t].then)
      BY <1>3 DEF MarkHasHousehold, ForgetHousehold, history
    <2>2. task[t].pc \in {"mark", "forget"} BY <1>3 DEF MarkHasHousehold, ForgetHousehold
    <2>3. Plain(task[t].then) BY <2>2 DEF IInv, JobsOK, Knows, Plain
    <2>4. Plainly BY <2>1, <2>3, GoesPlainly DEF IInv
    <2>5. cached' \subseteq Users
      BY <1>3 DEF MarkHasHousehold, ForgetHousehold, IInv, JobsOK, Knows
    <2> QED BY <2>1, <2>4, <2>5, Reads DEF IInv
  <1>4. ASSUME DeleteMembers(t) PROVE IInv'
    <2> DEFINE r == [pc |-> "delete_commit", user |-> task[t].user, homes |-> task[t].homes,
                     home |-> task[t].home, victims |-> MembersOf(task[t].home)]
    <2>1. /\ UNCHANGED <<tables, history>> /\ Goto(t, r)
          /\ task[t].homes # {} /\ task[t].homes \subseteq Homes
      BY <1>4 DEF DeleteMembers, IInv, JobsOK, Knows
    <2>2. Plain(r) BY <2>1 DEF Plain, Knows
    <2> HIDE DEF r
    <2> QED BY <2>1, <2>2, Carries
  <1>5. ASSUME InviteCheck(t) PROVE IInv'
    <2> DEFINE r == [task[t] EXCEPT !.pc = "invite_row"]
    <2>1. UNCHANGED <<tables, history>> /\ (Done(t) \/ Goto(t, r)) BY <1>5 DEF InviteCheck
    <2>2. /\ task[t] = [pc |-> "invite_check", user |-> task[t].user, home |-> task[t].home,
                        addr |-> task[t].addr]
          /\ task[t].user \in Users /\ task[t].addr \in Addresses
      BY <1>5 DEF InviteCheck, IInv, JobsOK, Knows
    <2>3. r = [pc |-> "invite_row", user |-> task[t].user, home |-> task[t].home,
               addr |-> task[t].addr]
      BY <2>2
    <2> HIDE DEF r
    <2>4. Plain(r) BY <2>2, <2>3 DEF Plain, Knows
    <2> QED BY <2>1, <2>4, Carries, Ends
  <1>6. ASSUME Fails(t) PROVE IInv'
    <2> DEFINE hs == task[t].homes \ {task[t].home}
               r  == NextHousehold(task[t].user, hs)
    <2>1. UNCHANGED <<tables, history>> /\ (task[t].pc # "delete_row" => Done(t))
          /\ (task[t].pc = "delete_row" => Goto(t, r))
      BY <1>6 DEF Fails
    <2>2. CASE task[t].pc = "delete_row"
      <3>1. hs \in SUBSET Homes BY <2>2 DEF IInv, JobsOK, Knows
      <3> HIDE DEF hs
      <3>2. Plain(r) BY <3>1, NextHouseholdPlain
      <3> HIDE DEF r
      <3> QED BY <2>1, <2>2, <3>2, Carries
    <2>3. CASE task[t].pc # "delete_row" BY <2>1, <2>3, Ends
    <2> QED BY <2>2, <2>3
  <1> QED BY <1>1, <1>2, <1>3, <1>4, <1>5, <1>6

LEMMA MagicLinkRequestMoves ==
  ASSUME IInv, NEW a \in Addresses, MagicLinkRequest(a)
  PROVE  IInv'
  <1>1. /\ UNCHANGED <<user, sess, home, born, members, link, invite, cached, task, history>>
        /\ magic[a] < MagicLinksPerHour /\ magic' = [magic EXCEPT ![a] = magic[a] + 1]
    BY DEF MagicLinkRequest
  <1>2. Plainly BY <1>1, StaysPlainly DEF IInv
  <1>3. magic' \in [Addresses -> 0..MagicLinksPerHour] BY <1>1 DEF IInv, MagicLinksPerHour
  <1> QED BY <1>1, <1>2, <1>3, Reads DEF IInv

-----------------------------------------------------------------------------
(* The theorems.                                                           *)

LEMMA Initially == Init => IInv
  <1> SUFFICES ASSUME Init PROVE IInv OBVIOUS
  <1>1. /\ home = FirstHomes /\ born = Max(home) /\ members = FirstMembers /\ cached = {}
        /\ task = [t \in Tasks |-> Idle]
        /\ magic = [a \in Addresses |-> 0]
        /\ user = [u \in Users |-> IF u \in DOMAIN FirstAddr
                                     THEN [addr |-> FirstAddr[u], enabled |-> TRUE] ELSE None]
        /\ sess = [u \in Users |-> IF u \in DOMAIN FirstAddr THEN [home |-> None] ELSE None]
        /\ link = [l \in Links |-> IF l \in DOMAIN FirstLinks THEN FirstLinks[l] ELSE None]
        /\ invite = [i \in Invites |-> IF i \in DOMAIN FirstInvites THEN FirstInvites[i] ELSE None]
    BY DEF Init, FirstHomes
  <1>2. /\ \A u \in DOMAIN FirstAddr : u \in Users /\ FirstAddr[u] \in Addresses
        /\ \A u, v \in DOMAIN FirstAddr : FirstAddr[u] = FirstAddr[v] => u = v
        /\ FirstMembers \subseteq (DOMAIN FirstAddr) \X Homes /\ FirstMembers # {}
    BY SetUp
  <1>3. \A m \in FirstMembers : m[1] \in DOMAIN FirstAddr /\ m[2] \in FirstHomes /\ m[2] \in Homes
                                /\ m = <<m[1], m[2]>>
    BY <1>2 DEF FirstHomes
  <1>4. \A h \in FirstHomes : h \in Homes /\ \E u \in DOMAIN FirstAddr : <<u, h>> \in FirstMembers
    <2> TAKE h \in FirstHomes
    <2>1. PICK m \in FirstMembers : h = m[2] BY DEF FirstHomes
    <2> QED BY <1>3, <2>1
  <1>5. HomesOK
    <2>1. home \in SUBSET (1..MaxHomes) /\ home # {} /\ MaxHomes \in Nat
      <3>1. PICK m \in FirstMembers : TRUE BY <1>2
      <3>2. m[2] \in FirstHomes BY <3>1 DEF FirstHomes
      <3> QED BY <1>1, <1>4, <3>2, SetUp DEF Homes
    <2>2. born \in home /\ \A h \in home : h <= born BY <1>1, <2>1, GreatestExists
    <2> QED BY <2>1, <2>2 DEF HomesOK
  <1>6. \A u \in Users : /\ user[u] # None <=> u \in DOMAIN FirstAddr
                         /\ user[u] # None => user[u].addr = FirstAddr[u] /\ user[u] \in UserRow
    <2> TAKE u \in Users
    <2>1. CASE u \in DOMAIN FirstAddr
      <3> DEFINE n == [addr |-> FirstAddr[u], enabled |-> TRUE]
      <3>1. n \in UserRow /\ n.addr = FirstAddr[u] BY <1>2, <2>1 DEF UserRow
      <3>2. user[u] = n BY <1>1, <2>1
      <3> HIDE DEF n
      <3> QED BY <2>1, <3>1, <3>2, NoneIsNoRow
    <2>2. CASE u \notin DOMAIN FirstAddr BY <1>1, <2>2
    <2> QED BY <2>1, <2>2
  <1>7. UsersOK
    <2>1. user = [u \in Users |-> user[u]] BY <1>1
    <2>2. user \in [Users -> UserRow \cup {None}] BY <1>6, <2>1
    <2> QED BY <1>2, <1>6, <2>2 DEF UsersOK, Exists
  <1>8. SessOK BY <1>1, <1>6 DEF SessOK, Exists
  <1>9. MembersOK BY <1>1, <1>2, <1>3, <1>6 DEF MembersOK, Exists
  <1>10. LinksOK /\ \A l \in Links : link[l] # None => link[l].status = "pending"
    <2>1. ASSUME NEW l \in Links, link[l] # None
          PROVE  /\ link[l] \in LinkRow /\ link[l].status = "pending"
                 /\ link[l].a \in home /\ link[l].b = None
                 /\ link[l].by \in Users /\ user[link[l].by] # None
      <3>1. link[l] \in [a : FirstHomes, b : {None}, status : {"pending"}, by : DOMAIN FirstAddr]
        BY <1>1, <2>1, SetUp
      <3>2. /\ link[l].a \in FirstHomes /\ link[l].b = None /\ link[l].status = "pending"
            /\ link[l].by \in DOMAIN FirstAddr
        BY <3>1
      <3>3. link[l] \in LinkRow BY <1>2, <1>4, <3>1 DEF LinkRow
      <3> QED BY <1>1, <1>2, <1>6, <3>2, <3>3
    <2>2. link = [l \in Links |-> link[l]] BY <1>1
    <2>3. link \in [Links -> LinkRow \cup {None}] BY <2>1, <2>2
    <2> QED BY <2>1, <2>3 DEF LinksOK, Exists
  <1>11. InvitesOK
    <2>1. ASSUME NEW i \in Invites, invite[i] # None
          PROVE  /\ invite[i] \in InviteRow /\ invite[i].home \in home
                 /\ invite[i].by \in Users /\ user[invite[i].by] # None
      <3>1. invite[i] \in [home : FirstHomes, addr : Addresses, status : {"pending"},
                           fresh : BOOLEAN, by : DOMAIN FirstAddr]
        BY <1>1, <2>1, SetUp
      <3>2. invite[i].home \in FirstHomes /\ invite[i].by \in DOMAIN FirstAddr BY <3>1
      <3>3. invite[i] \in InviteRow BY <1>2, <1>4, <3>1 DEF InviteRow
      <3> QED BY <1>1, <1>2, <1>6, <3>2, <3>3
    <2>2. invite = [i \in Invites |-> invite[i]] BY <1>1
    <2>3. invite \in [Invites -> InviteRow \cup {None}] BY <2>1, <2>2
    <2> QED BY <2>1, <2>3 DEF InvitesOK, Exists
  <1>12. \A t \in Tasks : task[t].pc = "idle" BY <1>1 DEF Idle
  <1>13. JobsOK BY <1>1, <1>12 DEF JobsOK, Knows
  <1>14. Counted /\ Accepting BY <1>12 DEF Counted, Accepting, Accepts
  <1>15. HouseholdsHaveMembers BY <1>1, <1>2, <1>4 DEF HouseholdsHaveMembers, MembersOf
  <1>16. LinkedOnce
    <2>1. \A l \in Links : ~ Active(l) BY <1>10 DEF Active
    <2> QED BY <2>1, OnceByActive
  <1>17. magic \in [Addresses -> 0..MagicLinksPerHour] BY <1>1 DEF MagicLinksPerHour
  <1> QED
    BY <1>1, <1>5, <1>7, <1>8, <1>9, <1>10, <1>11, <1>13, <1>14, <1>15, <1>16, <1>17 DEF IInv

LEMMA Inductive == IInv /\ [Next]_vars => IInv'
  <1> SUFFICES ASSUME IInv, [Next]_vars PROVE IInv' OBVIOUS
  <1>1. ASSUME NEW a \in Addresses, MagicLinkRequest(a) PROVE IInv'
    BY <1>1, MagicLinkRequestMoves
  <1>2. ASSUME NEW u \in Users, DeleteSession(u) \/ SetDisabled(u, TRUE) \/ SetDisabled(u, FALSE)
        PROVE  IInv'
    BY <1>2, UserMoves
  <1>3. ASSUME NEW i \in Invites, InviteExpires(i) PROVE IInv'
    BY <1>3, InvitationMoves
  <1>4. ASSUME NEW t \in Tasks, GetUserByEmail(t) \/ CreateUser(t) \/ CreateSession(t) PROVE IInv'
    BY <1>4, SignInMoves
  <1>5. ASSUME NEW t \in Tasks, NEW u \in Users,
               \/ OnboardPost(t, u) \/ NeedsOnboarding(t, u)
               \/ AccountDeletePost(t, u) \/ LinksInvitePost(t, u)
               \/ \E v \in Users : MemberRemovePost(t, u, v)
               \/ \E h \in Homes : HouseholdSwitchPost(t, u, h)
               \/ \E a \in Addresses : HouseholdInvitePost(t, u, a)
               \/ \E i \in Invites : InviteCancelPost(t, u, i) \/ InviteAcceptPost(t, u, i)
               \/ \E l \in Links : LinksAcceptPost(t, u, l) \/ LinksRevokePost(t, u, l)
        PROVE  IInv'
    BY <1>5, RequestsBegin
  <1>6. ASSUME NEW t \in Tasks, Create(t) PROVE IInv' BY <1>6, CreateMoves
  <1>7. ASSUME NEW t \in Tasks, SetActiveHousehold(t) PROVE IInv' BY <1>7, SetActiveHouseholdMoves
  <1>8. ASSUME NEW t \in Tasks, RemoveCount(t) \/ DeleteCount(t) \/ CountMemberships(t) PROVE IInv'
    BY <1>8, CountsMove
  <1>9. ASSUME NEW t \in Tasks, RemoveMember(t) \/ DeleteRow(t) PROVE IInv' BY <1>9, RemovalMoves
  <1>10. ASSUME NEW t \in Tasks, DeleteCommit(t) PROVE IInv' BY <1>10, DeleteCommitMoves
  <1>11. ASSUME NEW t \in Tasks, DeleteUser(t) PROVE IInv' BY <1>11, DeleteUserMoves
  <1>12. ASSUME NEW t \in Tasks, CreateInvite(t) \/ CancelInvite(t) PROVE IInv'
    BY <1>12, InvitationMoves
  <1>13. ASSUME NEW t \in Tasks, RedeemInvite(t) PROVE IInv' BY <1>13, RedeemInviteMoves
  <1>14. ASSUME NEW t \in Tasks, CreateLink(t) PROVE IInv' BY <1>14, CreateLinkMoves
  <1>15. ASSUME NEW t \in Tasks, AcceptCheck(t) PROVE IInv' BY <1>15, AcceptCheckMoves
  <1>16. ASSUME NEW t \in Tasks, AcceptInvite(t) PROVE IInv' BY <1>16, AcceptInviteMoves
  <1>17. ASSUME NEW t \in Tasks, RevokeLink(t) PROVE IInv' BY <1>17, RevokeLinkMoves
  <1>18. ASSUME NEW t \in Tasks,
                \/ \E a \in Addresses : MagicLinkVerify(t, a) \/ HandleCallback(t, a)
                \/ MarkHasHousehold(t) \/ ForgetHousehold(t)
                \/ DeleteMembers(t) \/ InviteCheck(t) \/ Fails(t)
         PROVE  IInv'
    BY <1>18, SmallMoves
  <1>19. CASE UNCHANGED vars
    <2>1. UNCHANGED <<user, sess, home, born, members, link, invite, magic, cached, task, history>>
      BY <1>19 DEF vars, tables
    <2>2. Plainly BY <2>1, StaysPlainly DEF IInv
    <2> QED BY <2>1, <2>2, Reads DEF IInv
  <1> QED
    BY <1>1, <1>2, <1>3, <1>4, <1>5, <1>6, <1>7, <1>8, <1>9, <1>10, <1>11, <1>12, <1>13,
       <1>14, <1>15, <1>16, <1>17, <1>18, <1>19 DEF Next

(* What the requests rely on holds whatever their number and interleaving. *)
THEOREM Invariance == Spec => []IInv
  BY Initially, Inductive, PTL DEF Spec

(* The rows of accounts, households, links and invitations refer to rows   *)
(* that exist, and no address has two accounts: the foreign keys and the   *)
(* unique index of the migrations suffice, whatever is deleted meanwhile.  *)
THEOREM TypeCorrect == Spec => []TypeOK
  BY Invariance, Inherits, PTL

(* Removing members and deleting accounts leaves no household that nobody  *)
(* can manage (RemoveMember, Store.Delete), except where a membership      *)
(* changed between the count and its use.                                  *)
THEOREM NoHouseholdIsAbandoned == Spec => []HouseholdsHaveMembers
  <1>1. IInv => HouseholdsHaveMembers BY DEF IInv
  <1> QED BY <1>1, Invariance, PTL

(* Two households are linked at most once (AcceptInvite), except where two *)
(* acceptances of theirs overlapped.                                       *)
THEOREM NoLinkIsDoubled == Spec => []LinkedOnce
  <1>1. IInv => LinkedOnce BY DEF IInv
  <1> QED BY <1>1, Invariance, PTL

=============================================================================
