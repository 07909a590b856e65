------------------------------ MODULE Accounts ------------------------------
(***************************************************************************)
(* Accounts, sessions, households, the invitations into a household and    *)
(* the links between households.  Every request signs its user in, reads   *)
(* what it needs and then changes the tables one statement or transaction  *)
(* at a time; requests overlap.  Foreign keys cascade as the migrations    *)
(* declare them, and each replica remembers in memory who has a household. *)
(***************************************************************************)
EXTENDS Naturals, FiniteSets, FiniteSetsExt

CONSTANTS
  Addresses,     \* e-mail addresses
  Allowed,       \* addresses that may always sign in
  Tasks,         \* requests the server handles at once
  MaxUsers, MaxHomes, MaxLinks, MaxInvites,   \* bounds: rows ever inserted
  MaxRequests,   \* bound: requests, expiries and disablings
  MaxFaults,     \* bound: failing statements
  FirstAddr,     \* the accounts set up earlier: sequence of addresses
  FirstMembers,  \* their households: set of <<user, home>>
  FirstLinks,    \* link codes issued earlier: sequence of [a, b, status, by]
  FirstInvites,  \* invitations sent earlier: sequence of [home, addr, status, fresh, by]
  None

MagicLinksPerHour == 3

Users == 1..MaxUsers
Homes == 1..MaxHomes
Links == 1..MaxLinks
Invites == 1..MaxInvites

FirstHomes == {m[2] : m \in FirstMembers}

ASSUME SetUp ==
  /\ {MaxUsers, MaxHomes, MaxLinks, MaxInvites, MaxRequests, MaxFaults} \subseteq Nat
  /\ Allowed \subseteq Addresses
  /\ DOMAIN FirstAddr \subseteq Users /\ DOMAIN FirstLinks \subseteq Links
  /\ DOMAIN FirstInvites \subseteq Invites
  /\ \A u \in DOMAIN FirstAddr : FirstAddr[u] \in Addresses
  /\ \A u, v \in DOMAIN FirstAddr : FirstAddr[u] = FirstAddr[v] => u = v
  /\ FirstMembers # {} /\ FirstMembers \subseteq (DOMAIN FirstAddr) \X Homes
  /\ \A l \in DOMAIN FirstLinks :
       FirstLinks[l] \in [a : FirstHomes, b : {None}, status : {"pending"}, by : DOMAIN FirstAddr]
  /\ \A i \in DOMAIN FirstInvites :
       FirstInvites[i] \in [home : FirstHomes, addr : Addresses, status : {"pending"},
                            fresh : BOOLEAN, by : DOMAIN FirstAddr]
  /\ None \notin Users \cup Homes \cup Addresses \cup [addr : Addresses, enabled : BOOLEAN]

VARIABLES
  user,     \* table users: id -> None or [addr, enabled]
  sess,     \* table sessions: user -> None or [home], the active household
  magic,    \* table magic_links: address -> links of this hour not used yet
  home,     \* table households: the ids in it
  made,     \* accounts created so far
  born,     \* households created so far
  members,  \* table household_members: <<user, home>>, every role being admin
  link,     \* table household_links: id -> None or [a, b, status, by]
  invite,   \* table household_invites: id -> None or [home, addr, status, fresh, by]
  cached,   \* Store.hasHousehold
  task,     \* where each request stands
  spent,    \* requests so far
  faults,   \* failing statements so far
  crossed,  \* history: households whose membership changed under a request
  doubled   \* history: pairs of households for which two acceptances overlapped

tables == <<user, made, sess, magic, home, born, members, link, invite, cached>>
history == <<crossed, doubled>>
vars == <<tables, task, spent, faults, history>>

Idle == [pc |-> "idle"]
Exists(u) == user[u] # None
HomesOf(u) == {h \in home : <<u, h>> \in members}
MembersOf(h) == {u \in Users : <<u, h>> \in members}
MemberCount(h) == Cardinality(MembersOf(h))

Spend == spent < MaxRequests /\ spent' = spent + 1
Goto(t, r) == task' = [task EXCEPT ![t] = r]
Done(t) == Goto(t, Idle)

\* resolveActiveHousehold: the session's household, or else the oldest one.
ActiveHousehold(u) == IF sess[u].home \in HomesOf(u) THEN sess[u].home ELSE Min(HomesOf(u))

\* RequireAuth: a session, and an account that is not disabled.
RequireAuth(t, u) ==
  /\ task[t] = Idle /\ Spend
  /\ sess[u] # None /\ Exists(u) /\ user[u].enabled
  /\ UNCHANGED <<tables, faults, history>>

\* Rows written by a transaction that has not committed are locked.
MemberLocked(u, h) == \E t \in Tasks : /\ task[t].pc = "delete_commit"
                                       /\ task[t].home = h /\ u \in task[t].victims
\* Another request has counted this household's members and acts on the count.
Watched(t, h) == \E s \in Tasks \ {t} :
  \/ task[s].pc = "remove_row" /\ task[s].home = h
  \/ /\ task[s].pc \in {"delete_count", "delete_row", "delete_members", "delete_commit"}
     /\ h \in task[s].homes

LinkLocked(l) == \E t \in Tasks : task[t].pc = "accept_commit" /\ task[t].link = l

\* scanLink and scanInvite read invited_by into a plain string: a row whose
\* inviter is gone (NULL) cannot be read at all.
ReadableLink(l) == link[l] # None /\ link[l].by # None
ReadableInvite(i) == invite[i] # None /\ invite[i].by # None

AreLinked(a, b) == \E l \in Links : /\ link[l] # None /\ link[l].status = "active"
                                    /\ {link[l].a, link[l].b} = {a, b}

Init ==
  /\ user = [u \in Users |-> IF u \in DOMAIN FirstAddr
                               THEN [addr |-> FirstAddr[u], enabled |-> TRUE] ELSE None]
  /\ sess = [u \in Users |-> IF u \in DOMAIN FirstAddr THEN [home |-> None] ELSE None]
  /\ made = Cardinality(DOMAIN FirstAddr)
  /\ magic = [a \in Addresses |-> 0]
  /\ home = {m[2] : m \in FirstMembers}
  /\ born = Max(home)
  /\ members = FirstMembers
  /\ link = [l \in Links |-> IF l \in DOMAIN FirstLinks THEN FirstLinks[l] ELSE None]
  /\ invite = [i \in Invites |-> IF i \in DOMAIN FirstInvites THEN FirstInvites[i] ELSE None]
  /\ cached = {}
  /\ task = [t \in Tasks |-> Idle]
  /\ spent = 0 /\ faults = 0
  /\ crossed = {} /\ doubled = {}

-----------------------------------------------------------------------------
(* Signing in and out                                                      *)

HasPendingInvite(a) == \E i \in Invites : /\ invite[i] # None /\ invite[i].addr = a
                                          /\ invite[i].status = "pending" /\ invite[i].fresh

UserOf(a) == {u \in Users : Exists(u) /\ user[u].addr = a}

MayReceiveMagicLink(a) == a \in Allowed \/ UserOf(a) # {} \/ HasPendingInvite(a)

\* The hourly cap is part of the INSERT.
MagicLinkRequest(a) ==
  /\ Spend /\ MayReceiveMagicLink(a) /\ magic[a] < MagicLinksPerHour
  /\ magic' = [magic EXCEPT ![a] = @ + 1]
  /\ UNCHANGED <<made, user, sess, home, born, members, link, invite, cached, task, faults, history>>

\* The link is consumed by one UPDATE, before the account is looked up.
MagicLinkVerify(t, a) ==
  /\ task[t] = Idle /\ magic[a] > 0
  /\ magic' = [magic EXCEPT ![a] = @ - 1]
  /\ Goto(t, [pc |-> "lookup", addr |-> a])
  /\ UNCHANGED <<made, user, sess, home, born, members, link, invite, cached, spent, faults, history>>

\* HandleCallback (and the development session): an address vouched for elsewhere.
HandleCallback(t, a) ==
  /\ task[t] = Idle /\ Spend
  /\ Goto(t, [pc |-> "lookup", addr |-> a])
  /\ UNCHANGED <<tables, faults, history>>

GetUserByEmail(t) ==
  /\ task[t].pc = "lookup"
  /\ IF UserOf(task[t].addr) # {}
       THEN Goto(t, [pc |-> "session", user |-> CHOOSE u \in UserOf(task[t].addr) : TRUE])
       ELSE Goto(t, [pc |-> "create_user", addr |-> task[t].addr])
  /\ UNCHANGED <<tables, spent, faults, history>>

\* users.email is UNIQUE: the second of two first sign-ins fails here.
CreateUser(t) ==
  /\ task[t].pc = "create_user"
  /\ IF UserOf(task[t].addr) # {} \/ made = MaxUsers
       THEN Done(t) /\ UNCHANGED <<user, made>>
       ELSE /\ user' = [user EXCEPT ![made + 1] = [addr |-> task[t].addr, enabled |-> TRUE]]
            /\ made' = made + 1
            /\ Goto(t, [pc |-> "session", user |-> made + 1])
  /\ UNCHANGED <<sess, magic, home, born, members, link, invite, cached, spent, faults, history>>

\* INSERT ... SELECT FROM users WHERE disabled_at IS NULL.
CreateSession(t) ==
  /\ task[t].pc = "session"
  /\ LET u == task[t].user IN
       sess' = IF Exists(u) THEN IF user[u].enabled THEN [sess EXCEPT ![u] = [home |-> None]]
                                                    ELSE sess
                            ELSE sess
  /\ Done(t)
  /\ UNCHANGED <<made, user, magic, home, born, members, link, invite, cached, spent, faults, history>>

\* HandleLogout, or the session runs out.
DeleteSession(u) ==
  /\ sess[u] # None /\ Spend
  /\ sess' = [sess EXCEPT ![u] = None]
  /\ UNCHANGED <<made, user, magic, home, born, members, link, invite, cached, task, faults, history>>

\* setAccountDisabled: the sessions go in the same transaction.
SetDisabled(u, disabled) ==
  /\ Exists(u) /\ Spend
  /\ user' = [user EXCEPT ![u].enabled = ~disabled]
  /\ sess' = IF disabled THEN [sess EXCEPT ![u] = None] ELSE sess
  /\ UNCHANGED <<made, magic, home, born, members, link, invite, cached, task, faults, history>>

-----------------------------------------------------------------------------
(* Households and the onboarding cache                                     *)

OnboardPost(t, u) ==
  /\ RequireAuth(t, u) /\ Goto(t, [pc |-> "create", user |-> u])

\* Household and first member in one transaction; the foreign key refuses a user
\* that has been deleted meanwhile.
Create(t) ==
  /\ task[t].pc = "create"
  /\ LET u == task[t].user IN
       IF ~Exists(u) \/ born = MaxHomes
         THEN Done(t) /\ UNCHANGED <<home, born, members>>
         ELSE /\ home' = home \cup {born + 1} /\ born' = born + 1
              /\ members' = members \cup {<<u, born + 1>>}
              /\ Goto(t, [pc |-> "mark", user |-> u, then |-> Idle])
  /\ UNCHANGED <<made, user, sess, magic, link, invite, cached, spent, faults, history>>

\* NeedsOnboarding: a hit in the cache is final; after a miss the memberships
\* are counted and a positive count is remembered.
NeedsOnboarding(t, u) ==
  /\ u \notin cached
  /\ RequireAuth(t, u) /\ Goto(t, [pc |-> "count", user |-> u])

CountMemberships(t) ==
  /\ task[t].pc = "count"
  /\ IF HomesOf(task[t].user) = {} THEN Done(t)
     ELSE Goto(t, [pc |-> "mark", user |-> task[t].user, then |-> Idle])
  /\ UNCHANGED <<tables, spent, faults, history>>

MarkHasHousehold(t) ==
  /\ task[t].pc = "mark"
  /\ cached' = cached \cup {task[t].user}
  /\ Goto(t, task[t].then)
  /\ UNCHANGED <<made, user, sess, magic, home, born, members, link, invite, spent, faults,
                 crossed, doubled>>

ForgetHousehold(t) ==
  /\ task[t].pc = "forget"
  /\ cached' = cached \ task[t].gone
  /\ Goto(t, task[t].then)
  /\ UNCHANGED <<made, user, sess, magic, home, born, members, link, invite, spent, faults,
                 crossed, doubled>>

SetActiveHousehold(t) ==
  /\ task[t].pc = "activate"
  /\ sess' = IF sess[task[t].user] # None /\ task[t].home \in home
               THEN [sess EXCEPT ![task[t].user].home = task[t].home] ELSE sess
  /\ Done(t)
  /\ UNCHANGED <<made, user, magic, home, born, members, link, invite, cached, spent, faults, history>>

HouseholdSwitchPost(t, u, h) ==
  /\ h \in HomesOf(u)
  /\ RequireAuth(t, u) /\ Goto(t, [pc |-> "activate", user |-> u, home |-> h])

-----------------------------------------------------------------------------
(* Leaving a household, deleting an account                                *)

RemoveRow(t, u, h, then) ==
  /\ ~MemberLocked(u, h)
  /\ IF <<u, h>> \in members
       THEN /\ members' = members \ {<<u, h>>}
            /\ crossed' = IF Watched(t, h) THEN crossed \cup {h} ELSE crossed
            /\ Goto(t, [pc |-> "forget", gone |-> {u}, then |-> then])
       ELSE Goto(t, then) /\ UNCHANGED <<members, crossed>>
  /\ UNCHANGED <<made, user, sess, magic, home, born, link, invite, cached, spent, faults, doubled>>

MemberRemovePost(t, u, v) ==
  /\ HomesOf(u) # {}
  /\ RequireAuth(t, u)
  /\ Goto(t, [pc |-> "remove_count", target |-> v, home |-> ActiveHousehold(u)])

MutLastMemberMayGo(t) ==
  /\ task[t].pc = "remove_count"
  /\ Goto(t, [pc |-> "remove_row", target |-> task[t].target, home |-> task[t].home])
  /\ UNCHANGED <<tables, spent, faults, history>>

RemoveCount(t) ==
  /\ task[t].pc = "remove_count"
  /\ IF MemberCount(task[t].home) <= 1 THEN Done(t)
     ELSE Goto(t, [pc |-> "remove_row", target |-> task[t].target, home |-> task[t].home])
  /\ UNCHANGED <<tables, spent, faults, history>>

RemoveMember(t) ==
  /\ task[t].pc = "remove_row" /\ RemoveRow(t, task[t].target, task[t].home, Idle)

\* What an account deletion does next: the oldest household left, or the account.
NextHousehold(u, hs) == IF hs = {} THEN [pc |-> "delete_user", user |-> u]
                                   ELSE [pc |-> "delete_count", user |-> u, homes |-> hs]

AccountDeletePost(t, u) ==
  /\ RequireAuth(t, u) /\ Goto(t, NextHousehold(u, HomesOf(u)))

DeleteCount(t) ==
  /\ task[t].pc = "delete_count"
  /\ LET h == Min(task[t].homes) IN
       Goto(t, [pc |-> IF MemberCount(h) <= 1 THEN "delete_members" ELSE "delete_row",
                user |-> task[t].user, homes |-> task[t].homes, home |-> h])
  /\ UNCHANGED <<tables, spent, faults, history>>

DeleteRow(t) ==
  /\ task[t].pc = "delete_row"
  /\ RemoveRow(t, task[t].user, task[t].home,
               NextHousehold(task[t].user, task[t].homes \ {task[t].home}))

\* The transaction of Store.Delete: the members' rows are deleted first and
\* remembered; another deletion of the household waits for this one.
DeleteMembers(t) ==
  /\ task[t].pc = "delete_members"
  /\ \A u \in Tasks : task[u].pc = "delete_commit" => task[u].home # task[t].home
  /\ Goto(t, [pc |-> "delete_commit", user |-> task[t].user, homes |-> task[t].homes,
              home |-> task[t].home, victims |-> MembersOf(task[t].home)])
  /\ UNCHANGED <<tables, spent, faults, history>>

\* The household goes, and by cascade the members that joined since, its links
\* and its invitations.  A household that is gone already fails the deletion.
DeleteCommit(t) ==
  /\ task[t].pc = "delete_commit"
  /\ LET h == task[t].home
         touches(l) == link[l] # None /\ h \in {link[l].a, link[l].b}
     IN IF h \notin home
          THEN Done(t) /\ UNCHANGED <<home, members, link, invite, sess, crossed>>
          ELSE /\ \A l \in Links : touches(l) => ~LinkLocked(l)
               /\ home' = home \ {h}
               /\ members' = {m \in members : m[2] # h}
               /\ link' = [l \in Links |-> IF touches(l) THEN None ELSE link[l]]
               /\ invite' = [i \in Invites |-> IF invite[i] # None /\ invite[i].home = h
                                                 THEN None ELSE invite[i]]
               /\ sess' = [u \in Users |-> IF sess[u] # None /\ sess[u].home = h
                                             THEN [home |-> None] ELSE sess[u]]
               /\ crossed' = IF Watched(t, h) THEN crossed \cup {h} ELSE crossed
               /\ Goto(t, [pc |-> "forget", gone |-> task[t].victims,
                           then |-> NextHousehold(task[t].user, task[t].homes \ {h})])
  /\ UNCHANGED <<made, user, magic, born, cached, spent, faults, doubled>>

\* DELETE FROM users: memberships and sessions cascade, invited_by becomes NULL.
\* The memberships left are those joined since the households were listed, and
\* those whose removal failed.
DeleteUser(t) ==
  /\ task[t].pc = "delete_user"
  /\ LET u == task[t].user IN
       /\ \A h \in home : ~MemberLocked(u, h)
       /\ \A l \in Links : link[l] # None /\ link[l].by = u => ~LinkLocked(l)
       /\ user' = [user EXCEPT ![u] = None]
       /\ sess' = [sess EXCEPT ![u] = None]
       /\ members' = {m \in members : m[1] # u}
       /\ crossed' = crossed \cup HomesOf(u)
       /\ link' = [l \in Links |-> IF link[l] # None /\ link[l].by = u
                                     THEN [link[l] EXCEPT !.by = None] ELSE link[l]]
       /\ invite' = [i \in Invites |-> IF invite[i] # None /\ invite[i].by = u
                                         THEN [invite[i] EXCEPT !.by = None] ELSE invite[i]]
  /\ Done(t)
  /\ UNCHANGED <<made, magic, home, born, cached, spent, faults, doubled>>

-----------------------------------------------------------------------------
(* Invitations into a household                                            *)

HouseholdInvitePost(t, u, a) ==
  /\ HomesOf(u) # {}
  /\ RequireAuth(t, u)
  /\ Goto(t, [pc |-> "invite_check", user |-> u, home |-> ActiveHousehold(u), addr |-> a])

PendingFor(h, a) == {i \in Invites : /\ invite[i] # None /\ invite[i].status = "pending"
                                     /\ invite[i].home = h /\ invite[i].addr = a}

\* IsMemberByEmail and IsPendingForHouseholdEmail.
InviteCheck(t) ==
  /\ task[t].pc = "invite_check"
  /\ IF \/ \E u \in UserOf(task[t].addr) : <<u, task[t].home>> \in members
        \/ \E i \in PendingFor(task[t].home, task[t].addr) : invite[i].fresh
       THEN Done(t) ELSE Goto(t, [task[t] EXCEPT !.pc = "invite_row"])
  /\ UNCHANGED <<tables, spent, faults, history>>

\* The unique index counts a pending invitation that has expired as well.
CreateInvite(t) ==
  /\ task[t].pc = "invite_row"
  /\ LET free == {i \in Invites : invite[i] = None}
         ok == /\ task[t].home \in home /\ Exists(task[t].user)
               /\ PendingFor(task[t].home, task[t].addr) = {} /\ free # {}
     IN invite' = IF ok THEN [invite EXCEPT ![Min(free)] =
                          [home |-> task[t].home, addr |-> task[t].addr, status |-> "pending",
                           fresh |-> TRUE, by |-> task[t].user]] ELSE invite
  /\ Done(t)
  /\ UNCHANGED <<made, user, sess, magic, home, born, members, link, cached, spent, faults, history>>

InviteExpires(i) ==
  /\ invite[i] # None /\ invite[i].status = "pending" /\ invite[i].fresh /\ Spend
  /\ invite' = [invite EXCEPT ![i].fresh = FALSE]
  /\ UNCHANGED <<made, user, sess, magic, home, born, members, link, cached, task, faults, history>>

InviteCancelPost(t, u, i) ==
  /\ RequireAuth(t, u) /\ HomesOf(u) # {}
  /\ ReadableInvite(i) /\ invite[i].home = ActiveHousehold(u)
  /\ Goto(t, [pc |-> "cancel", invite |-> i])

CancelInvite(t) ==
  /\ task[t].pc = "cancel"
  /\ LET i == task[t].invite IN
       invite' = IF invite[i] # None THEN IF invite[i].status = "pending"
                   THEN [invite EXCEPT ![i].status = "cancelled"] ELSE invite ELSE invite
  /\ Done(t)
  /\ UNCHANGED <<made, user, sess, magic, home, born, members, link, cached, spent, faults, history>>

\* userFromSessionCookie: a session is enough here, even of a disabled account.
InviteAcceptPost(t, u, i) ==
  /\ task[t] = Idle /\ Spend /\ sess[u] # None /\ Exists(u)
  /\ Goto(t, [pc |-> "redeem", user |-> u, addr |-> user[u].addr, invite |-> i])
  /\ UNCHANGED <<tables, faults, history>>

\* One transaction: the invitation is locked, the member added, the token spent.
RedeemInvite(t) ==
  /\ task[t].pc = "redeem"
  /\ LET i == task[t].invite
         u == task[t].user
         ok == IF ReadableInvite(i)
                 THEN /\ invite[i].status = "pending" /\ invite[i].fresh
                      /\ invite[i].addr = task[t].addr /\ Exists(u)
                 ELSE FALSE
     IN IF ok
          THEN /\ ~MemberLocked(u, invite[i].home)
               /\ members' = members \cup {<<u, invite[i].home>>}
               /\ crossed' = IF Watched(t, invite[i].home) THEN crossed \cup {invite[i].home}
                                                          ELSE crossed
               /\ invite' = [invite EXCEPT ![i].status = "accepted"]
               /\ Goto(t, [pc |-> "mark", user |-> u,
                           then |-> [pc |-> "activate", user |-> u, home |-> invite[i].home]])
          ELSE Done(t) /\ UNCHANGED <<members, invite, crossed>>
  /\ UNCHANGED <<made, user, sess, magic, home, born, link, cached, spent, faults, doubled>>

-----------------------------------------------------------------------------
(* Links between households                                                *)

LinksInvitePost(t, u) ==
  /\ HomesOf(u) # {}
  /\ RequireAuth(t, u)
  /\ Goto(t, [pc |-> "link_row", user |-> u, home |-> ActiveHousehold(u)])

CreateLink(t) ==
  /\ task[t].pc = "link_row"
  /\ LET free == {l \in Links : link[l] = None}
         ok == task[t].home \in home /\ Exists(task[t].user) /\ free # {}
     IN link' = IF ok THEN [link EXCEPT ![Min(free)] =
                        [a |-> task[t].home, b |-> None, status |-> "pending",
                         by |-> task[t].user]] ELSE link
  /\ Done(t)
  /\ UNCHANGED <<made, user, sess, magic, home, born, members, invite, cached, spent, faults, history>>

LinksAcceptPost(t, u, l) ==
  /\ HomesOf(u) # {}
  /\ RequireAuth(t, u)
  /\ Goto(t, [pc |-> "accept", link |-> l, home |-> ActiveHousehold(u)])

\* The code's row is locked and the households are not linked yet, as far as
\* committed rows tell.
MutNoLinkedCheck(t) ==
  /\ task[t].pc = "accept"
  /\ LET l == task[t].link IN
       IF link[l] # None /\ link[l].by # None /\ link[l].status = "pending"
            /\ link[l].a # task[t].home /\ ~LinkLocked(l)
         THEN Goto(t, [task[t] EXCEPT !.pc = "accept_commit"]) ELSE Done(t)
  /\ UNCHANGED <<tables, spent, faults, history>>

AcceptCheck(t) ==
  /\ task[t].pc = "accept"
  /\ LET l == task[t].link
         ok == IF ReadableLink(l)
                 THEN /\ link[l].status = "pending" /\ link[l].a # task[t].home
                      /\ ~AreLinked(link[l].a, task[t].home)
                 ELSE FALSE
     IN /\ ~LinkLocked(l)
        /\ IF ok THEN Goto(t, [task[t] EXCEPT !.pc = "accept_commit"]) ELSE Done(t)
  /\ UNCHANGED <<tables, spent, faults, history>>

\* The row becomes active; a household deleted meanwhile fails the foreign key.
AcceptInvite(t) ==
  /\ task[t].pc = "accept_commit"
  /\ LET l == task[t].link
         pair == {link[l].a, task[t].home}
     IN IF task[t].home \in home
          THEN /\ link' = [link EXCEPT ![l].b = task[t].home, ![l].status = "active"]
               /\ doubled' = IF \E u \in Tasks \ {t} : task[u].pc = "accept_commit" /\
                                    {link[task[u].link].a, task[u].home} = pair
                               THEN doubled \cup {pair} ELSE doubled
          ELSE UNCHANGED <<link, doubled>>
  /\ Done(t)
  /\ UNCHANGED <<made, user, sess, magic, home, born, members, invite, cached, spent, faults,
                 crossed>>

\* Who may revoke a link: a member of either household, if the row can be read.
MayRevoke(u, l) == /\ ReadableLink(l)
                   /\ \E h \in HomesOf(u) : h \in {link[l].a, link[l].b}

LinksRevokePost(t, u, l) ==
  /\ MayRevoke(u, l)
  /\ RequireAuth(t, u) /\ Goto(t, [pc |-> "revoke", link |-> l])

RevokeLink(t) ==
  /\ task[t].pc = "revoke"
  /\ LET l == task[t].link IN
       /\ ~LinkLocked(l)
       /\ link' = IF link[l] # None THEN [link EXCEPT ![l].status = "revoked"] ELSE link
  /\ Done(t)
  /\ UNCHANGED <<made, user, sess, magic, home, born, members, invite, cached, spent, faults, history>>

\* A statement fails and the handler gives up; what is committed stays.  A
\* deletion that cannot remove the member goes on: the cascade of DeleteUser
\* will.
Fails(t) ==
  /\ task[t].pc \notin {"idle", "mark", "forget"}
  /\ faults < MaxFaults /\ faults' = faults + 1
  /\ IF task[t].pc = "delete_row"
       THEN Goto(t, NextHousehold(task[t].user, task[t].homes \ {task[t].home}))
       ELSE Done(t)
  /\ UNCHANGED <<tables, spent, history>>

-----------------------------------------------------------------------------
Next ==
  \/ \E a \in Addresses : MagicLinkRequest(a)
  \/ \E u \in Users : DeleteSession(u) \/ SetDisabled(u, TRUE) \/ SetDisabled(u, FALSE)
  \/ \E i \in Invites : InviteExpires(i)
  \/ \E t \in Tasks :
       \/ \E a \in Addresses : MagicLinkVerify(t, a) \/ HandleCallback(t, a)
       \/ GetUserByEmail(t) \/ CreateUser(t) \/ CreateSession(t)
       \/ \E u \in Users :
            \/ OnboardPost(t, u) \/ NeedsOnboarding(t, u)
            \/ AccountDeletePost(t, u) \/ LinksInvitePost(t, u)
            \/ \E v \in Users : MemberRemovePost(t, u, v)
            \/ \E h \in Homes : HouseholdSwitchPost(t, u, h)
            \/ \E a \in Addresses : HouseholdInvitePost(t, u, a)
            \/ \E i \in Invites : InviteCancelPost(t, u, i) \/ InviteAcceptPost(t, u, i)
            \/ \E l \in Links : LinksAcceptPost(t, u, l) \/ LinksRevokePost(t, u, l)
       \/ Create(t) \/ CountMemberships(t) \/ MarkHasHousehold(t) \/ ForgetHousehold(t)
       \/ SetActiveHousehold(t)
       \/ RemoveCount(t) \/ RemoveMember(t)
       \/ DeleteCount(t) \/ DeleteRow(t) \/ DeleteMembers(t) \/ DeleteCommit(t) \/ DeleteUser(t)
       \/ InviteCheck(t) \/ CreateInvite(t) \/ CancelInvite(t) \/ RedeemInvite(t)
       \/ CreateLink(t) \/ AcceptCheck(t) \/ AcceptInvite(t) \/ RevokeLink(t)
       \/ Fails(t)

Spec == Init /\ [][Next]_vars

-----------------------------------------------------------------------------
\* The foreign keys hold: members, sessions, links and invitations belong to
\* accounts and households that exist, and no address has two accounts.
TypeOK ==
  /\ \A u \in Users : user[u] # None => user[u] \in [addr : Addresses, enabled : BOOLEAN]
  /\ \A u, v \in Users : Exists(u) /\ Exists(v) /\ u # v => user[u].addr # user[v].addr
  /\ \A u \in Users : sess[u] # None => Exists(u) /\ sess[u].home \in home \cup {None}
  /\ magic \in [Addresses -> 0..MagicLinksPerHour]
  /\ home \subseteq 1..born /\ born \in 0..MaxHomes
  /\ \A m \in members : Exists(m[1]) /\ m[2] \in home
  /\ \A l \in Links : link[l] # None =>
       /\ link[l].a \in home /\ link[l].b \in home \cup {None}
       /\ link[l].by # None => Exists(link[l].by)
       /\ link[l].status \in {"pending", "active", "revoked"}
  /\ \A i \in Invites : invite[i] # None =>
       /\ invite[i].home \in home
       /\ invite[i].by # None => Exists(invite[i].by)
  /\ cached \subseteq Users

\* Every household has a member who can manage it, even while requests are under
\* way: the last member cannot be removed, and the account of the last one takes
\* the household with it (handleHouseholdMemberRemovePost, handleAccountDeletePost).
\* The exception is a membership that changed between the count and its use.
HouseholdsHaveMembers == \A h \in home : MembersOf(h) # {} \/ h \in crossed

\* Two households are linked at most once, so that revoking the link separates
\* them (AcceptInvite, RevokeLink), unless two codes were accepted at once.
LinkedOnce ==
  \A k, l \in Links :
    (k # l /\ link[k] # None /\ link[l] # None)
      => \/ {link[k].status, link[l].status} # {"active"}
         \/ {link[k].a, link[k].b} # {link[l].a, link[l].b}
         \/ {link[k].a, link[k].b} \in doubled

=============================================================================
