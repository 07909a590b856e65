----------------------------- MODULE MCAccounts -----------------------------
(* The tables behind the web pages; a behaviour is of accounts and         *)
(* households, or of the settings of a line.  Two people share household 1 *)
(* and one lives in household 2; each side has issued a link code, and a   *)
(* fourth address is invited into household 1.  The week of the settings   *)
(* has two days of three minutes.                                          *)
EXTENDS Accounts, HubSettings, TLC

CONSTANTS a1, a2, a3, a4

MCAddr == <<a1, a2, a3>>
MCMembers == {<<1, 1>>, <<2, 1>>, <<3, 2>>}
MCLinks == <<[a |-> 1, b |-> None, status |-> "pending", by |-> 1],
             [a |-> 2, b |-> None, status |-> "pending", by |-> 3]>>
MCInvites == <<[home |-> 1, addr |-> a3, status |-> "pending", fresh |-> TRUE, by |-> 1]>>

W(on, s, e, d) == [enabled |-> on, start |-> s, end |-> e, days |-> d]
MCForms == {W(TRUE, 2, 1, {1}),          \* wraps past midnight and the week's end
            W(TRUE, 1, 2, {0})}          \* within a day

VARIABLE side

settingsVars == <<stored, clock, online, pushes, told, sampled, lastSent, sched, req, reg,
                  changes, losses, stale>>
MCVars == <<vars, settingsVars, side>>

MCInit == side \in {"accounts", "settings"} /\ Init /\ L!Init

MCNext ==
  \/ side = "accounts" /\ Next /\ UNCHANGED <<settingsVars, side>>
  \/ side = "settings" /\ L!Next /\ UNCHANGED <<vars, side>>

MCSpec == MCInit /\ [][MCNext]_MCVars

Symmetry == Permutations(Tasks \cup Requests)
=============================================================================
