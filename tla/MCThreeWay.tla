----------------------------- MODULE MCThreeWay -----------------------------
(* Three phones.  One budget lets the users go furthest, one breaks a      *)
(* socket, one fails media as well.                                        *)
EXTENDS RelayThreeWay

MCSpec == T!Spec

MCPhones == {1, 2, 3}
MCFlashers == {2}
MCBudgets == {[hooks |-> 2, flashes |-> 2, drops |-> 0, losses |-> 0],
              [hooks |-> 1, flashes |-> 2, drops |-> 1, losses |-> 0],
              [hooks |-> 1, flashes |-> 1, drops |-> 0, losses |-> 1],
              [hooks |-> 1, flashes |-> 0, drops |-> 1, losses |-> 1]}

\* The third flash is the one after a merge that was rejected.
MCThreeFlashes == {[hooks |-> 2, flashes |-> 3, drops |-> 0, losses |-> 0]}
=============================================================================
