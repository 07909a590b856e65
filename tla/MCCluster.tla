------------------------------ MODULE MCCluster ------------------------------
(* A small cluster.  A behaviour spends one budget: a phone that moves     *)
(* while it talks, a message that crosses two moves, or a deck and a       *)
(* sample while a call or a conference starts and ends.                    *)
EXTENDS Cluster

Spend(m, s, d, n, f, keys) ==
  [moves |-> m, sends |-> s, decks |-> d, samples |-> n, forced |-> f, keys |-> keys]

MCBudgets == {
  Spend(1, 0, 0, 0, 0, Sessions \ Conferences),
  Spend(2, 1, 0, 0, 0, {}),
  Spend(0, 0, 1, 1, 1, Sessions \ Conferences),
  Spend(0, 0, 1, 1, 1, Conferences),
  Spend(1, 0, 1, 0, 0, Conferences) }

\* One deck, opened while a call starts and ends.
MCDeckOnly == {Spend(0, 0, 1, 0, 0, Sessions)}
=============================================================================
