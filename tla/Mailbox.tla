------------------------------ MODULE Mailbox ------------------------------
(***************************************************************************)
(* What the answering machine promises of the messages left on it, in the  *)
(* terms of the package comment and the README: a message that was stored  *)
(* is unheard until somebody hears or saves it, a heard message stays      *)
(* heard, and a message goes only because it was deleted or, the mailbox   *)
(* being full, because it is the oldest.                                   *)
(***************************************************************************)
EXTENDS Naturals, FiniteSets

CONSTANTS
  Ids,             \* the messages, numbered in the order they are recorded
  MaxMessages      \* how many the mailbox keeps

VARIABLES
  box              \* every message: what became of it

States == {"none", "unheard", "heard", "gone"}

Kept == {id \in Ids : box[id] \in {"unheard", "heard"}}

(* Whatever an earlier run left.                                           *)
Init == box \in [Ids -> States]

(* Messages that go because the mailbox is full are older than any kept.   *)
Evicts(Gone) ==
  /\ \A old \in Gone, young \in Kept \ Gone : old < young
  /\ Gone # {} => Cardinality(Kept \ Gone) < MaxMessages

(* A message is stored; the oldest may have to go.                         *)
Store(id, Gone) ==
  /\ box[id] = "none"
  /\ Gone \subseteq Kept
  /\ Evicts(Gone)
  /\ box' = [m \in Ids |-> CASE m = id -> "unheard" [] m \in Gone -> "gone" [] OTHER -> box[m]]

(* A recording nobody spoke into, or one a power cut swept away.           *)
Lose(id) ==
  /\ box[id] = "none"
  /\ box' = [box EXCEPT ![id] = "gone"]

Hear(id) ==
  /\ box[id] = "unheard"
  /\ box' = [box EXCEPT ![id] = "heard"]

Delete(id) ==
  /\ id \in Kept
  /\ box' = [box EXCEPT ![id] = "gone"]

Change ==
  \E id \in Ids : Lose(id) \/ Hear(id) \/ Delete(id) \/ \E Gone \in SUBSET Ids : Store(id, Gone)

\* A step changes the mailbox.
Next == box' # box /\ Change

Spec == Init /\ [][Next]_box
=============================================================================
