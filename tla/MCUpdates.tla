------------------------------ MODULE MCUpdates ------------------------------
(* Small instances of both ways software gets renewed: in a behaviour      *)
(* either a phone is updated or the server is deployed.                    *)
EXTENDS Renewal, TLC

VARIABLE side

serverVars == <<releases, edition, ready, sound, running, file, run, budget>>
MCVars == <<vars, serverVars, side>>

MCInit ==
  /\ side \in {"phone", "server"}
  /\ Init /\ D!DeployInit
  /\ side = "phone" => sound = {1}

MCNext ==
  \/ side = "phone" /\ Next /\ UNCHANGED <<serverVars, side>>
  \/ side = "server" /\ D!DeployNext /\ UNCHANGED <<vars, side>>

MCSpec == MCInit /\ [][MCNext]_MCVars

SlotSymmetry == Permutations(Slots)
ReplicaSymmetry == Permutations(Replicas)
Symmetry == SlotSymmetry \cup ReplicaSymmetry
=============================================================================
