------------------------------- MODULE Renewal -------------------------------
(***************************************************************************)
(* The two ways software is renewed, side by side: a phone updates itself  *)
(* (Updates) and the server is deployed (Deploy).  They share nothing but  *)
(* the releases' publisher.                                                *)
(***************************************************************************)
EXTENDS Updates

CONSTANTS
  Services, MaxTag, DeployFaults, DeployActs

VARIABLES
  releases, edition, ready, sound,  \* the release list, and what is on it
  running,                          \* the containers
  file, run, budget                 \* state.json, the run, the bounds

D == INSTANCE Deploy

ASSUME TagsAssumption == MaxTag \in Nat \ {0}

(* Between runs, what state.json says was achieved is what every container *)
(* runs and is healthy, wherever a run failed, was cancelled or died       *)
(* (autodeploy, Deployer.Run and deployVersion).                           *)
FileTellsWhatRuns == D!FileTellsWhatRuns

(* While the ETag spares the runs a look at the list of releases there is  *)
(* nothing on it to deploy (autodeploy, Deployer.Run).                     *)
NoReleaseIsMissed == D!NoReleaseIsMissed
=============================================================================
