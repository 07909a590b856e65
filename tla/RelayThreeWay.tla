---------------------------- MODULE RelayThreeWay ----------------------------
(***************************************************************************)
(* ThreeWay at the relay: the sockets and active calls of its three phones *)
(* are the relay's.                                                        *)
(***************************************************************************)
EXTENDS Naturals

CONSTANTS Phones, Host, Peer, Flashers, Budgets

VARIABLES
  phone, up, inbox, outbox,         \* the daemons, their handsets and messages
  sockets, resuming, grace,         \* connections
  talks, conf, confs, sids,         \* the tracker, and counters
  lost, budget                      \* history and bounds

T == INSTANCE ThreeWay WITH conn <- sockets, calls <- talks

ASSUME ThreeWayAssumption == T!PhonesOK /\ T!StartOK

(* During an add the host and the party its controller holds do not hear   *)
(* each other, and a mute never outlives its add, however it ends          *)
(* (enterAddDialtone, abortAdd, requestMerge, HandleConferenceRejected).   *)
MutesMatchHold == T!MutesMatchHold

(* During an add only the party being added hears the host                 *)
(* (docs/architecture/party-line.md:19).  Violated: a merge rejected after *)
(* the added party has gone leaves callPeer at that party, and the next    *)
(* flash holds it instead of the one still there (TearDownPeer).           *)
HoldIsSilent == T!HoldIsSilent

(* Once everything has settled and nothing was lost with a socket, the     *)
(* three of a live conference hear each other (handleConferenceMerge,      *)
(* AddMeshPeer, setupMeshResponder, MigrateToMesh).                        *)
MeshIsComplete == T!MeshIsComplete

(* Once everything has settled, a connected phone that has a peer has      *)
(* somebody at its other end (connectDeadline, enterICERecovery).          *)
DeadPeersAreDropped == T!DeadPeersAreDropped

(* A recovery of the current two-party call always ends: its timeout runs  *)
(* or has already asked for the hang-up (enterICERecovery, ICERestart).    *)
RecoveryIsTimed == T!RecoveryIsTimed
=============================================================================
