------------------------------ MODULE MCRelay ------------------------------
(* A replica's relay and its hub; a behaviour is of one of the two.  In the *)
(* relay A dials B, and of A's two devices one may connect again; at the   *)
(* hub one device connects twice.                                          *)
EXTENDS Relay, Hub, TLC

CONSTANTS A, B, a1, a2, b1, c1, c2, h1

ThreeDevices == (a1 :> A) @@ (a2 :> A) @@ (b1 :> B)
OneDevice    == (c1 :> h1) @@ (c2 :> h1)

VARIABLE side

MCVars == <<vars, hubVars, side>>

MCInit == side \in {"relay", "hub"} /\ Init /\ HubInit

OneReconnects == \A d \in {a2, b1}, e \in Epochs : e > 1 => At(d, e, "none")

MCNext ==
  \/ side = "relay" /\ Next /\ OneReconnects' /\ UNCHANGED <<hubVars, side>>
  \/ side = "hub" /\ HubNext /\ UNCHANGED <<vars, side>>

\* Initially no fair step is possible on either side: the other stays so.
MCSpec == MCInit /\ [][MCNext]_MCVars /\ Fairness /\ HubFairness
=============================================================================
