------------------------------ MODULE MCFleetDns ------------------------------
(***************************************************************************)
(* Two peers, overlapping rounds; an update moves the first peer to        *)
(* another address and takes the second out.                               *)
(***************************************************************************)
EXTENDS FleetDns, TLC

Both == (1 :> 11) @@ (2 :> 21)

Maps == {Both, (1 :> 12) @@ (2 :> 0)}

Thresholds == [success |-> 1, failure |-> 2, cooldown |-> 1]
=============================================================================
