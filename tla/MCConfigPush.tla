---------------------------- MODULE MCConfigPush ----------------------------
(***************************************************************************)
(* An instance of ConfigPush: a control plane that publishes one version   *)
(* after another, and a router with a bootstrap file that may be taken     *)
(* away.                                                                   *)
(***************************************************************************)
EXTENDS ConfigPush, TLC

CONSTANTS acme, tier1, tier3, urlA, urlB

NoPlacements == [p \in {} |-> Null]

First == [version |-> 1, routingTable |-> (acme :> tier1),
          cellEndpoints |-> (tier1 :> urlA) @@ (tier3 :> urlB),
          placements |-> NoPlacements, defaultPlacement |-> tier3]
Second == [First EXCEPT !.version = 2, !.routingTable = (acme :> tier3)]

Bootstrap == [First EXCEPT !.version = 0, !.routingTable = NoPlacements]

Published == {First, Second}
BootstrapFile == {Bootstrap}
Removal == {<<Bootstrap, Missing>>}
NoEdits == {}
=============================================================================
