----------------------------- MODULE MCGateway -----------------------------
(***************************************************************************)
(* A router that follows a file in which operators add a dedicated cell,   *)
(* move keys to it, make it the fallback of a tier and move it elsewhere,  *)
(* in one or in several edits.  The files have endpoints in the legacy     *)
(* format, which Route asks for, and some have placements beside them.     *)
(***************************************************************************)
EXTENDS Gateway, TLC

CONSTANTS acme, stranger, visa, tier1, tier3, v1, v2, urlA, urlB

NoPlacements == [p \in {} |-> Null]
FallsBackTo(f) == [url |-> urlA, fallback |-> f, parses |-> TRUE]

Legacy == [version |-> v1, routingTable |-> (acme :> tier1),
           cellEndpoints |-> (tier1 :> urlA) @@ (tier3 :> urlB),
           placements |-> NoPlacements, defaultPlacement |-> tier3]
Guarded == [Legacy EXCEPT !.version = v2, !.defaultPlacement = tier1,
              !.placements = (tier1 :> FallsBackTo(tier3))]

WithVisa == (tier1 :> urlA) @@ (tier3 :> urlB) @@ (visa :> urlB)
Announced == [Legacy EXCEPT !.cellEndpoints = WithVisa]
Onboarded == [Announced EXCEPT !.routingTable = (acme :> visa),
                !.placements = (tier1 :> FallsBackTo(visa)) @@ (visa :> FallsBackTo(NoFallback))]
Moved == [Onboarded EXCEPT !.cellEndpoints = [WithVisa EXCEPT ![visa] = urlA]]

Files == {Legacy, Guarded, Announced, Onboarded, Moved}

(* An edit of a rollout never withdraws an endpoint.                       *)
Rollouts == {edit \in Files \X Files : Covers(edit[1], edit[2])}
=============================================================================
