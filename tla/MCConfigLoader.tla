--------------------------- MODULE MCConfigLoader ---------------------------
(***************************************************************************)
(* Files an operator may write: two valid ones with the same version, one  *)
(* with another default, one with a new dedicated cell, a valid one in the *)
(* placements format, one whose routing table and one whose fallback names *)
(* an unknown placement, one without a version, one whose only fault is a  *)
(* placement written null, and a file that does not parse.                 *)
(***************************************************************************)
EXTENDS DebugView, TLC

CONSTANTS acme, visa, tier1, tier3, v1, v2, urlA, urlB

NoPlacements == [p \in {} |-> Null]
Plain(u, f) == [url |-> u, fallback |-> f, parses |-> TRUE]

Legacy == [version |-> v1, routingTable |-> (acme :> tier1),
           cellEndpoints |-> (tier1 :> urlA) @@ (tier3 :> urlB),
           placements |-> NoPlacements, defaultPlacement |-> tier3]
Edited == [Legacy EXCEPT !.routingTable = (acme :> tier3)]
Resilient == [Legacy EXCEPT !.version = v2, !.cellEndpoints = NoPlacements,
                !.placements = (tier1 :> Plain(urlA, tier3))
                            @@ (tier3 :> Plain(urlB, NoFallback))]
Dangling == [Legacy EXCEPT !.routingTable = (acme :> visa)]
Nulled == [Resilient EXCEPT !.placements = (tier1 :> Null)
                            @@ (tier3 :> Plain(urlB, NoFallback))]

Promoted == [Legacy EXCEPT !.version = v2, !.defaultPlacement = tier1]
Onboarded == [Legacy EXCEPT !.version = v2, !.routingTable = (acme :> visa),
                !.cellEndpoints = (tier1 :> urlA) @@ (tier3 :> urlB) @@ (visa :> urlB)]
Unversioned == [Legacy EXCEPT !.version = NoVersion]
Stray == [Resilient EXCEPT !.placements = (tier1 :> Plain(urlA, visa))
                            @@ (tier3 :> Plain(urlB, NoFallback))]

(* What a control plane may broadcast: its own loader validates its file.  *)
PublishedFiles == {Legacy, Edited, Promoted, Onboarded, Resilient}

UsableFiles == PublishedFiles \union {Dangling, Unversioned, Stray}
AllFiles == UsableFiles \union {Nulled}

AnyEdit == (AllFiles \union {Unparsable, Missing}) \X (AllFiles \union {Unparsable, Missing})
=============================================================================
