--------------------------- MODULE MCProxyHandler ---------------------------
(***************************************************************************)
(* Instances of ProxyHandler: a tier and the default tier it falls back    *)
(* to, and three tiers in a ring.                                          *)
(***************************************************************************)
EXTENDS ProxyHandler, TLC

CONSTANTS tier1, tier2, tier3

(* tier1 falls back to tier3, the default, which has no fallback.          *)
ChainFallback == (tier1 :> tier3) @@ (tier3 :> NoPlacement)

(* tier1, the default, falls back to tier2, and tier2 to tier3, which has  *)
(* no fallback: its failover is to the default.  One failover more would   *)
(* bring a request back.                                                   *)
RingFallback == (tier1 :> tier2) @@ (tier2 :> tier3) @@ (tier3 :> NoPlacement)

(* The default tier admits fewer requests than the tier that falls back    *)
(* on it; tier1 also limits bodies.                                        *)
SmallLimits == (tier1 :> 2) @@ (tier3 :> 1)
OneEach == (tier1 :> 1) @@ (tier2 :> 1) @@ (tier3 :> 1)
BodyLimits == (tier1 :> 1) @@ (tier3 :> 0)
BodyLimitsOfRing == BodyLimits @@ (tier2 :> 0)

(* No body, a body over the limit, and a body of unknown length.           *)
SomeBodies == {-1, 0, 2}

Interchangeable == Permutations(Requests)
=============================================================================
