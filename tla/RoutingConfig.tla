--------------------------- MODULE RoutingConfig ---------------------------
(***************************************************************************)
(* Routing configurations (internal/config/config.go) and the lookup made  *)
(* with one (internal/routing).  A configuration is the record json parses *)
(* a file into: the two formats of endpoints are partial functions of the  *)
(* placements, empty where the file leaves them out.                       *)
(***************************************************************************)
EXTENDS Cells

CONSTANTS
  Tiers,        \* the placements "tier1", "tier2" and "tier3"
  NoVersion,    \* the empty version string
  NoFallback,   \* the empty fallback string
  EmptyKey,     \* the empty routing key
  BadUrl,       \* an endpoint that url.Parse rejects
  Null,         \* a placement written as null
  NoRoute,      \* Router.Route returns an error
  NoConfig,     \* no configuration
  Broadcasts    \* the configurations a control plane's own loader may serve

(* The fields of Config that are modelled.                                 *)
IsConfig(c) ==
  c = [version |-> c.version, routingTable |-> c.routingTable,
       cellEndpoints |-> c.cellEndpoints, placements |-> c.placements,
       defaultPlacement |-> c.defaultPlacement]

(* Config.GetCellEndpoints: the legacy format wins where it is not empty.  *)
(* It dereferences every placement otherwise, null ones included.          *)
LegacyFormat(c) == DOMAIN c.cellEndpoints # {}

Endpoints(c) ==
  IF LegacyFormat(c) THEN c.cellEndpoints
  ELSE [p \in DOMAIN c.placements |-> c.placements[p].url]

NullPlacements(c) == {p \in DOMAIN c.placements : c.placements[p] = Null}

(* A variant of Snapshot whose message lacks the default, too.             *)
SnapshotForgetsDefault(c) ==
  [c EXCEPT !.placements = [p \in {} |-> Null], !.defaultPlacement = EmptyKey]

(* What a control plane sends of c and the data plane makes of it again:   *)
(* the message has no field for the placements.                            *)
Snapshot(c) == [c EXCEPT !.placements = [p \in {} |-> Null]]

(* The checks of Config.Validate before it visits the placements.          *)
TableValid(c) ==
  LET E == Endpoints(c)
  IN /\ c.defaultPlacement \in DOMAIN E
     /\ \A k \in DOMAIN c.routingTable : c.routingTable[k] \in DOMAIN E
     /\ \A p \in DOMAIN E : E[p] # BadUrl

(* A placement the loop over the placements finds fault with.              *)
Faulty(c, p) ==
  /\ c.placements[p] # Null
  /\ \/ c.placements[p].fallback \notin DOMAIN Endpoints(c) \union {NoFallback}
     \/ ~c.placements[p].parses

(* Config.Validate returns nil...                                          *)
Valid(c) ==
  /\ c.version # NoVersion
  /\ NullPlacements(c) = {}
  /\ TableValid(c)
  /\ \A p \in DOMAIN c.placements : ~Faulty(c, p)

(* ...or panics on a null placement, unless a check that comes before it   *)
(* fails; the loop visits the placements in random order.                  *)
MayPanic(c) ==
  /\ c.version # NoVersion
  /\ NullPlacements(c) # {}
  /\ LegacyFormat(c) => TableValid(c)

(* ...or returns an error.                                                 *)
MayReject(c) ==
  \/ c.version = NoVersion
  \/ /\ NullPlacements(c) = {} \/ LegacyFormat(c)
     /\ \/ ~TableValid(c)
        \/ \E p \in DOMAIN c.placements : Faulty(c, p)

(* Router.Route, given what its three calls to the provider returned.      *)
Lookup(table, endpoints, default, k) ==
  LET found == k \in DOMAIN table /\ k # EmptyKey
      p == IF found THEN table[k] ELSE default
  IN IF p \notin DOMAIN endpoints THEN NoRoute
     ELSE [placement |-> p,
           url       |-> endpoints[p],
           reason    |-> IF ~found THEN "default"
                         ELSE IF p \in Tiers THEN "tier" ELSE "dedicated"]

(* The lookup as a static provider would answer it from one configuration. *)
LookupIn(c, k) == Lookup(c.routingTable, Endpoints(c), c.defaultPlacement, k)

(* The lookup as the loader answers it: its GetCellEndpoints returns the   *)
(* legacy field, whatever the format.                                      *)
Provided(c, k) == Lookup(c.routingTable, c.cellEndpoints, c.defaultPlacement, k)
=============================================================================
