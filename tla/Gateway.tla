------------------------------ MODULE Gateway ------------------------------
(***************************************************************************)
(* The router process (cmd/router/main.go): the routing of each request    *)
(* follows the loader, while the proxy handler keeps the configuration     *)
(* that was active when it was built, and main builds it after it has      *)
(* started what may replace that configuration.  Here are the two          *)
(* failovers of ServeHTTP as far as the two configurations go; which       *)
(* circuits are open and which placements unhealthy is left to chance      *)
(* (ProxyHandler has the rest of ServeHTTP, and tells which can be).       *)
(***************************************************************************)
EXTENDS Router

CONSTANTS
  NoUrl,      \* the empty endpoint that a map lookup yields for a missing key
  Nothing     \* no request was sent to a cell

ASSUME GatewayAssumption ==    \* no file has an empty endpoint, which would parse
  \A c \in Contents \union Broadcasts : \A p \in DOMAIN Endpoints(c) : Endpoints(c)[p] # NoUrl

VARIABLES
  boot,   \* Handler.config
  sent    \* where the request of each caller was sent

gatewayVars == <<routerVars, boot, sent>>

GatewayInit ==
  /\ RouterInit
  /\ boot = NoConfig
  /\ sent = [r \in Callers |-> Nothing]

(* main builds the handler, with the client or the reload loop running.    *)
NewHandler ==
  /\ Serving
  /\ boot = NoConfig
  /\ boot' = active
  /\ UNCHANGED <<routerVars, sent>>

(* The fallback GetPlacementConfig finds.                                  *)
FallbackIn(c, p) ==
  IF p \in DOMAIN c.placements THEN c.placements[p].fallback ELSE NoFallback

(* A decision for p with the endpoint c has for it.                        *)
Divert(c, p) ==
  [placement |-> p,
   url |-> IF p \in DOMAIN Endpoints(c) THEN Endpoints(c)[p] ELSE NoUrl]

(* What becomes of decision d when its placement's circuit is open...      *)
Opened(d) ==
  IF FallbackIn(boot, d.placement) # NoFallback
  THEN Divert(boot, FallbackIn(boot, d.placement))
  ELSE Nothing

(* A variant of Ailing that takes the placement to go to from the          *)
(* configuration in force.                                                 *)
AilingByActive(d) ==
  LET fallback == FallbackIn(active, d.placement)
  IN IF fallback # NoFallback THEN Divert(boot, fallback)
     ELSE IF d.placement = active.defaultPlacement THEN d
     ELSE Divert(boot, active.defaultPlacement)

(* ...and when its placement is unhealthy: there is always somewhere to    *)
(* send it.                                                                *)
Ailing(d) ==
  LET fallback == FallbackIn(boot, d.placement)
  IN IF fallback # NoFallback THEN Divert(boot, fallback)
     ELSE IF d.placement = boot.defaultPlacement THEN d
     ELSE Divert(boot, boot.defaultPlacement)

(* ServeHTTP routes a request...                                           *)
Request(r, k) ==
  /\ boot # NoConfig
  /\ LoadTable(r, k)
  /\ sent' = [sent EXCEPT ![r] = Nothing]
  /\ UNCHANGED boot

Route(r) ==
  /\ LoadEndpoints(r) \/ Decide(r)
  /\ UNCHANGED <<boot, sent>>

(* ...and, unless it is refused, sends it to the cell decided on or to one *)
(* it fails over to.  A checker knows the placements of the boot only.     *)
Send(r) ==
  /\ Serving
  /\ step[r] = "decided" /\ answer[r] # NoRoute
  /\ sent[r] = Nothing
  /\ \E opens \in BOOLEAN, unhealthy \in SUBSET DOMAIN Endpoints(boot) :
       LET decision == [placement |-> answer[r].placement, url |-> answer[r].url]
           passed == IF opens THEN Opened(decision) ELSE decision
       IN /\ passed # Nothing
          /\ sent' = [sent EXCEPT ![r] =
               IF passed.placement \in unhealthy THEN Ailing(passed) ELSE passed]
  /\ UNCHANGED <<routerVars, boot>>

GatewayNext ==
  \/ NewHandler
  \/ \E r \in Callers :
       \/ \E k \in Keys : Request(r, k)
       \/ Route(r)
       \/ Send(r)
  \/ Reconfigure /\ UNCHANGED <<boot, sent>>

GatewaySpec == GatewayInit /\ [][GatewayNext]_gatewayVars

(* A request is at most once sent, to a placement, and only once there is  *)
(* a handler.                                                              *)
GatewayTypeOK ==
  /\ RouterTypeOK
  /\ boot \in {NoConfig} \union Contents \union {Snapshot(c) : c \in Broadcasts}
  /\ boot = NoConfig => \A r \in Callers : step[r] = "idle" /\ sent[r] = Nothing
  /\ boot # NoConfig => stage \notin {"start", "parsed"}
  /\ \A r \in Callers : sent[r] # Nothing => step[r] = "decided"

(***************************************************************************)
(* No request is sent off without an endpoint: whichever configuration     *)
(* became that of the handler, and whatever was reloaded or pushed since,  *)
(* each failover finds in it an endpoint for where it goes, although the   *)
(* placement it comes from may be one the handler has never heard of.      *)
(***************************************************************************)
FailoversHaveEndpoints ==
  \A r \in Callers : sent[r] # Nothing => sent[r].url # NoUrl

(***************************************************************************)
(* Route never pairs a placement with an endpoint of another time: even a  *)
(* decision torn between two configurations sends to the endpoint that one *)
(* configuration in force during the call has for the placement.           *)
(***************************************************************************)
EndpointsOfOneConfig ==
  \A r \in Callers : step[r] = "decided" /\ answer[r] # NoRoute =>
    \E c \in seen[r] :
      /\ answer[r].placement \in DOMAIN c.cellEndpoints
      /\ answer[r].url = c.cellEndpoints[answer[r].placement]
=============================================================================
