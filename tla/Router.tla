------------------------------- MODULE Router -------------------------------
(***************************************************************************)
(* Routing against a loader that may swap its configuration at any moment. *)
(* Router.Route (internal/routing/router.go) asks its provider three times *)
(* and each answer is an atomic load of the configuration of that moment;  *)
(* the lookup that follows touches nothing shared.  The provider is the    *)
(* Loader, whose GetCellEndpoints returns the legacy field of the          *)
(* configuration, not what Config.GetCellEndpoints makes of it.            *)
(***************************************************************************)
EXTENDS ConfigLoader

CONSTANTS
  Callers,    \* the goroutines that may be inside Route together
  Keys        \* the routing keys they ask for

ASSUME RouterAssumption ==
  EmptyKey \notin Keys   \* the proxy handler answers a missing key itself

VARIABLES
  step,       \* what each caller has loaded last
  asked,      \* the routing key it asks for
  table,      \* the configuration it took the routing table from
  endpoints,  \* the configuration it took the endpoints from
  answer,     \* what Route returned
  seen        \* history: the configurations active since Route was called

callVars == <<step, asked, table, endpoints, answer>>
routerVars == <<loaderVars, callVars, seen>>

CallSteps == {"idle", "table", "endpoints", "decided"}

RouterInit ==
  /\ LoaderInit
  /\ step = [r \in Callers |-> "idle"]
  /\ asked = [r \in Callers |-> EmptyKey]
  /\ table = [r \in Callers |-> NoConfig]
  /\ endpoints = [r \in Callers |-> NoConfig]
  /\ answer = [r \in Callers |-> NoRoute]
  /\ seen = [r \in Callers |-> {}]

(* LoadInitial has returned and the process lives.                         *)
Serving == stage \in {"ready", "changed"}

(* A variant of LoadTable that keeps the table it has while the version of *)
(* the configuration is the same.                                          *)
LoadTableOnNewVersion(r, k) ==
  /\ Serving
  /\ step[r] \in {"idle", "decided"}
  /\ step' = [step EXCEPT ![r] = "table"]
  /\ asked' = [asked EXCEPT ![r] = k]
  /\ \/ /\ table[r] # NoConfig
        /\ table[r].version = active.version
        /\ UNCHANGED table
     \/ /\ table[r] # NoConfig => table[r].version # active.version
        /\ table' = [table EXCEPT ![r] = active]
  /\ seen' = [seen EXCEPT ![r] = {active}]
  /\ UNCHANGED <<loaderVars, endpoints, answer>>

(* Route(k) is called and loads the routing table...                       *)
LoadTable(r, k) ==
  /\ Serving
  /\ step[r] \in {"idle", "decided"}
  /\ step' = [step EXCEPT ![r] = "table"]
  /\ asked' = [asked EXCEPT ![r] = k]
  /\ table' = [table EXCEPT ![r] = active]
  /\ seen' = [seen EXCEPT ![r] = {active}]
  /\ UNCHANGED <<loaderVars, endpoints, answer>>

(* A variant of LoadEndpoints that keeps the endpoints of the last call    *)
(* while the version of the configuration is the same.                     *)
LoadEndpointsOnNewVersion(r) ==
  /\ Serving
  /\ step[r] = "table"
  /\ step' = [step EXCEPT ![r] = "endpoints"]
  /\ endpoints' = [endpoints EXCEPT ![r] =
       IF endpoints[r] # NoConfig /\ endpoints[r].version = active.version
       THEN endpoints[r] ELSE active]
  /\ UNCHANGED <<loaderVars, asked, table, answer, seen>>

(* ...then the endpoints...                                                *)
LoadEndpoints(r) ==
  /\ Serving
  /\ step[r] = "table"
  /\ step' = [step EXCEPT ![r] = "endpoints"]
  /\ endpoints' = [endpoints EXCEPT ![r] = active]
  /\ UNCHANGED <<loaderVars, asked, table, answer, seen>>

(* A variant of Decide that loads the routing table at its first use.      *)
DecideWithLateTable(r) ==
  /\ Serving
  /\ step[r] = "endpoints"
  /\ step' = [step EXCEPT ![r] = "decided"]
  /\ answer' = [answer EXCEPT ![r] =
       Lookup(active.routingTable, endpoints[r].cellEndpoints,
              active.defaultPlacement, asked[r])]
  /\ UNCHANGED <<loaderVars, asked, table, endpoints, seen>>

(* ...then the default placement, and looks the key up in what it loaded.  *)
Decide(r) ==
  /\ Serving
  /\ step[r] = "endpoints"
  /\ step' = [step EXCEPT ![r] = "decided"]
  /\ answer' = [answer EXCEPT ![r] =
       Lookup(table[r].routingTable, endpoints[r].cellEndpoints,
              active.defaultPlacement, asked[r])]
  /\ UNCHANGED <<loaderVars, asked, table, endpoints, seen>>

(* The loader moves on under the calls that are under way.                 *)
Reconfigure ==
  /\ LoaderNext
  /\ seen' = [r \in Callers |->
       IF step[r] \in {"table", "endpoints"} THEN seen[r] \union {active'} ELSE seen[r]]
  /\ UNCHANGED callVars

RouterNext ==
  \/ Reconfigure
  \/ \E r \in Callers :
       \/ \E k \in Keys : LoadTable(r, k)
       \/ LoadEndpoints(r)
       \/ Decide(r)

RouterSpec == RouterInit /\ [][RouterNext]_routerVars

RouterTypeOK ==
  /\ LoaderTypeOK
  /\ step \in [Callers -> CallSteps]
  /\ asked \in [Callers -> Keys \union {EmptyKey}]
  /\ \A r \in Callers : step[r] # "idle" => table[r] \in seen[r]

(* c and d differ in at most one of the three parts Route loads.           *)
SameButOnePart(c, d) ==
  \/ c.routingTable = d.routingTable /\ c.cellEndpoints = d.cellEndpoints
  \/ c.routingTable = d.routingTable /\ c.defaultPlacement = d.defaultPlacement
  \/ c.cellEndpoints = d.cellEndpoints /\ c.defaultPlacement = d.defaultPlacement

(* d has an endpoint for every placement c has one for.                    *)
Covers(c, d) == DOMAIN c.cellEndpoints \subseteq DOMAIN d.cellEndpoints

(* A program that follows a file of the legacy format in which edits never *)
(* withdraw an endpoint and every default has one in every version.        *)
OnlyRollouts ==
  /\ FollowsFile
  /\ Edits \subseteq Contents \X Contents
  /\ \A edit \in Edits : Covers(edit[1], edit[2])
  /\ \A c, d \in Contents : LegacyFormat(c) /\ c.defaultPlacement \in DOMAIN d.cellEndpoints

(***************************************************************************)
(* Reloads that only add or move endpoints and change assignments never    *)
(* make Route fail, whenever they come between its loads: it loads the     *)
(* table before the endpoints, so every placement it may find in the table *)
(* has an endpoint in what it loads next.                                  *)
(***************************************************************************)
RolloutsKeepRouting ==
  \A r \in Callers : step[r] = "decided" => answer[r] # NoRoute

(***************************************************************************)
(* A call during which the configurations differ in one part only decides  *)
(* as one of them does, and a call during which nothing changes decides by *)
(* the configuration in force, not by one that was loaded earlier.         *)
(***************************************************************************)
PartsChangeAtomically ==
  \A r \in Callers :
    /\ step[r] = "decided"
    /\ \A c, d \in seen[r] : SameButOnePart(c, d)
    => \E c \in seen[r] : answer[r] = Provided(c, asked[r])

(***************************************************************************)
(* Milestone 2: concurrent requests see the old or the new configuration,  *)
(* never partial: Route decides as one configuration in force during the   *)
(* call does.                                                              *)
(***************************************************************************)
DecisionFromOneConfig ==
  \A r \in Callers : step[r] = "decided" =>
    \E c \in seen[r] : answer[r] = Provided(c, asked[r])
=============================================================================
