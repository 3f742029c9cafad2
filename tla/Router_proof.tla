---------------------------- MODULE Router_proof ----------------------------
(***************************************************************************)
(* What routing, and the router process around it, guarantee while the     *)
(* configuration is being replaced, for every number of callers, every set *)
(* of configurations and every schedule of reloads and pushes.             *)
(***************************************************************************)
EXTENDS Gateway, ConfigLoader_proof, TLAPS

(* The callers' variables are functions of the callers.                    *)
CallsShaped ==
  /\ step \in [Callers -> CallSteps]
  /\ asked = [r \in Callers |-> asked[r]]
  /\ table = [r \in Callers |-> table[r]]
  /\ endpoints = [r \in Callers |-> endpoints[r]]
  /\ answer = [r \in Callers |-> answer[r]]
  /\ seen = [r \in Callers |-> seen[r]]

(* What a call loaded, and what it would load now, is in its history.      *)
LoadedFromSeen ==
  \A r \in Callers :
    /\ step[r] \in {"table", "endpoints"} => table[r] \in seen[r] /\ active \in seen[r]
    /\ step[r] = "endpoints" => endpoints[r] \in seen[r]

LEMMA CallsStart == RouterInit => CallsShaped /\ LoadedFromSeen
BY DEF RouterInit, CallsShaped, LoadedFromSeen, CallSteps

LEMMA CallsStayShaped ==
  CallsShaped /\ LoadedFromSeen /\ [RouterNext]_routerVars
    => (CallsShaped /\ LoadedFromSeen)'
<1> SUFFICES ASSUME CallsShaped, LoadedFromSeen, [RouterNext]_routerVars
             PROVE  (CallsShaped /\ LoadedFromSeen)'
  OBVIOUS
<1> USE DEF CallsShaped, LoadedFromSeen, CallSteps
<1>1. CASE Reconfigure
  BY <1>1 DEF Reconfigure, callVars
<1>2. ASSUME NEW r \in Callers, NEW k \in Keys, LoadTable(r, k)
      PROVE  (CallsShaped /\ LoadedFromSeen)'
  BY <1>2 DEF LoadTable, loaderVars
<1>3. ASSUME NEW r \in Callers, LoadEndpoints(r)
      PROVE  (CallsShaped /\ LoadedFromSeen)'
  BY <1>3 DEF LoadEndpoints, loaderVars
<1>4. ASSUME NEW r \in Callers, Decide(r)
      PROVE  (CallsShaped /\ LoadedFromSeen)'
  BY <1>4 DEF Decide, loaderVars
<1>5. CASE UNCHANGED routerVars
  BY <1>5 DEF routerVars, loaderVars, callVars
<1> QED
  BY <1>1, <1>2, <1>3, <1>4, <1>5 DEF RouterNext

(***************************************************************************)
(* Three configurations any two of which differ in one part at most: one   *)
(* of them has the table of the first, the endpoints of the second and the *)
(* default of the third.                                                   *)
(***************************************************************************)
LEMMA OneHasAllParts ==
  ASSUME NEW t, NEW e, NEW f, NEW k,
         SameButOnePart(t, e), SameButOnePart(t, f), SameButOnePart(e, f)
  PROVE  \E c \in {t, e, f} :
           Lookup(t.routingTable, e.cellEndpoints, f.defaultPlacement, k) = Provided(c, k)
<1>1. \E c \in {t, e, f} : /\ c.routingTable = t.routingTable
                          /\ c.cellEndpoints = e.cellEndpoints
                          /\ c.defaultPlacement = f.defaultPlacement
  BY DEF SameButOnePart
<1> QED
  BY <1>1 DEF Provided

LEMMA DecisionsStayAtomic ==
  CallsShaped /\ LoadedFromSeen /\ PartsChangeAtomically /\ [RouterNext]_routerVars
    => PartsChangeAtomically'
<1> SUFFICES ASSUME CallsShaped, LoadedFromSeen, PartsChangeAtomically,
                    [RouterNext]_routerVars,
                    NEW q \in Callers, step'[q] = "decided",
                    \A c, d \in seen'[q] : SameButOnePart(c, d)
             PROVE  \E c \in seen'[q] : answer'[q] = Provided(c, asked'[q])
  BY DEF PartsChangeAtomically
<1> DEFINE Kept == /\ step[q] = "decided" /\ seen'[q] = seen[q]
                   /\ answer'[q] = answer[q] /\ asked'[q] = asked[q]
<1>1. Kept => \E c \in seen'[q] : answer'[q] = Provided(c, asked'[q])
  BY DEF PartsChangeAtomically
<1>2. CASE Reconfigure
  <2>1. Kept
    BY <1>2 DEF Reconfigure, callVars, CallsShaped
  <2> QED
    BY <2>1, <1>1
<1>3. ASSUME NEW r \in Callers, NEW k \in Keys, LoadTable(r, k)
      PROVE  Kept
  BY <1>3 DEF LoadTable, CallsShaped
<1>4. ASSUME NEW r \in Callers, LoadEndpoints(r)
      PROVE  Kept
  BY <1>4 DEF LoadEndpoints, CallsShaped
<1>5. ASSUME NEW r \in Callers, Decide(r), r # q
      PROVE  Kept
  BY <1>5 DEF Decide, CallsShaped
<1>6. CASE Decide(q)
  <2>1. /\ table[q] \in seen[q] /\ endpoints[q] \in seen[q] /\ active \in seen[q]
        /\ seen'[q] = seen[q] /\ asked'[q] = asked[q]
    BY <1>6 DEF Decide, LoadedFromSeen
  <2>2. answer'[q] = Lookup(table[q].routingTable, endpoints[q].cellEndpoints,
                            active.defaultPlacement, asked[q])
    BY <1>6 DEF Decide, CallsShaped
  <2>3. /\ SameButOnePart(table[q], endpoints[q])
        /\ SameButOnePart(table[q], active)
        /\ SameButOnePart(endpoints[q], active)
    BY <2>1
  <2>4. \E c \in {table[q], endpoints[q], active} : answer'[q] = Provided(c, asked[q])
    BY <2>2, <2>3, OneHasAllParts
  <2> QED
    BY <2>1, <2>4
<1>7. CASE UNCHANGED routerVars
  BY <1>7, <1>1 DEF routerVars, callVars
<1> HIDE DEF Kept
<1> QED
  BY <1>1, <1>2, <1>3, <1>4, <1>5, <1>6, <1>7 DEF RouterNext

(***************************************************************************)
(* A call of Route during which the configurations in force differ in one  *)
(* part only decides as one of them does, although it loads the three      *)
(* parts separately (router.go Route): an edit of the routing table alone  *)
(* is seen atomically.                                                     *)
(***************************************************************************)
THEOREM SinglePartEditsAtomic == RouterSpec => []PartsChangeAtomically
<1>1. RouterInit => PartsChangeAtomically
  BY DEF RouterInit, PartsChangeAtomically
<1> QED
  BY <1>1, CallsStart, CallsStayShaped, DecisionsStayAtomic, PTL DEF RouterSpec

(***************************************************************************)
(* Rollouts.  The configuration in force is valid and the file covers it,  *)
(* so that the next reload withdraws no endpoint.                          *)
(***************************************************************************)
FileGrows ==
  /\ stage \in LoaderStages
  /\ stage \in {"parsed", "ready", "changed"} => file \in Contents
  /\ stage = "parsed" => read \in Contents /\ Valid(read) /\ Covers(read, file)
  /\ Serving => active \in Contents /\ Valid(active) /\ Covers(active, file)

(* LoadInitial has returned.                                               *)
Loaded == {"ready", "changed", "failed", "stopped"}

(* What a call has loaded is covered by what it loads next.                *)
LoadsCovered ==
  \A r \in Callers :
    /\ step[r] # "idle" => stage \in Loaded
    /\ step[r] \in {"table", "endpoints"} => table[r] \in Contents /\ Valid(table[r])
    /\ step[r] = "table" => Covers(table[r], active)
    /\ step[r] = "endpoints" => endpoints[r] \in Contents /\ Covers(table[r], endpoints[r])

LEMMA RolloutStarts == RouterInit => FileGrows /\ LoadsCovered
BY DEF RouterInit, LoaderInit, FileGrows, LoadsCovered, LoaderStages, Serving

LEMMA LoaderGrows ==
  ASSUME OnlyRollouts, FileGrows, [LoaderNext]_loaderVars
  PROVE  /\ FileGrows'
         /\ Serving => Covers(active, active')
         /\ stage \in Loaded =>
              stage' \in Loaded
         /\ stage \in {"failed", "stopped"} => active' = active
<1> USE DEF FileGrows, Serving, LoaderStages, Loaded, Covers
<1>1. CASE Edit
  <2>1. UNCHANGED <<stage, read, active>> /\ <<file, file'>> \in Edits
    BY <1>1 DEF Edit
  <2>2. file' \in Contents /\ Covers(file, file')
    BY <2>1 DEF OnlyRollouts
  <2> QED
    BY <2>1, <2>2
<1>2. CASE InitialRead
  BY <1>2 DEF InitialRead, Fail
<1>3. CASE InitialChecksum
  BY <1>3 DEF InitialChecksum, Fail
<1>4. CASE Compare
  BY <1>4 DEF Compare
<1>5. CASE Reload
  BY <1>5 DEF Reload, Fail
<1>6. CASE \E c \in Broadcasts : ApplyConfig(c)
  BY <1>6 DEF ApplyConfig, OnlyRollouts
<1>7. CASE LoopReturns
  BY <1>7 DEF LoopReturns
<1>8. CASE UNCHANGED loaderVars
  BY <1>8 DEF loaderVars
<1> QED
  BY <1>1, <1>2, <1>3, <1>4, <1>5, <1>6, <1>7, <1>8 DEF LoaderNext

LEMMA RouterSteps ==
  [RouterNext]_routerVars => [LoaderNext]_loaderVars
BY DEF RouterNext, Reconfigure, LoadTable, LoadEndpoints, Decide, routerVars

LEMMA LoadsStayCovered ==
  ASSUME OnlyRollouts, CallsShaped, FileGrows, LoadsCovered, [RouterNext]_routerVars
  PROVE  LoadsCovered'
<1>0. /\ Serving => Covers(active, active')
      /\ stage \in Loaded =>
           stage' \in Loaded
      /\ stage \in {"failed", "stopped"} => active' = active
  BY RouterSteps, LoaderGrows
<1> USE DEF CallsShaped, LoadsCovered, Serving, Loaded, FileGrows
<1>1. CASE Reconfigure
  <2>1. UNCHANGED <<step, table, endpoints>>
    BY <1>1 DEF Reconfigure, callVars
  <2> QED
    BY <2>1, <1>0 DEF Covers
<1>2. ASSUME NEW r \in Callers, NEW k \in Keys, LoadTable(r, k)
      PROVE  LoadsCovered'
  BY <1>2 DEF LoadTable, loaderVars, Covers
<1>3. ASSUME NEW r \in Callers, LoadEndpoints(r)
      PROVE  LoadsCovered'
  BY <1>3 DEF LoadEndpoints, loaderVars
<1>4. ASSUME NEW r \in Callers, Decide(r)
      PROVE  LoadsCovered'
  BY <1>4 DEF Decide, loaderVars
<1>5. CASE UNCHANGED routerVars
  BY <1>5 DEF routerVars, loaderVars, callVars
<1> QED
  BY <1>1, <1>2, <1>3, <1>4, <1>5 DEF RouterNext

LEMMA RolloutDecisionsRoute ==
  ASSUME OnlyRollouts, \A p, u, w : NoRoute # [placement |-> p, url |-> u, reason |-> w],
         CallsShaped, FileGrows, LoadsCovered, RolloutsKeepRouting, [RouterNext]_routerVars
  PROVE  RolloutsKeepRouting'
<1> USE DEF CallsShaped, RolloutsKeepRouting
<1>1. CASE Reconfigure
  BY <1>1 DEF Reconfigure, callVars
<1>2. ASSUME NEW r \in Callers, NEW k \in Keys, LoadTable(r, k)
      PROVE  RolloutsKeepRouting'
  BY <1>2 DEF LoadTable
<1>3. ASSUME NEW r \in Callers, LoadEndpoints(r)
      PROVE  RolloutsKeepRouting'
  BY <1>3 DEF LoadEndpoints
<1>4. ASSUME NEW r \in Callers, Decide(r)
      PROVE  RolloutsKeepRouting'
  <2> DEFINE t == table[r]
             e == endpoints[r]
  <2>1. t \in Contents /\ Valid(t) /\ e \in Contents /\ Covers(t, e) /\ active \in Contents
    BY <1>4 DEF Decide, LoadsCovered, FileGrows
  <2>2. \A k \in DOMAIN t.routingTable : t.routingTable[k] \in DOMAIN e.cellEndpoints
    BY <2>1 DEF OnlyRollouts, Valid, TableValid, Endpoints, Covers
  <2>3. active.defaultPlacement \in DOMAIN e.cellEndpoints
    BY <2>1 DEF OnlyRollouts
  <2>4. Lookup(t.routingTable, e.cellEndpoints, active.defaultPlacement, asked[r]) # NoRoute
    BY <2>2, <2>3 DEF Lookup
  <2>5. answer'[r] # NoRoute
    BY <1>4, <2>4 DEF Decide
  <2> QED
    BY <1>4, <2>5 DEF Decide
<1>5. CASE UNCHANGED routerVars
  BY <1>5 DEF routerVars, callVars
<1> QED
  BY <1>1, <1>2, <1>3, <1>4, <1>5 DEF RouterNext

(***************************************************************************)
(* While edits of the file never withdraw an endpoint, and never make a    *)
(* default of a placement some version of the file has no endpoint for,    *)
(* every call of Route finds an endpoint, wherever reloads fall among its  *)
(* three loads (router.go Route against loader.go tryReload).              *)
(***************************************************************************)
THEOREM RolloutsAreSafe ==
  ASSUME OnlyRollouts, \A p, u, w : NoRoute # [placement |-> p, url |-> u, reason |-> w]
  PROVE  RouterSpec => []RolloutsKeepRouting
<1> DEFINE Inv == /\ CallsShaped /\ LoadedFromSeen
                  /\ FileGrows /\ LoadsCovered /\ RolloutsKeepRouting
<1>1. RouterInit => Inv
  BY CallsStart, RolloutStarts DEF RouterInit, RolloutsKeepRouting
<1>2. Inv /\ [RouterNext]_routerVars => Inv'
  <2> SUFFICES ASSUME Inv, [RouterNext]_routerVars
               PROVE  Inv'
    OBVIOUS
  <2>1. CallsShaped' /\ LoadedFromSeen'
    BY CallsStayShaped
  <2>2. FileGrows'
    BY RouterSteps, LoaderGrows
  <2>3. LoadsCovered'
    BY LoadsStayCovered
  <2>4. RolloutsKeepRouting'
    BY RolloutDecisionsRoute
  <2> QED
    BY <2>1, <2>2, <2>3, <2>4
<1>3. Inv => RolloutsKeepRouting
  OBVIOUS
<1> QED
  BY <1>1, <1>2, <1>3, PTL DEF RouterSpec

(***************************************************************************)
(* Type correctness of the router: what the loader guarantees is kept, and *)
(* a call that has loaded its table has it in its history.                 *)
(***************************************************************************)
TableSeen ==
  /\ asked \in [Callers -> Keys \union {EmptyKey}]
  /\ \A r \in Callers : step[r] # "idle" => table[r] \in seen[r]

TypesKept == LoaderTypeOK /\ GoodInHand /\ CallsShaped /\ TableSeen

LEMMA TypesStart == RouterInit => TypesKept
BY LoaderStarts, CallsStart
   DEF RouterInit, TypesKept, TableSeen, CallSteps, LoaderInit, LoaderTypeOK, LoaderStages

LEMMA TypesStay ==
  TypesKept /\ LoadedFromSeen /\ [RouterNext]_routerVars => TypesKept'
<1> SUFFICES ASSUME TypesKept, LoadedFromSeen, [RouterNext]_routerVars
             PROVE  TypesKept'
  OBVIOUS
<1>1. LoaderTypeOK' /\ GoodInHand'
  BY RouterSteps, LoaderStaysTyped, LoaderKeepsGood DEF TypesKept
<1>2. CallsShaped'
  BY CallsStayShaped DEF TypesKept
<1>3. TableSeen'
  <2> USE DEF TypesKept, TableSeen, CallsShaped, CallSteps
  <2>1. CASE Reconfigure
    BY <2>1 DEF Reconfigure, callVars
  <2>2. ASSUME NEW r \in Callers, NEW k \in Keys, LoadTable(r, k)
        PROVE  TableSeen'
    BY <2>2 DEF LoadTable
  <2>3. ASSUME NEW r \in Callers, LoadEndpoints(r)
        PROVE  TableSeen'
    BY <2>3 DEF LoadEndpoints
  <2>4. ASSUME NEW r \in Callers, Decide(r)
        PROVE  TableSeen'
    BY <2>4 DEF Decide
  <2>5. CASE UNCHANGED routerVars
    BY <2>5 DEF routerVars, callVars
  <2> QED
    BY <2>1, <2>2, <2>3, <2>4, <2>5 DEF RouterNext
<1> QED
  BY <1>1, <1>2, <1>3 DEF TypesKept

THEOREM RouterTypeCorrect == RouterSpec => []RouterTypeOK
<1>1. TypesKept => RouterTypeOK
  BY DEF TypesKept, RouterTypeOK, TableSeen, CallsShaped
<1> QED
  BY <1>1, TypesStart, TypesStay, CallsStart, CallsStayShaped, PTL DEF RouterSpec

(***************************************************************************)
(* A configuration that has its endpoints in its placements is accepted    *)
(* and, served by the loader, routes no key: GetCellEndpoints of the       *)
(* loader (loader.go) returns the legacy field of the file, not what       *)
(* Config.GetCellEndpoints makes of it.                                    *)
(***************************************************************************)
THEOREM PlacementsFormatNeverRoutes ==
  ASSUME NEW c, ~LegacyFormat(c), NEW k
  PROVE  Provided(c, k) = NoRoute
BY DEF LegacyFormat, Provided, Lookup

(***************************************************************************)
(* The router process.                                                     *)
(***************************************************************************)
LEMMA GatewaySteps == [GatewayNext]_gatewayVars => [RouterNext]_routerVars
BY DEF GatewayNext, gatewayVars, NewHandler, Request, Route, Send, RouterNext

(***************************************************************************)
(* The process routes as Router does: what is proved of routing holds in   *)
(* it, whenever the handler is built and wherever requests are sent.       *)
(***************************************************************************)
THEOREM GatewayImplementsRouter == GatewaySpec => RouterSpec
<1>1. GatewayInit => RouterInit
  BY DEF GatewayInit
<1> QED
  BY <1>1, GatewaySteps, PTL DEF GatewaySpec, RouterSpec

(* A configuration a handler may be built from finds an endpoint for each  *)
(* fallback and, if it has any endpoint, for its default; and none of its  *)
(* endpoints is empty.                                                     *)
Sound(c) ==
  /\ \A p \in DOMAIN c.placements :
       c.placements[p].fallback \in DOMAIN Endpoints(c) \union {NoFallback}
  /\ DOMAIN Endpoints(c) # {} => c.defaultPlacement \in DOMAIN Endpoints(c)
  /\ \A p \in DOMAIN Endpoints(c) : Endpoints(c)[p] # NoUrl

LEMMA ValidIsSound ==
  ASSUME NEW c \in Contents \union Broadcasts, Valid(c)
  PROVE  Sound(c)
<1>1. \A p \in DOMAIN c.placements : c.placements[p] # Null /\ ~Faulty(c, p)
  BY DEF Valid, NullPlacements
<1>2. \A p \in DOMAIN Endpoints(c) : Endpoints(c)[p] # NoUrl
  BY GatewayAssumption
<1> QED
  BY <1>1, <1>2 DEF Sound, Faulty, Valid, TableValid

LEMMA SnapshotIsSound ==
  ASSUME NEW c \in Broadcasts
  PROVE  Sound(Snapshot(c))
<1>1. PICK s : s = Snapshot(c)
  OBVIOUS
<1>2. /\ s.cellEndpoints = c.cellEndpoints
      /\ s.defaultPlacement = c.defaultPlacement
      /\ s.placements = [p \in {} |-> Null]
  BY <1>1, LoaderAssumption DEF Snapshot, IsConfig
<1>3. Sound(c)
  BY LoaderAssumption, ValidIsSound
<1>4. CASE LegacyFormat(c)
  <2>1. Endpoints(s) = Endpoints(c)
    BY <1>2, <1>4 DEF Endpoints, LegacyFormat
  <2> QED
    BY <1>1, <1>2, <1>3, <2>1 DEF Sound
<1>5. CASE ~LegacyFormat(c)
  <2>1. DOMAIN Endpoints(s) = {}
    BY <1>2, <1>5 DEF Endpoints, LegacyFormat
  <2> QED
    BY <1>1, <1>2, <2>1 DEF Sound
<1> QED
  BY <1>4, <1>5

(* What is in force is sound, so the handler's configuration is.           *)
ActiveSound ==
  /\ stage = "parsed" => Sound(read)
  /\ active # NoConfig => Sound(active)

BootSound == boot # NoConfig => Sound(boot)

LEMMA ActiveStaysSound ==
  GoodInHand /\ ActiveSound /\ [LoaderNext]_loaderVars => ActiveSound'
<1> SUFFICES ASSUME GoodInHand, ActiveSound, [LoaderNext]_loaderVars
             PROVE  ActiveSound'
  OBVIOUS
<1> USE DEF ActiveSound
<1>1. CASE Edit
  BY <1>1 DEF Edit
<1>2. CASE InitialRead
  BY <1>2, ValidIsSound DEF InitialRead, Fail
<1>3. CASE InitialChecksum
  BY <1>3 DEF InitialChecksum, Fail
<1>4. CASE Compare \/ LoopReturns
  BY <1>4 DEF Compare, LoopReturns
<1>5. CASE Reload
  BY <1>5, ValidIsSound DEF Reload, Fail
<1>6. CASE \E c \in Broadcasts : ApplyConfig(c)
  BY <1>6, SnapshotIsSound DEF ApplyConfig
<1>7. CASE UNCHANGED loaderVars
  BY <1>7 DEF loaderVars
<1> QED
  BY <1>1, <1>2, <1>3, <1>4, <1>5, <1>6, <1>7 DEF LoaderNext

LEMMA BootStaysSound ==
  ActiveSound /\ BootSound /\ [GatewayNext]_gatewayVars => BootSound'
<1> SUFFICES ASSUME ActiveSound, BootSound, [GatewayNext]_gatewayVars
             PROVE  BootSound'
  OBVIOUS
<1>1. boot' = boot \/ boot' = active
  BY DEF GatewayNext, gatewayVars, NewHandler, Request, Route, Send
<1> QED
  BY <1>1 DEF ActiveSound, BootSound

(* The endpoints a call has loaded, and those it has answered with.        *)
UrlsLoaded ==
  \A r \in Callers :
    /\ step[r] = "endpoints" =>
         \A p \in DOMAIN endpoints[r].cellEndpoints : endpoints[r].cellEndpoints[p] # NoUrl
    /\ step[r] = "decided" /\ answer[r] # NoRoute => answer[r].url # NoUrl

LEMMA CellEndpointsNamed ==
  ASSUME LoaderTypeOK, active # NoConfig
  PROVE  \A p \in DOMAIN active.cellEndpoints : active.cellEndpoints[p] # NoUrl
<1>1. ASSUME NEW c \in Contents \union Broadcasts
      PROVE  \A p \in DOMAIN c.cellEndpoints : c.cellEndpoints[p] # NoUrl
  BY GatewayAssumption DEF Endpoints, LegacyFormat
<1>2. CASE active \in Contents
  BY <1>1, <1>2
<1>3. ASSUME NEW c \in Broadcasts, active = Snapshot(c)
      PROVE  \A p \in DOMAIN active.cellEndpoints : active.cellEndpoints[p] # NoUrl
  <2>1. active.cellEndpoints = c.cellEndpoints
    BY <1>3, LoaderAssumption DEF Snapshot, IsConfig
  <2> QED
    BY <1>1, <2>1
<1> QED
  BY <1>2, <1>3 DEF LoaderTypeOK

(* Whoever serves has a configuration.                                     *)
ServingHasConfig == stage \in Loaded \ {"failed"} => active # NoConfig

LEMMA ServedStays ==
  GoodInHand /\ ServingHasConfig /\ [LoaderNext]_loaderVars => ServingHasConfig'
<1> SUFFICES ASSUME GoodInHand, ServingHasConfig, [LoaderNext]_loaderVars
             PROVE  ServingHasConfig'
  OBVIOUS
<1> USE LoaderAssumption DEF ServingHasConfig, GoodInHand, Loaded
<1>1. CASE Edit \/ InitialRead
  BY <1>1 DEF Edit, InitialRead, Fail
<1>2. CASE InitialChecksum
  BY <1>2 DEF InitialChecksum, Fail
<1>3. CASE Compare \/ Reload \/ LoopReturns
  BY <1>3 DEF Compare, Reload, LoopReturns, Fail
<1>4. CASE \E c \in Broadcasts : ApplyConfig(c)
  BY <1>4 DEF ApplyConfig
<1>5. CASE UNCHANGED loaderVars
  BY <1>5 DEF loaderVars
<1> QED
  BY <1>1, <1>2, <1>3, <1>4, <1>5 DEF LoaderNext

LEMMA UrlsStayLoaded ==
  ASSUME LoaderTypeOK, CallsShaped, ServingHasConfig, UrlsLoaded,
         [RouterNext]_routerVars
  PROVE  UrlsLoaded'
<1> USE DEF CallsShaped, UrlsLoaded
<1>1. CASE Reconfigure
  BY <1>1 DEF Reconfigure, callVars
<1>2. ASSUME NEW r \in Callers, NEW k \in Keys, LoadTable(r, k)
      PROVE  UrlsLoaded'
  BY <1>2 DEF LoadTable
<1>3. ASSUME NEW r \in Callers, LoadEndpoints(r)
      PROVE  UrlsLoaded'
  <2>1. \A p \in DOMAIN active.cellEndpoints : active.cellEndpoints[p] # NoUrl
    BY <1>3, CellEndpointsNamed DEF LoadEndpoints, Serving, ServingHasConfig, Loaded
  <2> QED
    BY <1>3, <2>1 DEF LoadEndpoints
<1>4. ASSUME NEW r \in Callers, Decide(r)
      PROVE  UrlsLoaded'
  <2> DEFINE e == endpoints[r].cellEndpoints
  <2>1. answer'[r] # NoRoute => \E p \in DOMAIN e : answer'[r].url = e[p]
    BY <1>4 DEF Decide, Lookup
  <2>2. \A p \in DOMAIN e : e[p] # NoUrl
    BY <1>4 DEF Decide
  <2>3. answer'[r] # NoRoute => answer'[r].url # NoUrl
    BY <2>1, <2>2
  <2> QED
    BY <1>4, <2>3 DEF Decide
<1>5. CASE UNCHANGED routerVars
  BY <1>5 DEF routerVars, callVars
<1> QED
  BY <1>1, <1>2, <1>3, <1>4, <1>5 DEF RouterNext

LEMMA FallbacksHaveEndpoints ==
  ASSUME Sound(boot), NEW p, FallbackIn(boot, p) # NoFallback
  PROVE  Divert(boot, FallbackIn(boot, p)).url # NoUrl
<1>1. FallbackIn(boot, p) \in DOMAIN Endpoints(boot)
  BY DEF FallbackIn, Sound
<1> QED
  BY <1>1 DEF Divert, Sound

(* Send sends with an endpoint.                                            *)
LEMMA SendHasEndpoint ==
  ASSUME BootSound, UrlsLoaded, boot # NoConfig, NEW r \in Callers, Send(r),
         sent = [q \in Callers |-> sent[q]]
  PROVE  sent'[r].url # NoUrl
<1> DEFINE d == [placement |-> answer[r].placement, url |-> answer[r].url]
<1>1. PICK opens \in BOOLEAN, unhealthy \in SUBSET DOMAIN Endpoints(boot) :
        LET passed == IF opens THEN Opened(d) ELSE d
        IN /\ passed # Nothing
           /\ sent' = [sent EXCEPT ![r] =
                IF passed.placement \in unhealthy THEN Ailing(passed) ELSE passed]
  BY DEF Send
<1> DEFINE passed == IF opens THEN Opened(d) ELSE d
<1>2. Sound(boot)
  BY DEF BootSound
<1>3. d.url # NoUrl
  BY DEF Send, UrlsLoaded
<1>4. passed # Nothing /\ (passed = d \/ passed = Opened(d))
  BY <1>1
<1>5. passed.url # NoUrl
  BY <1>2, <1>3, <1>4, FallbacksHaveEndpoints DEF Opened
<1>6. sent'[r] = IF passed.placement \in unhealthy THEN Ailing(passed) ELSE passed
  BY <1>1
<1> HIDE DEF d, passed
<1>7. ASSUME passed.placement \in unhealthy
      PROVE  Ailing(passed).url # NoUrl
  <2>1. boot.defaultPlacement \in DOMAIN Endpoints(boot)
    BY <1>2, <1>7 DEF Sound
  <2>2. Divert(boot, boot.defaultPlacement).url # NoUrl
    BY <1>2, <2>1 DEF Divert, Sound
  <2> QED
    BY <1>2, <1>5, <2>2, FallbacksHaveEndpoints DEF Ailing
<1> QED
  BY <1>5, <1>6, <1>7

(* The inductive invariant of the process.                                 *)
GatewayInv ==
  /\ TypesKept
  /\ LoadedFromSeen
  /\ ActiveSound
  /\ ServingHasConfig
  /\ UrlsLoaded
  /\ BootSound
  /\ sent = [r \in Callers |-> sent[r]]
  /\ GatewayTypeOK
  /\ FailoversHaveEndpoints

LEMMA GatewayStarts == GatewayInit => GatewayInv
<1> SUFFICES ASSUME GatewayInit PROVE GatewayInv
  OBVIOUS
<1>1. TypesKept /\ CallsShaped /\ LoadedFromSeen /\ RouterTypeOK
  BY TypesStart, CallsStart
     DEF GatewayInit, TypesKept, RouterTypeOK, TableSeen, CallsShaped
<1>2. /\ stage = "start" /\ active = NoConfig /\ boot = NoConfig
      /\ step = [r \in Callers |-> "idle"] /\ sent = [r \in Callers |-> Nothing]
  BY DEF GatewayInit, RouterInit, LoaderInit
<1> QED
  BY <1>1, <1>2 DEF GatewayInv, GatewayTypeOK, FailoversHaveEndpoints, UrlsLoaded,
     ActiveSound, BootSound, ServingHasConfig, Loaded

LEMMA ServingEnds ==
  ASSUME LoaderTypeOK, [LoaderNext]_loaderVars, stage \in Loaded
  PROVE  stage' \in Loaded
BY DEF LoaderNext, loaderVars, Edit, InitialRead, InitialChecksum, Compare, Reload,
       LoopReturns, ApplyConfig, Fail, Loaded

LEMMA GatewayTypesStay ==
  ASSUME GatewayInv, [GatewayNext]_gatewayVars, TypesKept'
  PROVE  GatewayTypeOK'
<1>1. RouterTypeOK'
  BY DEF TypesKept, RouterTypeOK, TableSeen, CallsShaped
<1>2. [LoaderNext]_loaderVars
  BY GatewaySteps, RouterSteps
<1> USE DEF GatewayInv, TypesKept, CallsShaped, GatewayTypeOK, Serving
<1>3. LoaderTypeOK /\ (stage \in Loaded <=> stage \notin {"start", "parsed"})
  BY DEF LoaderTypeOK, LoaderStages, Loaded
<1>4. stage \in Loaded => stage' \in Loaded
  BY <1>2, <1>3, ServingEnds
<1>5. (stage \in Loaded => stage' \notin {"start", "parsed"})
  BY <1>4 DEF Loaded
<1>6. CASE NewHandler
  <2>1. boot' = active /\ boot = NoConfig /\ UNCHANGED <<routerVars, sent>> /\ Serving
    BY <1>6 DEF NewHandler
  <2>2. active # NoConfig /\ stage' = stage
    BY <2>1 DEF ServingHasConfig, Loaded, routerVars, loaderVars
  <2>3. UNCHANGED <<step, sent>>
    BY <2>1 DEF routerVars, callVars
  <2> QED
    BY <1>1, <2>1, <2>2, <2>3 DEF LoaderTypeOK
<1>7. ASSUME NEW r \in Callers, NEW k \in Keys, Request(r, k)
      PROVE  GatewayTypeOK'
  BY <1>1, <1>7 DEF Request, LoadTable, loaderVars
<1>8. ASSUME NEW r \in Callers, Route(r)
      PROVE  GatewayTypeOK'
  <2>1. UNCHANGED <<boot, sent, stage>> /\ step[r] \in {"table", "endpoints"}
    BY <1>8 DEF Route, LoadEndpoints, Decide, loaderVars
  <2>2. \A q \in Callers : q # r => step'[q] = step[q]
    BY <1>8 DEF Route, LoadEndpoints, Decide
  <2> QED
    BY <1>1, <2>1, <2>2
<1>9. ASSUME NEW r \in Callers, Send(r)
      PROVE  GatewayTypeOK'
  <2>1. /\ UNCHANGED <<boot, step, stage>> /\ step[r] = "decided"
        /\ \A q \in Callers : q # r => sent'[q] = sent[q]
    BY <1>9 DEF Send, routerVars, callVars, loaderVars
  <2> QED
    BY <1>1, <2>1
<1>10. CASE Reconfigure /\ UNCHANGED <<boot, sent>>
  <2>1. UNCHANGED <<step, boot, sent>>
    BY <1>10 DEF Reconfigure, callVars
  <2> QED
    BY <1>1, <1>3, <1>5, <2>1
<1>11. CASE UNCHANGED gatewayVars
  <2>1. UNCHANGED <<step, boot, sent, stage>>
    BY <1>11 DEF gatewayVars, routerVars, callVars, loaderVars
  <2> QED
    BY <1>1, <2>1
<1> QED
  BY <1>6, <1>7, <1>8, <1>9, <1>10, <1>11 DEF GatewayNext

LEMMA GatewayKept == GatewayInv /\ [GatewayNext]_gatewayVars => GatewayInv'
<1> SUFFICES ASSUME GatewayInv, [GatewayNext]_gatewayVars
             PROVE  GatewayInv'
  OBVIOUS
<1>1. [RouterNext]_routerVars /\ [LoaderNext]_loaderVars
  BY GatewaySteps, RouterSteps
<1>2. TypesKept' /\ LoadedFromSeen'
  BY <1>1, TypesStay, CallsStayShaped DEF GatewayInv, TypesKept
<1>3. ActiveSound' /\ ServingHasConfig'
  BY <1>1, ActiveStaysSound, ServedStays DEF GatewayInv, TypesKept
<1>4. UrlsLoaded'
  BY <1>1, UrlsStayLoaded DEF GatewayInv, TypesKept
<1>5. BootSound'
  BY BootStaysSound DEF GatewayInv
<1>6. GatewayTypeOK'
  BY <1>2, GatewayTypesStay
<1>7. sent' = [r \in Callers |-> sent'[r]] /\ FailoversHaveEndpoints'
  <2> USE DEF GatewayInv, FailoversHaveEndpoints
  <2>1. ASSUME NEW r \in Callers, NEW k \in Keys, Request(r, k)
        PROVE  sent' = [q \in Callers |-> sent'[q]] /\ FailoversHaveEndpoints'
    BY <2>1 DEF Request
  <2>2. ASSUME NEW r \in Callers, Send(r)
        PROVE  sent' = [q \in Callers |-> sent'[q]] /\ FailoversHaveEndpoints'
    <3>1. step[r] = "decided"
      BY <2>2 DEF Send
    <3>2. boot # NoConfig
      BY <3>1 DEF GatewayTypeOK
    <3>3. sent'[r].url # NoUrl
      BY <2>2, <3>2, SendHasEndpoint
    <3>4. \E s : sent' = [sent EXCEPT ![r] = s]
      BY <2>2 DEF Send
    <3> QED
      BY <3>3, <3>4
  <2>3. CASE UNCHANGED sent
    BY <2>3
  <2> QED
    BY <2>1, <2>2, <2>3 DEF GatewayNext, gatewayVars, NewHandler, Route
<1> QED
  BY <1>2, <1>3, <1>4, <1>5, <1>6, <1>7 DEF GatewayInv

(***************************************************************************)
(* Type correctness of the router process.                                 *)
(***************************************************************************)
THEOREM GatewayTypeCorrect == GatewaySpec => []GatewayTypeOK
<1>1. GatewayInv => GatewayTypeOK
  BY DEF GatewayInv
<1> QED
  BY <1>1, GatewayStarts, GatewayKept, PTL DEF GatewaySpec

(***************************************************************************)
(* Every request that is sent has an endpoint, although the failovers of   *)
(* ServeHTTP (handler.go) look it up in the configuration of the boot and  *)
(* the routing in that of the moment: in file mode and under a control     *)
(* plane, whichever configuration the handler was built from.              *)
(***************************************************************************)
THEOREM FailoversFindEndpoints == GatewaySpec => []FailoversHaveEndpoints
<1>1. GatewayInv => FailoversHaveEndpoints
  BY DEF GatewayInv
<1> QED
  BY <1>1, GatewayStarts, GatewayKept, PTL DEF GatewaySpec

LEMMA EndpointsStayOfOneConfig ==
  ASSUME GatewayInv, EndpointsOfOneConfig, [RouterNext]_routerVars
  PROVE  EndpointsOfOneConfig'
<1> USE DEF EndpointsOfOneConfig, CallsShaped, GatewayInv, TypesKept
<1>1. CASE Reconfigure
  BY <1>1 DEF Reconfigure, callVars
<1>2. ASSUME NEW r \in Callers, NEW k \in Keys, LoadTable(r, k)
      PROVE  EndpointsOfOneConfig'
  BY <1>2 DEF LoadTable
<1>3. ASSUME NEW r \in Callers, LoadEndpoints(r)
      PROVE  EndpointsOfOneConfig'
  BY <1>3 DEF LoadEndpoints
<1>4. ASSUME NEW r \in Callers, Decide(r)
      PROVE  EndpointsOfOneConfig'
  <2>1. endpoints[r] \in seen[r]
    BY <1>4 DEF Decide, LoadedFromSeen
  <2>2. answer'[r] # NoRoute =>
          /\ answer'[r].placement \in DOMAIN endpoints[r].cellEndpoints
          /\ answer'[r].url = endpoints[r].cellEndpoints[answer'[r].placement]
    BY <1>4 DEF Decide, Lookup
  <2> QED
    BY <1>4, <2>1, <2>2 DEF Decide
<1>5. CASE UNCHANGED routerVars
  BY <1>5 DEF routerVars, callVars
<1> QED
  BY <1>1, <1>2, <1>3, <1>4, <1>5 DEF RouterNext

(***************************************************************************)
(* A decision torn between two configurations still pairs its placement    *)
(* with an endpoint one of them has for it: Route takes the endpoint from  *)
(* the one map it loaded (router.go).                                      *)
(***************************************************************************)
THEOREM EndpointsAreOfOneConfig == GatewaySpec => []EndpointsOfOneConfig
<1>1. GatewayInit => EndpointsOfOneConfig
  BY DEF GatewayInit, RouterInit, EndpointsOfOneConfig
<1> QED
  BY <1>1, GatewayStarts, GatewayKept, GatewaySteps, EndpointsStayOfOneConfig, PTL
     DEF GatewaySpec
=============================================================================
