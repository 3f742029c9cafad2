---------------------------- MODULE ProxyHandler ----------------------------
(***************************************************************************)
(* The data path of the cell router: Handler.ServeHTTP of internal/proxy   *)
(* composed with the circuit breakers, the limits manager and the health   *)
(* checkers it consults.  Every request is a goroutine; each of its        *)
(* actions spans the code between two accesses to state shared with other  *)
(* goroutines:                                                             *)
(*                                                                         *)
(*   arrived     routed to key, before limitsManager.TryAcquire(key)       *)
(*   admitted    holds its slot, before the body check and breaker.Allow() *)
(*   checked     past the breaker, before healthChecker.IsHealthy(target)  *)
(*   proxying    waiting for the upstream placement target                 *)
(*   leaving     about to run the deferred Release(key)                    *)
(*                                                                         *)
(* The placement a request was routed to is key: the argument of the       *)
(* deferred Release is evaluated when it is deferred, and breaker was      *)
(* looked up before any failover, so both stay with key while target       *)
(* follows the failovers.                                                  *)
(***************************************************************************)
EXTENDS CircuitBreaker, Limits, Resilience, FiniteSets

CONSTANTS
  Requests,          \* the requests that may be in flight together
  Fallback,          \* PlacementConfig.Fallback of each placement
  DefaultPlacement,  \* Config.DefaultPlacement
  NoPlacement,       \* no fallback, or no placement chosen yet
  Routable,          \* the placements that routing tables and defaults name
  BodySizes          \* declared body lengths of requests; -1 is unknown

ASSUME HandlerAssumption ==
  /\ Fallback \in [Placements -> BootPlacements \union {NoPlacement}]
  /\ DefaultPlacement \in BootPlacements
  /\ NoPlacement \notin Placements
  /\ Routable \subseteq Placements
  /\ IsFiniteSet(Requests)
  /\ 0 \in BodySizes /\ BodySizes \subseteq Int

(* Limits are set for the endpoints of the configuration the handler was   *)
(* built from.  Other placements have none, even where that configuration  *)
(* has an entry, and with it a fallback, for them.                         *)
ASSUME UnknownPlacementsUnlimited ==
  \A p \in Placements \ BootPlacements : ConcurrencyLimit[p] = 0 /\ MaxBody[p] = 0

VARIABLES
  pc,       \* where each request is
  key,      \* the placement it was routed to, whose slot and breaker it uses
  target,   \* the placement it is sent to
  verdict   \* what the breaker of key answered

requestVars == <<pc, key, target, verdict>>
vars == <<breaker, slots, resilienceVars, requestVars>>

Stages == {"idle", "arrived", "admitted", "checked", "proxying", "leaving"}

(* The requests that are routed to p and hold its slot.                    *)
Admitted == {"admitted", "checked", "proxying", "leaving"}
Holders(p) == {r \in Requests : pc[r] \in Admitted /\ key[r] = p}

HandlerInit ==
  /\ BreakerInit
  /\ LimitsInit
  /\ ResilienceInit
  /\ pc = [r \in Requests |-> "idle"]
  /\ key = [r \in Requests |-> NoPlacement]
  /\ target = [r \in Requests |-> NoPlacement]
  /\ verdict = [r \in Requests |-> "none"]

Move(r, from, to) == pc[r] = from /\ pc' = [pc EXCEPT ![r] = to]

(* ServeHTTP returns: its local variables are gone.                        *)
Forget(r) ==
  /\ key' = [key EXCEPT ![r] = NoPlacement]
  /\ target' = [target EXCEPT ![r] = NoPlacement]
  /\ verdict' = [verdict EXCEPT ![r] = "none"]

(* A request arrives and Router.Route picks its placement.  Requests with  *)
(* no routing key or no route are answered without touching any state.     *)
Receive(r, p) ==
  /\ Booted
  /\ p \in Routable
  /\ Move(r, "idle", "arrived")
  /\ key' = [key EXCEPT ![r] = p]
  /\ target' = [target EXCEPT ![r] = p]
  /\ UNCHANGED <<breaker, slots, resilienceVars, verdict>>

Admit(r) ==
  /\ Move(r, "arrived", "admitted")
  /\ TryAcquire(key[r])
  /\ UNCHANGED <<breaker, resilienceVars, key, target, verdict>>

(* 429: the placement is at its concurrency limit.                         *)
RefuseBusy(r) ==
  /\ Move(r, "arrived", "idle")
  /\ AtLimit(key[r])
  /\ Forget(r)
  /\ UNCHANGED <<breaker, slots, resilienceVars>>

(* 413: the declared body exceeds the placement's limit.  A request with   *)
(* no body passes, so the other continuations need no guard on the body.   *)
RefuseBody(r) ==
  /\ Move(r, "admitted", "leaving")
  /\ \E n \in BodySizes : BodyTooLarge(key[r], n)
  /\ UNCHANGED <<breaker, slots, resilienceVars, key, target, verdict>>

PassBreaker(r) ==
  /\ Move(r, "admitted", "checked")
  /\ Allow(key[r])
  /\ verdict' = [verdict EXCEPT ![r] = "allowed"]
  /\ UNCHANGED <<slots, resilienceVars, key, target>>

(* The circuit is open: divert to the fallback of the placement...         *)
DivertOpen(r) ==
  /\ Move(r, "admitted", "checked")
  /\ Refuses(key[r])
  /\ Fallback[key[r]] # NoPlacement
  /\ target' = [target EXCEPT ![r] = Fallback[key[r]]]
  /\ verdict' = [verdict EXCEPT ![r] = "refused"]
  /\ UNCHANGED <<breaker, slots, resilienceVars, key>>

(* ...or, 503, fail fast where there is none.                              *)
FailFast(r) ==
  /\ Move(r, "admitted", "leaving")
  /\ Refuses(key[r])
  /\ Fallback[key[r]] = NoPlacement
  /\ verdict' = [verdict EXCEPT ![r] = "refused"]
  /\ UNCHANGED <<breaker, slots, resilienceVars, key, target>>

(* Variants of Failover: one ignores the fallback of a placement, one      *)
(* leaves the default out.                                                 *)
FailoverToDefault(p) == DefaultPlacement
FailoverToFallback(p) == Fallback[p]

(* Where a request for an unhealthy placement goes.  The placement it goes *)
(* to is not asked for its health or its circuit.                          *)
Failover(p) == IF Fallback[p] # NoPlacement THEN Fallback[p] ELSE DefaultPlacement

Forward(r) ==
  /\ Move(r, "checked", "proxying")
  /\ \/ /\ IsHealthy(current, target[r])
        /\ UNCHANGED target
     \/ /\ ~IsHealthy(current, target[r])
        /\ target' = [target EXCEPT ![r] = Failover(target[r])]
  /\ UNCHANGED <<breaker, slots, resilienceVars, key, verdict>>

(* The upstream answered with a status below 500 and the body was copied.  *)
AnswerOk(r) ==
  /\ Move(r, "proxying", "leaving")
  /\ RecordSuccess(key[r])
  /\ UNCHANGED <<slots, resilienceVars, key, target, verdict>>

(* 502, a 5xx of the upstream, or a copy cut short by either side.         *)
AnswerError(r) ==
  /\ Move(r, "proxying", "leaving")
  /\ RecordFailure(key[r])
  /\ UNCHANGED <<slots, resilienceVars, key, target, verdict>>

(* A variant of Leave that releases the slot of where the request went.    *)
LeaveReleasesTarget(r) ==
  /\ Move(r, "leaving", "idle")
  /\ Release(target[r])
  /\ Forget(r)
  /\ UNCHANGED <<breaker, resilienceVars>>

(* The deferred Release runs and ServeHTTP returns.                        *)
Leave(r) ==
  /\ Move(r, "leaving", "idle")
  /\ Release(key[r])
  /\ Forget(r)
  /\ UNCHANGED <<breaker, resilienceVars>>

(* A request asks the breaker of p, whatever the answer.                   *)
Consult(r) == PassBreaker(r) \/ DivertOpen(r) \/ FailFast(r)

(* What the goroutine of a request does of its own accord.                 *)
Progress(r) ==
  \/ Admit(r)
  \/ RefuseBusy(r)
  \/ RefuseBody(r)
  \/ Consult(r)
  \/ Forward(r)
  \/ AnswerOk(r)
  \/ AnswerError(r)
  \/ Leave(r)

(* The handler's boot and the goroutines of its health checkers.           *)
Background(p) ==
  /\ Configure(p) \/ Probe(p)
  /\ UNCHANGED <<breaker, slots, requestVars>>

Clock(p) == TimeoutElapses(p) /\ UNCHANGED <<slots, resilienceVars, requestVars>>

HandlerNext ==
  \/ \E r \in Requests : Progress(r) \/ \E p \in Placements : Receive(r, p)
  \/ \E p \in Placements : Background(p) \/ Clock(p)

HandlerSpec == HandlerInit /\ [][HandlerNext]_vars

(***************************************************************************)
(* Fairness.  A goroutine that can run is scheduled; waiting for the       *)
(* upstream ends because the http.Client has a timeout of 30 seconds that  *)
(* covers the body, and writing to the caller ends with the server's       *)
(* WriteTimeout.  Time passes.  Nothing is assumed of the callers, of the  *)
(* upstreams' answers or of the probes.                                    *)
(***************************************************************************)
HandlerFairness ==
  /\ \A r \in Requests : WF_vars(Progress(r))
  /\ \A p \in Placements : WF_vars(Clock(p))

FairHandlerSpec == HandlerSpec /\ HandlerFairness

HandlerTypeOK ==
  /\ BreakerTypeOK
  /\ slots \in [Placements -> Nat]
  /\ ResilienceTypeOK
  /\ pc \in [Requests -> Stages]
  /\ key \in [Requests -> Placements \union {NoPlacement}]
  /\ target \in [Requests -> Placements \union {NoPlacement}]
  /\ verdict \in [Requests -> {"none", "allowed", "refused"}]
  /\ \A r \in Requests :
       pc[r] # "idle" => key[r] \in Placements /\ target[r] \in Placements

(***************************************************************************)
(* The slots of a semaphore are exactly those of the requests that were    *)
(* admitted under its placement, on every path out of ServeHTTP and        *)
(* through every failover (TryAcquire and the deferred Release).  Hence    *)
(* the limit bounds the requests admitted, and Release never blocks.       *)
(***************************************************************************)
SlotAccounting ==
  \A p \in Placements : Limited(p) =>
    /\ slots[p] = Cardinality(Holders(p))
    /\ slots[p] <= ConcurrencyLimit[p]

(***************************************************************************)
(* The semaphores implement the bulkhead for the placements requests are   *)
(* routed to, whatever placements they are then sent to.                   *)
(***************************************************************************)
Admission == INSTANCE Bulkhead WITH
  Capacity <- ConcurrencyLimit,
  inside   <- [p \in Placements |-> Holders(p)]

ImplementsBulkhead == Admission!BulkheadSpec

(***************************************************************************)
(* A half-open circuit is waiting for the answer of a request it let       *)
(* through: nothing else takes a circuit out of half-open, so a half-open  *)
(* circuit without one would report a recovery nobody is testing           *)
(* (Breaker.Allow and the Record calls at the end of ServeHTTP).           *)
(***************************************************************************)
HalfOpenIsProbed ==
  \A p \in Placements : breaker[p].state = "half_open" =>
    \E r \in Requests :
      key[r] = p /\ verdict[r] = "allowed" /\ pc[r] \in {"checked", "proxying"}

(***************************************************************************)
(* A request that an open circuit refused is not sent to the placement of  *)
(* that circuit after all: the documentation has an open circuit answered  *)
(* with 503 or the fallback.  Where the fallback is unhealthy, the second  *)
(* failover of ServeHTTP moves the request on, without asking which        *)
(* circuit refused it; so this depends on where the chain of fallbacks and *)
(* the default lead, and does not hold where they lead back at once.       *)
(***************************************************************************)
OpenCircuitNotBypassed ==
  \A r \in Requests :
    pc[r] = "proxying" /\ verdict[r] = "refused" => target[r] # key[r]

(***************************************************************************)
(* Every request is answered and its goroutine ends, releasing its slot on *)
(* the way: no Release waits for a slot that never comes.                  *)
(***************************************************************************)
EveryRequestAnswered ==
  \A r \in Requests : pc[r] = "arrived" ~> pc[r] = "idle"

(***************************************************************************)
(* A circuit does not stay half-open: the answer to the request it let     *)
(* through closes or reopens it.                                           *)
(***************************************************************************)
HalfOpenResolves ==
  \A p \in Placements :
    breaker[p].state = "half_open" ~> breaker[p].state # "half_open"

(***************************************************************************)
(* A circuit that requests keep asking for does not stay open: failures    *)
(* that arrive while it is open, of late requests or of the fallback, do   *)
(* not postpone the retry (Breaker.Allow and RecordFailure).               *)
(***************************************************************************)
OpenCircuitsAreRetried ==
  \A p \in Placements :
    []<><<\E r \in Requests : key[r] = p /\ Consult(r)>>_vars
      => []<>(breaker[p].state # "open")

(***************************************************************************)
(* The comment of Breaker.Allow: one request goes through in half-open.    *)
(***************************************************************************)
OneProbeInHalfOpen ==
  [][\A p \in Placements :
       breaker[p].state = "half_open" =>
         ~ \E r \in Requests : key[r] = p /\ PassBreaker(r)]_vars
=============================================================================
