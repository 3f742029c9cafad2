----------------------------- MODULE Resilience -----------------------------
(***************************************************************************)
(* How the proxy handler sets its health checkers up and shuts them down:  *)
(* NewHandler, configureResilienceMechanisms and Handler.Stop of           *)
(* internal/proxy.  Placements are configured in the random order of a Go  *)
(* map.  A placement with a health_check of its own gets a checker of its  *)
(* own, which replaces the handler's; any other placement is registered    *)
(* with whatever checker the handler has by then.                          *)
(***************************************************************************)
EXTENDS HealthChecker

CONSTANTS
  BootPlacements,  \* the endpoints of the configuration NewHandler is given
  OwnHealthCheck,  \* those of them that configure a health_check
  BuiltinChecker   \* the checker NewHandler creates with default settings

ASSUME ResilienceAssumption ==
  /\ OwnHealthCheck \subseteq BootPlacements
  /\ BootPlacements \subseteq Placements
  /\ Checkers = OwnHealthCheck \union {BuiltinChecker}
  /\ BuiltinChecker \notin Placements

VARIABLES
  current,         \* Handler.healthChecker
  unconfigured,    \* the placements the configuration loop has not visited
  phase            \* the handler's life: "serving", "stopping" or "stopped"

resilienceVars == <<healthVars, current, unconfigured, phase>>

ResilienceInit ==
  /\ HealthInit
  /\ current = BuiltinChecker
  /\ unconfigured = BootPlacements
  /\ phase = "serving"

(* A variant of Configure that gives every placement a checker of its own. *)
ConfigureAlwaysReplaces(p) ==
  /\ p \in unconfigured
  /\ unconfigured' = unconfigured \ {p}
  /\ RegisterEndpoint(p, p)
  /\ current' = p
  /\ UNCHANGED phase

(* One iteration of the loop of configureResilienceMechanisms.             *)
Configure(p) ==
  /\ p \in unconfigured
  /\ unconfigured' = unconfigured \ {p}
  /\ \/ /\ p \in OwnHealthCheck
        /\ RegisterEndpoint(p, p)
        /\ current' = p
     \/ /\ p \notin OwnHealthCheck
        /\ RegisterEndpoint(current, p)
        /\ UNCHANGED current
  /\ UNCHANGED phase

(* NewHandler has returned.                                                *)
Booted == unconfigured = {}

Probe(p) == CheckRound(p) /\ UNCHANGED <<current, unconfigured, phase>>

LoopReturns(p) == LoopExit(p) /\ UNCHANGED <<current, unconfigured, phase>>

(* Handler.Stop closes the stop channel of the handler's checker...        *)
StopBegins ==
  /\ Booted
  /\ phase = "serving"
  /\ CloseStop(current)
  /\ phase' = "stopping"
  /\ UNCHANGED <<current, unconfigured>>

(* A variant of the second half that does not wait for the goroutines.     *)
StopReturnsEarly ==
  /\ phase = "stopping"
  /\ phase' = "stopped"
  /\ UNCHANGED <<healthVars, current, unconfigured>>

(* ...and returns when its goroutines have.                                *)
StopReturns ==
  /\ phase = "stopping"
  /\ AllExited(current)
  /\ phase' = "stopped"
  /\ UNCHANGED <<healthVars, current, unconfigured>>

ResilienceNext ==
  \/ \E p \in Placements : Configure(p) \/ Probe(p) \/ LoopReturns(p)
  \/ StopBegins
  \/ StopReturns

(***************************************************************************)
(* Fairness.  The configuration loop and Stop are ordinary code.  A probe  *)
(* ends within the checker's timeout.  The select of checkLoop picks at    *)
(* random among its ready cases, so a closed stopCh is taken in the end.   *)
(* Nothing obliges the program to call Stop.                               *)
(***************************************************************************)
ResilienceFairness ==
  /\ \A p \in Placements :
       /\ WF_resilienceVars(Configure(p))
       /\ WF_resilienceVars(Probe(p))
       /\ WF_resilienceVars(LoopReturns(p))
  /\ WF_resilienceVars(StopReturns)

ResilienceSpec ==
  ResilienceInit /\ [][ResilienceNext]_resilienceVars /\ ResilienceFairness

ResilienceTypeOK ==
  /\ HealthTypeOK
  /\ current \in Checkers
  /\ unconfigured \subseteq BootPlacements
  /\ phase \in {"serving", "stopping", "stopped"}

(***************************************************************************)
(* Every endpoint of the booted configuration is probed by the checker     *)
(* that requests consult, so that a failed probe of it diverts them (this  *)
(* is what registering it in configureResilienceMechanisms is for).        *)
(***************************************************************************)
EveryProbeCounts ==
  \A p \in BootPlacements \ unconfigured :
    IsHealthy(current, p) <=> p \notin unhealthy

(***************************************************************************)
(* Once Handler.Stop has returned, the checker requests consult does not   *)
(* change its mind any more: Checker.Stop waits for the probes under way.  *)
(***************************************************************************)
QuietAfterStop ==
  [][\A p \in Placements :
       phase = "stopped" => (IsHealthy(current, p)' <=> IsHealthy(current, p))
    ]_resilienceVars

(***************************************************************************)
(* A Handler.Stop that was begun returns, although ticks may compete with  *)
(* the closed channel in every turn of every loop.                         *)
(***************************************************************************)
StopTerminates == (phase = "stopping") ~> (phase = "stopped")
=============================================================================
