-------------------------- MODULE Resilience_proof --------------------------
(***************************************************************************)
(* The set-up and the shutdown of the health checkers, for every set of    *)
(* placements and every order in which they are configured.                *)
(***************************************************************************)
EXTENDS Resilience, TLAPS

LEMMA ResilienceTyped == ResilienceInit => ResilienceTypeOK
BY ResilienceAssumption
   DEF ResilienceInit, HealthInit, ResilienceTypeOK, HealthTypeOK, LoopStates

LEMMA ResilienceStaysTyped ==
  ResilienceTypeOK /\ [ResilienceNext]_resilienceVars => ResilienceTypeOK'
<1> SUFFICES ASSUME ResilienceTypeOK, [ResilienceNext]_resilienceVars
             PROVE  ResilienceTypeOK'
  OBVIOUS
<1> USE ResilienceAssumption DEF ResilienceTypeOK, HealthTypeOK, LoopStates
<1>1. ASSUME NEW p \in Placements, Configure(p)
      PROVE  ResilienceTypeOK'
  BY <1>1 DEF Configure, RegisterEndpoint
<1>2. ASSUME NEW p \in Placements, Probe(p)
      PROVE  ResilienceTypeOK'
  BY <1>2 DEF Probe, CheckRound
<1>3. ASSUME NEW p \in Placements, LoopReturns(p)
      PROVE  ResilienceTypeOK'
  BY <1>3 DEF LoopReturns, LoopExit
<1>4. CASE StopBegins
  BY <1>4 DEF StopBegins, CloseStop
<1>5. CASE StopReturns
  BY <1>5 DEF StopReturns, healthVars
<1>6. CASE UNCHANGED resilienceVars
  BY <1>6 DEF resilienceVars, healthVars
<1> QED
  BY <1>1, <1>2, <1>3, <1>4, <1>5, <1>6 DEF ResilienceNext

(***************************************************************************)
(* Type correctness of the checkers and of the handler's life.             *)
(***************************************************************************)
THEOREM ResilienceTypeCorrect == ResilienceSpec => []ResilienceTypeOK
BY ResilienceTyped, ResilienceStaysTyped, PTL DEF ResilienceSpec

(* Without health checks of their own, all placements share one checker.   *)
OneChecker ==
  /\ current = BuiltinChecker
  /\ \A p \in BootPlacements \ unconfigured : owner[p] = BuiltinChecker

LEMMA OneCheckerStays ==
  ASSUME OwnHealthCheck = {}
  PROVE  ResilienceTypeOK /\ OneChecker /\ [ResilienceNext]_resilienceVars => OneChecker'
<1> SUFFICES ASSUME ResilienceTypeOK, OneChecker, [ResilienceNext]_resilienceVars
             PROVE  OneChecker'
  OBVIOUS
<1> USE ResilienceAssumption DEF ResilienceTypeOK, HealthTypeOK, OneChecker
<1>1. ASSUME NEW p \in Placements, Configure(p)
      PROVE  OneChecker'
  BY <1>1 DEF Configure, RegisterEndpoint
<1>2. ASSUME NEW p \in Placements, Probe(p) \/ LoopReturns(p)
      PROVE  OneChecker'
  BY <1>2 DEF Probe, CheckRound, LoopReturns, LoopExit
<1>3. CASE StopBegins \/ StopReturns
  BY <1>3 DEF StopBegins, StopReturns, CloseStop, healthVars
<1>4. CASE UNCHANGED resilienceVars
  BY <1>4 DEF resilienceVars, healthVars
<1> QED
  BY <1>1, <1>2, <1>3, <1>4 DEF ResilienceNext

(***************************************************************************)
(* With no health_check in the configuration, every placement's probes     *)
(* are those that requests consult, in whatever order the placements were  *)
(* configured (configureResilienceMechanisms).                             *)
(***************************************************************************)
THEOREM BuiltinProbesCount ==
  ASSUME OwnHealthCheck = {}
  PROVE  ResilienceSpec => []EveryProbeCounts
<1>1. ResilienceInit => OneChecker
  BY DEF ResilienceInit, OneChecker
<1>2. OneChecker => EveryProbeCounts
  BY DEF OneChecker, EveryProbeCounts, IsHealthy
<1> QED
  BY <1>1, <1>2, ResilienceTyped, ResilienceStaysTyped, OneCheckerStays, PTL
  DEF ResilienceSpec

(* Stop closes the channel of a checker that is not replaced any more, and *)
(* returns only when the loops of that checker have.                       *)
Winding ==
  /\ phase # "serving" => unconfigured = {}
  /\ phase = "stopped" => AllExited(current)

LEMMA WindingStays ==
  ResilienceTypeOK /\ Winding /\ [ResilienceNext]_resilienceVars => Winding'
<1> SUFFICES ASSUME ResilienceTypeOK, Winding, [ResilienceNext]_resilienceVars
             PROVE  Winding'
  OBVIOUS
<1> USE DEF ResilienceTypeOK, HealthTypeOK, Winding, AllExited
<1>1. ASSUME NEW p \in Placements, Configure(p)
      PROVE  Winding'
  BY <1>1 DEF Configure, RegisterEndpoint
<1>2. ASSUME NEW p \in Placements, Probe(p)
      PROVE  Winding'
  BY <1>2 DEF Probe, CheckRound
<1>3. ASSUME NEW p \in Placements, LoopReturns(p)
      PROVE  Winding'
  BY <1>3 DEF LoopReturns, LoopExit
<1>4. CASE StopBegins
  BY <1>4 DEF StopBegins, CloseStop, Booted
<1>5. CASE StopReturns
  BY <1>5 DEF StopReturns, healthVars
<1>6. CASE UNCHANGED resilienceVars
  BY <1>6 DEF resilienceVars, healthVars
<1> QED
  BY <1>1, <1>2, <1>3, <1>4, <1>5, <1>6 DEF ResilienceNext

LEMMA StoppedIsQuiet ==
  ASSUME ResilienceTypeOK, Winding, [ResilienceNext]_resilienceVars,
         NEW q \in Placements, phase = "stopped"
  PROVE  IsHealthy(current, q)' <=> IsHealthy(current, q)
<1> USE DEF ResilienceTypeOK, HealthTypeOK, Winding, IsHealthy
<1>1. ASSUME NEW p \in Placements, Configure(p)
      PROVE  FALSE
  BY <1>1 DEF Configure
<1>2. ASSUME NEW p \in Placements, Probe(p)
      PROVE  IsHealthy(current, q)' <=> IsHealthy(current, q)
  <2>1. owner[q] = current => p # q
    BY <1>2 DEF Probe, CheckRound, AllExited
  <2> QED
    BY <1>2, <2>1 DEF Probe, CheckRound
<1>3. ASSUME NEW p \in Placements, LoopReturns(p)
      PROVE  IsHealthy(current, q)' <=> IsHealthy(current, q)
  BY <1>3 DEF LoopReturns, LoopExit
<1>4. CASE StopBegins \/ StopReturns
  BY <1>4 DEF StopBegins, StopReturns
<1>5. CASE UNCHANGED resilienceVars
  BY <1>5 DEF resilienceVars, healthVars
<1> QED
  BY <1>1, <1>2, <1>3, <1>4, <1>5 DEF ResilienceNext

(***************************************************************************)
(* Once Handler.Stop has returned, the health that requests consult is     *)
(* frozen, whatever checkers were replaced while the handler was built     *)
(* (Handler.Stop and Checker.Stop).                                        *)
(***************************************************************************)
THEOREM StopSilences == ResilienceSpec => QuietAfterStop
<1>1. ResilienceInit => Winding
  BY DEF ResilienceInit, Winding
<1>2. ResilienceTypeOK /\ Winding /\ [ResilienceNext]_resilienceVars
        => [\A p \in Placements :
              phase = "stopped" => (IsHealthy(current, p)' <=> IsHealthy(current, p))
           ]_resilienceVars
  BY StoppedIsQuiet
<1> QED
  BY <1>1, <1>2, ResilienceTyped, ResilienceStaysTyped, WindingStays, PTL
  DEF ResilienceSpec, QuietAfterStop
(* A placement with a health_check of its own is known to its own checker  *)
(* only.                                                                   *)
OwnChecksApart == \A p \in OwnHealthCheck : owner[p] \in {p, Nobody}

LEMMA OwnChecksStayApart ==
  ResilienceTypeOK /\ OwnChecksApart /\ [ResilienceNext]_resilienceVars => OwnChecksApart'
<1> SUFFICES ASSUME ResilienceTypeOK, OwnChecksApart, [ResilienceNext]_resilienceVars
             PROVE  OwnChecksApart'
  OBVIOUS
<1> USE ResilienceAssumption DEF ResilienceTypeOK, HealthTypeOK, OwnChecksApart
<1>1. ASSUME NEW p \in Placements, Configure(p)
      PROVE  OwnChecksApart'
  BY <1>1 DEF Configure, RegisterEndpoint
<1>2. ASSUME NEW p \in Placements, Probe(p) \/ LoopReturns(p)
      PROVE  OwnChecksApart'
  BY <1>2 DEF Probe, CheckRound, LoopReturns, LoopExit
<1>3. CASE StopBegins \/ StopReturns
  BY <1>3 DEF StopBegins, StopReturns, CloseStop, healthVars
<1>4. CASE UNCHANGED resilienceVars
  BY <1>4 DEF resilienceVars, healthVars
<1> QED
  BY <1>1, <1>2, <1>3, <1>4 DEF ResilienceNext

(* Requests find it healthy, whatever its probes say, unless its checker   *)
(* happens to be the one the handler was left with.                        *)
OwnChecksIgnored == \A p \in OwnHealthCheck \ {current} : IsHealthy(current, p)

LEMMA ApartIsIgnored == ResilienceTypeOK /\ OwnChecksApart => OwnChecksIgnored
BY CheckerAssumption DEF ResilienceTypeOK, OwnChecksApart, OwnChecksIgnored, IsHealthy

(***************************************************************************)
(* In every configuration and for every order of the loop of               *)
(* configureResilienceMechanisms, of all placements that configure a       *)
(* health_check at most one can ever be found unhealthy by a request: each *)
(* checker that is made knows one endpoint and replaces the one before.    *)
(***************************************************************************)
THEOREM AtMostOneOwnCheckCounts == ResilienceSpec => []OwnChecksIgnored
<1>1. ResilienceInit => OwnChecksApart
  BY ResilienceAssumption DEF ResilienceInit, HealthInit, OwnChecksApart
<1> QED
  BY <1>1, ApartIsIgnored, ResilienceTyped, ResilienceStaysTyped, OwnChecksStayApart, PTL
  DEF ResilienceSpec

(* What Handler.Stop relies on: no channel is closed twice, which would    *)
(* panic, and once it waits, the channel is closed that the loops it waits *)
(* for look at, each of which has been started.                            *)
StopIsSound ==
  /\ phase = "serving" => closed = {}
  /\ phase # "serving" => current \in closed
  /\ \A p \in Placements : owner[p] # Nobody => loop[p] # "none"

LEMMA StopStaysSound ==
  ResilienceTypeOK /\ Winding /\ StopIsSound /\ [ResilienceNext]_resilienceVars => StopIsSound'
<1> SUFFICES ASSUME ResilienceTypeOK, Winding, StopIsSound, [ResilienceNext]_resilienceVars
             PROVE  StopIsSound'
  OBVIOUS
<1> USE DEF ResilienceTypeOK, HealthTypeOK, Winding, StopIsSound
<1>1. ASSUME NEW p \in Placements, Configure(p)
      PROVE  StopIsSound'
  BY <1>1 DEF Configure, RegisterEndpoint
<1>2. ASSUME NEW p \in Placements, Probe(p)
      PROVE  StopIsSound'
  BY <1>2 DEF Probe, CheckRound
<1>3. ASSUME NEW p \in Placements, LoopReturns(p)
      PROVE  StopIsSound'
  BY <1>3 DEF LoopReturns, LoopExit
<1>4. CASE StopBegins
  BY <1>4 DEF StopBegins, CloseStop
<1>5. CASE StopReturns
  BY <1>5 DEF StopReturns, healthVars
<1>6. CASE UNCHANGED resilienceVars
  BY <1>6 DEF resilienceVars, healthVars
<1> QED
  BY <1>1, <1>2, <1>3, <1>4, <1>5, <1>6 DEF ResilienceNext

(***************************************************************************)
(* The part of StopTerminates that is safety: a Stop never closes a closed *)
(* channel, and every loop it waits for runs and has its channel closed    *)
(* (Handler.Stop, Checker.Stop and RegisterEndpoint).                      *)
(***************************************************************************)
THEOREM StopWaitsForWhatItClosed == ResilienceSpec => []StopIsSound
<1>1. ResilienceInit => Winding /\ StopIsSound
  BY DEF ResilienceInit, HealthInit, Winding, StopIsSound
<1> QED
  BY <1>1, ResilienceTyped, ResilienceStaysTyped, WindingStays, StopStaysSound, PTL
  DEF ResilienceSpec
=============================================================================
