------------------------- MODULE ProxyHandler_proof -------------------------
(***************************************************************************)
(* Theorems about the data path, for every set of placements, every limit, *)
(* threshold, fallback and health-check configuration and any finite set   *)
(* of requests.                                                            *)
(***************************************************************************)
EXTENDS ProxyHandler, CircuitBreaker_proof, Resilience_proof, FiniteSetTheorems

(* The ground the other invariants stand on.                               *)
BaseInv == HandlerTypeOK /\ ClosedBelowThreshold

(***************************************************************************)
(* The operations of the components preserve the types of their own state. *)
(***************************************************************************)

(* The semaphores: TryAcquire and Release.                                 *)
LEMMA SlotTypes ==
  ASSUME slots \in [Placements -> Nat], NEW p \in Placements,
         TryAcquire(p) \/ Release(p)
  PROVE  slots' \in [Placements -> Nat]
BY DEF TryAcquire, Release

(* The checkers: the configuration loop and the probes.                    *)
LEMMA ResilienceTypes ==
  ASSUME ResilienceTypeOK, NEW p \in Placements, Configure(p) \/ Probe(p)
  PROVE  ResilienceTypeOK'
BY ResilienceStaysTyped DEF ResilienceNext

(***************************************************************************)
(* Type correctness.                                                       *)
(***************************************************************************)
LEMMA InitTypes == HandlerInit => BaseInv
<1>1. HandlerInit => BreakerTypeOK /\ ClosedBelowThreshold
  BY BreakersStart DEF HandlerInit
<1>2. HandlerInit => ResilienceTypeOK
  BY ResilienceTyped DEF HandlerInit
<1> QED
  BY <1>1, <1>2 DEF HandlerInit, BaseInv, HandlerTypeOK, LimitsInit, Stages

LEMMA NextTypes == BaseInv /\ [HandlerNext]_vars => BaseInv'
<1> SUFFICES ASSUME BaseInv, [HandlerNext]_vars
             PROVE  BaseInv'
  OBVIOUS
<1> USE DEF BaseInv, HandlerTypeOK, Stages
<1>1. ASSUME NEW r \in Requests, NEW p \in Placements, Receive(r, p)
      PROVE  BaseInv'
  BY <1>1 DEF Receive, Move, BreakerTypeOK, ClosedBelowThreshold, ResilienceTypeOK, HealthTypeOK,
              resilienceVars, healthVars
<1>2. ASSUME NEW p \in Placements, Background(p) \/ Clock(p)
      PROVE  BaseInv'
  <2>1. BreakerTypeOK' /\ ClosedBelowThreshold' /\ ResilienceTypeOK'
    BY <1>2, OperationsKeepBreakers, ResilienceTypes
       DEF Background, Clock, BreakerTypeOK, ClosedBelowThreshold,
           ResilienceTypeOK, HealthTypeOK, resilienceVars, healthVars
  <2> QED
    BY <1>2, <2>1 DEF Background, Clock, requestVars
<1>3. ASSUME NEW r \in Requests, Progress(r)
      PROVE  BaseInv'
  <2>1. pc[r] # "idle" /\ key[r] \in Placements /\ target[r] \in Placements
    BY <1>3 DEF Progress, Admit, RefuseBusy, RefuseBody, Consult, PassBreaker,
                DivertOpen, FailFast, Forward, AnswerOk, AnswerError, Leave, Move
  <2>2. UNCHANGED resilienceVars
    BY <1>3 DEF Progress, Admit, RefuseBusy, RefuseBody, Consult, PassBreaker,
                DivertOpen, FailFast, Forward, AnswerOk, AnswerError, Leave
  <2>3. ResilienceTypeOK'
    BY <2>2 DEF ResilienceTypeOK, HealthTypeOK, resilienceVars, healthVars
  <2>4. BreakerTypeOK' /\ ClosedBelowThreshold'
    <3>1. CASE UNCHANGED breaker
      BY <3>1 DEF BreakerTypeOK, ClosedBelowThreshold
    <3>2. CASE Allow(key[r]) \/ RecordSuccess(key[r]) \/ RecordFailure(key[r])
      BY <2>1, <3>2, OperationsKeepBreakers
    <3> QED
      BY <1>3, <3>1, <3>2
         DEF Progress, Admit, RefuseBusy, RefuseBody, Consult, PassBreaker,
             DivertOpen, FailFast, Forward, AnswerOk, AnswerError, Leave
  <2>5. slots' \in [Placements -> Nat]
    <3>1. CASE UNCHANGED slots
      BY <3>1
    <3>2. CASE TryAcquire(key[r]) \/ Release(key[r])
      BY <2>1, <3>2, SlotTypes
    <3> QED
      BY <1>3, <3>1, <3>2
         DEF Progress, Admit, RefuseBusy, RefuseBody, Consult, PassBreaker,
             DivertOpen, FailFast, Forward, AnswerOk, AnswerError, Leave
  <2>6. /\ pc' \in [Requests -> Stages]
        /\ key' \in [Requests -> Placements \union {NoPlacement}]
        /\ target' \in [Requests -> Placements \union {NoPlacement}]
        /\ verdict' \in [Requests -> {"none", "allowed", "refused"}]
        /\ \A q \in Requests :
             pc'[q] # "idle" => key'[q] \in Placements /\ target'[q] \in Placements
    <3>1. CASE RefuseBusy(r) \/ Leave(r)
      BY <3>1 DEF RefuseBusy, Leave, Move, Forget
    <3>2. CASE Admit(r) \/ RefuseBody(r) \/ AnswerOk(r) \/ AnswerError(r)
      BY <3>2 DEF Admit, RefuseBody, AnswerOk, AnswerError, Move
    <3>3. CASE PassBreaker(r) \/ FailFast(r)
      BY <3>3 DEF PassBreaker, FailFast, Move
    <3>4. CASE DivertOpen(r)
      <4>1. Fallback[key[r]] \in Placements
        BY <2>1, <3>4, HandlerAssumption, ResilienceAssumption DEF DivertOpen
      <4> QED
        BY <3>4, <4>1 DEF DivertOpen, Move
    <3>5. CASE Forward(r)
      <4>1. Failover(target[r]) \in Placements
        BY <2>1, HandlerAssumption, ResilienceAssumption DEF Failover
      <4> QED
        BY <3>5, <4>1 DEF Forward, Move
    <3> QED
      BY <1>3, <3>1, <3>2, <3>3, <3>4, <3>5 DEF Progress, Consult
  <2> QED
    BY <2>3, <2>4, <2>5, <2>6
<1>4. CASE UNCHANGED vars
  BY <1>4 DEF vars, requestVars, BreakerTypeOK, ClosedBelowThreshold,
              ResilienceTypeOK, HealthTypeOK, resilienceVars, healthVars
<1> QED
  BY <1>1, <1>2, <1>3, <1>4 DEF HandlerNext

LEMMA HandlerRunsBase == HandlerSpec => []BaseInv /\ [][HandlerNext]_vars
BY InitTypes, NextTypes, PTL DEF HandlerSpec

(* The handler's state has its type, and a request in flight is headed to  *)
(* a real placement, for every configuration Config.Validate accepts.      *)
THEOREM TypeCorrect == HandlerSpec => []HandlerTypeOK
<1>1. BaseInv => HandlerTypeOK
  BY DEF BaseInv
<1> QED
  BY <1>1, InitTypes, NextTypes, PTL DEF HandlerSpec

(* A closed circuit has counted fewer failures than the threshold, even    *)
(* after the counter has wrapped around in an open period.                 *)
THEOREM ClosedCountsStayLow == HandlerSpec => []ClosedBelowThreshold
<1>1. BaseInv => ClosedBelowThreshold
  BY DEF BaseInv
<1> QED
  BY <1>1, InitTypes, NextTypes, PTL DEF HandlerSpec

(***************************************************************************)
(* Who holds the slots.  Only Admit and Leave change it, by the request    *)
(* that takes the step and for the placement it was routed to.             *)
(***************************************************************************)
LEMMA HoldersFinite ==
  ASSUME NEW p \in Placements
  PROVE  IsFiniteSet(Holders(p)) /\ Cardinality(Holders(p)) \in Nat
<1>1. Holders(p) \subseteq Requests
  BY DEF Holders
<1> QED
  BY <1>1, HandlerAssumption, FS_Subset, FS_CardinalityType

LEMMA AdmitHolds ==
  ASSUME BaseInv, NEW r \in Requests, Admit(r)
  PROVE  /\ key[r] \in Placements
         /\ \A p \in Placements : r \notin Holders(p)
         /\ \A p \in Placements :
              Holders(p)' = IF p = key[r] THEN Holders(p) \union {r} ELSE Holders(p)
BY DEF Admit, Move, BaseInv, HandlerTypeOK, Holders, Admitted

LEMMA LeaveReleases ==
  ASSUME BaseInv, NEW r \in Requests, Leave(r)
  PROVE  /\ key[r] \in Placements
         /\ r \in Holders(key[r])
         /\ \A p \in Placements :
              Holders(p)' = IF p = key[r] THEN Holders(p) \ {r} ELSE Holders(p)
<1> USE HandlerAssumption
        DEF Leave, Forget, Move, BaseInv, HandlerTypeOK, Holders, Admitted
<1>1. key[r] \in Placements /\ r \in Holders(key[r])
  OBVIOUS
<1>2. ASSUME NEW p \in Placements
      PROVE  Holders(p)' = IF p = key[r] THEN Holders(p) \ {r} ELSE Holders(p)
  OBVIOUS
<1> QED
  BY <1>1, <1>2

(* Every other step: it moves no slot and no holder.                       *)
KeepsSlots ==
  \/ UNCHANGED <<slots, pc, key>>
  \/ \E r \in Requests :
       \/ \E p \in Placements : Receive(r, p)
       \/ RefuseBusy(r) \/ RefuseBody(r) \/ Consult(r)
       \/ Forward(r) \/ AnswerOk(r) \/ AnswerError(r)

LEMMA OthersKeepSlots ==
  ASSUME BaseInv, KeepsSlots
  PROVE  slots' = slots /\ \A p \in Placements : Holders(p)' = Holders(p)
<1> USE DEF BaseInv, HandlerTypeOK, Holders, Admitted, Move
<1>1. CASE UNCHANGED <<slots, pc, key>>
  BY <1>1
<1>2. ASSUME NEW r \in Requests, NEW p \in Placements, Receive(r, p)
      PROVE  slots' = slots /\ \A q \in Placements : Holders(q)' = Holders(q)
  BY <1>2 DEF Receive
<1>3. ASSUME NEW r \in Requests, RefuseBusy(r)
      PROVE  slots' = slots /\ \A q \in Placements : Holders(q)' = Holders(q)
  BY <1>3 DEF RefuseBusy, Forget
<1>4. ASSUME NEW r \in Requests,
             RefuseBody(r) \/ Consult(r) \/ Forward(r) \/ AnswerOk(r) \/ AnswerError(r)
      PROVE  slots' = slots /\ \A q \in Placements : Holders(q)' = Holders(q)
  BY <1>4 DEF RefuseBody, Consult, PassBreaker, DivertOpen, FailFast, Forward,
              AnswerOk, AnswerError
<1> QED
  BY <1>1, <1>2, <1>3, <1>4 DEF KeepsSlots

LEMMA SlotSteps ==
  ASSUME [HandlerNext]_vars
  PROVE  KeepsSlots \/ \E r \in Requests : Admit(r) \/ Leave(r)
BY DEF HandlerNext, KeepsSlots, Progress, Background, Clock, requestVars, vars

(***************************************************************************)
(* The slots of every semaphore are those of the requests that hold them.  *)
(***************************************************************************)
LEMMA InitSlots == HandlerInit => SlotAccounting
<1> SUFFICES ASSUME HandlerInit, NEW p \in Placements, Limited(p)
             PROVE  slots[p] = Cardinality(Holders(p)) /\ slots[p] <= ConcurrencyLimit[p]
  BY DEF SlotAccounting
<1>1. Holders(p) = {}
  BY DEF HandlerInit, Holders, Admitted
<1> QED
  BY <1>1, FS_EmptySet, LimitsAssumption DEF HandlerInit, LimitsInit, Limited

LEMMA NextSlots == BaseInv /\ SlotAccounting /\ [HandlerNext]_vars => SlotAccounting'
<1> SUFFICES ASSUME BaseInv, SlotAccounting, [HandlerNext]_vars,
                    NEW p \in Placements, Limited(p)
             PROVE  /\ slots'[p] = Cardinality(Holders(p)')
                    /\ slots'[p] <= ConcurrencyLimit[p]
  BY DEF SlotAccounting, Limited
<1>1. slots[p] = Cardinality(Holders(p)) /\ slots[p] <= ConcurrencyLimit[p]
  BY DEF SlotAccounting
<1>2. slots \in [Placements -> Nat] /\ ConcurrencyLimit[p] \in Int
  BY LimitsAssumption DEF BaseInv, HandlerTypeOK
<1>3. IsFiniteSet(Holders(p)) /\ Cardinality(Holders(p)) \in Nat
  BY HoldersFinite
<1>4. CASE KeepsSlots
  BY <1>1, <1>4, OthersKeepSlots
<1>5. ASSUME NEW r \in Requests, Admit(r)
      PROVE  slots'[p] = Cardinality(Holders(p)') /\ slots'[p] <= ConcurrencyLimit[p]
  <2>1. TryAcquire(key[r])
    BY <1>5 DEF Admit
  <2>2. CASE p = key[r]
    <3>1. Holders(p)' = Holders(p) \union {r} /\ r \notin Holders(p)
      BY <1>5, <2>2, AdmitHolds
    <3>2. Cardinality(Holders(p)') = Cardinality(Holders(p)) + 1
      BY <1>3, <3>1, FS_AddElement
    <3>3. slots'[p] = slots[p] + 1 /\ slots[p] < ConcurrencyLimit[p]
      BY <1>2, <2>1, <2>2 DEF TryAcquire
    <3> QED
      BY <1>1, <1>2, <1>3, <3>2, <3>3
  <2>3. CASE p # key[r]
    BY <1>1, <1>2, <1>5, <2>1, <2>3, AdmitHolds DEF TryAcquire
  <2> QED
    BY <2>2, <2>3
<1>6. ASSUME NEW r \in Requests, Leave(r)
      PROVE  slots'[p] = Cardinality(Holders(p)') /\ slots'[p] <= ConcurrencyLimit[p]
  <2>1. Release(key[r])
    BY <1>6 DEF Leave
  <2>2. CASE p = key[r]
    <3>1. Holders(p)' = Holders(p) \ {r} /\ r \in Holders(p)
      BY <1>6, <2>2, LeaveReleases
    <3>2. Cardinality(Holders(p)') = Cardinality(Holders(p)) - 1
      BY <1>3, <3>1, FS_RemoveElement
    <3>3. slots'[p] = slots[p] - 1
      BY <1>2, <2>1, <2>2 DEF Release
    <3> QED
      BY <1>1, <1>2, <1>3, <3>2, <3>3
  <2>3. CASE p # key[r]
    BY <1>1, <1>2, <1>6, <2>1, <2>3, LeaveReleases DEF Release
  <2> QED
    BY <2>2, <2>3
<1> QED
  BY <1>4, <1>5, <1>6, SlotSteps

(* On every path through ServeHTTP the deferred Release gives back the     *)
(* slot TryAcquire took, so no limit is exceeded and no slot leaks.        *)
THEOREM SlotsAccounted == HandlerSpec => []SlotAccounting
<1>1. HandlerInit => BaseInv /\ SlotAccounting
  BY InitTypes, InitSlots
<1>2. BaseInv /\ SlotAccounting /\ [HandlerNext]_vars => (BaseInv /\ SlotAccounting)'
  BY NextTypes, NextSlots
<1> QED
  BY <1>1, <1>2, PTL DEF HandlerSpec

(***************************************************************************)
(* The semaphores implement the bulkhead.                                  *)
(***************************************************************************)
LEMMA InitBulkhead == HandlerInit => Admission!BulkheadInit
BY DEF HandlerInit, Admission!BulkheadInit, Holders, Admitted

LEMMA StepBulkhead ==
  ASSUME BaseInv, SlotAccounting, [HandlerNext]_vars
  PROVE  [Admission!BulkheadNext]_([p \in Placements |-> Holders(p)])
<1> DEFINE inside == [p \in Placements |-> Holders(p)]
<1>1. CASE KeepsSlots
  BY <1>1, OthersKeepSlots
<1>2. ASSUME NEW r \in Requests, Admit(r)
      PROVE  Admission!Enter(r, key[r]) /\ key[r] \in Placements
  <2>1. /\ key[r] \in Placements
        /\ \A p \in Placements : r \notin Holders(p)
        /\ \A p \in Placements :
             Holders(p)' = IF p = key[r] THEN Holders(p) \union {r} ELSE Holders(p)
    BY <1>2, AdmitHolds
  <2>2. Limited(key[r]) => Cardinality(Holders(key[r])) < ConcurrencyLimit[key[r]]
    BY <1>2, <2>1 DEF Admit, TryAcquire, SlotAccounting
  <2>3. Admission!HasRoom(key[r])
    BY <2>1, <2>2 DEF Admission!HasRoom, Admission!Cardinality, Cardinality, Limited
  <2>4. inside' = [inside EXCEPT ![key[r]] = @ \union {r}]
    BY <2>1
  <2> QED
    BY <2>1, <2>3, <2>4 DEF Admission!Enter
<1>3. ASSUME NEW r \in Requests, Leave(r)
      PROVE  Admission!Exit(r, key[r]) /\ key[r] \in Placements
  BY <1>3, LeaveReleases DEF Admission!Exit
<1> QED
  BY <1>1, <1>2, <1>3, SlotSteps DEF Admission!BulkheadNext

(* A placement's limit bounds the requests admitted under it, step by      *)
(* step: every behaviour of the handler is one of the bulkhead.            *)
THEOREM BulkheadImplemented == HandlerSpec => ImplementsBulkhead
<1>1. HandlerInit => BaseInv /\ SlotAccounting
  BY InitTypes, InitSlots
<1>2. BaseInv /\ SlotAccounting /\ [HandlerNext]_vars => (BaseInv /\ SlotAccounting)'
  BY NextTypes, NextSlots
<1>3. BaseInv /\ SlotAccounting /\ [HandlerNext]_vars
        => [Admission!BulkheadNext]_([p \in Placements |-> Holders(p)])
  BY StepBulkhead
<1> QED
  BY <1>1, <1>2, <1>3, InitBulkhead, PTL
     DEF HandlerSpec, ImplementsBulkhead, Admission!BulkheadSpec

(***************************************************************************)
(* The breakers.  Every step leaves them alone or is one operation on one  *)
(* breaker.                                                                *)
(***************************************************************************)
LEMMA BreakerSteps ==
  ASSUME BaseInv, [HandlerNext]_vars
  PROVE  \/ UNCHANGED breaker
         \/ \E p \in Placements : TimeoutElapses(p) /\ UNCHANGED requestVars
         \/ \E r \in Requests :
              /\ key[r] \in Placements
              /\ PassBreaker(r) \/ AnswerOk(r) \/ AnswerError(r)
BY DEF HandlerNext, Progress, Consult, Receive, Admit, RefuseBusy, RefuseBody,
       DivertOpen, FailFast, Forward, Leave, Background, Clock, vars,
       PassBreaker, AnswerOk, AnswerError, Move, BaseInv, HandlerTypeOK

(***************************************************************************)
(* Half-open circuits.  Probing(r, p) says that r is the request the       *)
(* half-open circuit of p waits for.  Only an Answer ends it, and that     *)
(* takes the circuit out of half-open.                                     *)
(***************************************************************************)
Probing(r, p) ==
  key[r] = p /\ verdict[r] = "allowed" /\ pc[r] \in {"checked", "proxying"}

(* What a step does to the requests a circuit may be waiting for.          *)
LEMMA ProbesPersist ==
  ASSUME BaseInv, [HandlerNext]_vars,
         NEW p \in Placements, NEW q \in Requests, Probing(q, p),
         ~(AnswerOk(q) \/ AnswerError(q))
  PROVE  Probing(q, p)'
<1> USE DEF Probing, BaseInv, HandlerTypeOK, Move
<1>1. CASE UNCHANGED requestVars
  BY <1>1 DEF requestVars
<1>2. ASSUME NEW r \in Requests, NEW o \in Placements, Receive(r, o)
      PROVE  Probing(q, p)'
  BY <1>2 DEF Receive
<1>3. ASSUME NEW r \in Requests, Progress(r)
      PROVE  Probing(q, p)'
  BY <1>3 DEF Progress, Consult, Admit, RefuseBusy, RefuseBody, PassBreaker,
              DivertOpen, FailFast, Forward, AnswerOk, AnswerError, Leave, Forget
<1> QED
  BY <1>1, <1>2, <1>3 DEF HandlerNext, Background, Clock, vars

LEMMA NextProbed ==
  BaseInv /\ HalfOpenIsProbed /\ [HandlerNext]_vars => HalfOpenIsProbed'
<1> SUFFICES ASSUME BaseInv, HalfOpenIsProbed, [HandlerNext]_vars,
                    NEW p \in Placements, breaker'[p].state = "half_open"
             PROVE  \E r \in Requests : Probing(r, p)'
  BY DEF HalfOpenIsProbed, Probing
<1> USE DEF BaseInv, HandlerTypeOK, BreakerTypeOK, Breaker, BreakerStates
<1>1. ASSUME NEW r \in Requests, PassBreaker(r), key[r] = p
      PROVE  Probing(r, p)'
  BY <1>1 DEF PassBreaker, Move, Probing
<1>2. ASSUME NEW r \in Requests, AnswerOk(r) \/ AnswerError(r), key[r] \in Placements
      PROVE  key[r] # p
  BY <1>2 DEF AnswerOk, AnswerError, RecordSuccess, RecordFailure, Trips
<1>3. ASSUME ~\E r \in Requests : PassBreaker(r) /\ key[r] = p
      PROVE  breaker[p].state = "half_open"
  <2>1. ASSUME NEW r \in Requests, AnswerOk(r) \/ AnswerError(r), key[r] \in Placements
        PROVE  breaker'[p] = breaker[p]
    BY <1>2, <2>1 DEF AnswerOk, AnswerError, RecordSuccess, RecordFailure
  <2>2. ASSUME NEW r \in Requests, PassBreaker(r), key[r] \in Placements
        PROVE  breaker'[p] = breaker[p]
    BY <1>3, <2>2 DEF PassBreaker, Allow
  <2>3. ASSUME NEW o \in Placements, TimeoutElapses(o)
        PROVE  breaker'[p].state = breaker[p].state
    BY <2>3 DEF TimeoutElapses
  <2> QED
    BY <2>1, <2>2, <2>3, BreakerSteps
<1>4. CASE \E r \in Requests : PassBreaker(r) /\ key[r] = p
  BY <1>1, <1>4
<1>5. CASE ~\E r \in Requests : PassBreaker(r) /\ key[r] = p
  <2>1. PICK q \in Requests : Probing(q, p)
    BY <1>3, <1>5 DEF HalfOpenIsProbed, Probing
  <2>2. ~(AnswerOk(q) \/ AnswerError(q))
    BY <1>2, <2>1 DEF Probing
  <2> QED
    BY <2>1, <2>2, ProbesPersist
<1> QED
  BY <1>4, <1>5

(* A half-open circuit always has in flight a request that it let through. *)
THEOREM HalfOpenProbed == HandlerSpec => []HalfOpenIsProbed
<1>1. HandlerInit => BaseInv /\ HalfOpenIsProbed
  BY InitTypes DEF HandlerInit, BreakerInit, NewBreaker, HalfOpenIsProbed
<1>2. BaseInv /\ HalfOpenIsProbed /\ [HandlerNext]_vars => (BaseInv /\ HalfOpenIsProbed)'
  BY NextTypes, NextProbed
<1> QED
  BY <1>1, <1>2, PTL DEF HandlerSpec

(***************************************************************************)
(* Open circuits.  A placement whose fallback is itself, or fails over to  *)
(* it, may get its own refused requests back.  Config.Validate accepts it. *)
(***************************************************************************)
LeadsBack(p) ==
  Fallback[p] # NoPlacement /\ (Fallback[p] = p \/ Failover(Fallback[p]) = p)

(* A request that was refused has been turned to the fallback, and comes   *)
(* back to where it was routed only where the fallback leads back.         *)
RefusedTurnedAway ==
  \A r \in Requests : verdict[r] = "refused" =>
    /\ pc[r] = "checked" => Fallback[key[r]] # NoPlacement /\ target[r] = Fallback[key[r]]
    /\ pc[r] = "proxying" /\ target[r] = key[r] => LeadsBack(key[r])

LEMMA NextTurnedAway ==
  ASSUME BaseInv, RefusedTurnedAway, [HandlerNext]_vars
  PROVE  RefusedTurnedAway'
<1> DEFINE Turned(q) ==
      /\ pc'[q] = "checked" => /\ Fallback[key'[q]] # NoPlacement
                               /\ target'[q] = Fallback[key'[q]]
      /\ pc'[q] = "proxying" /\ target'[q] = key'[q] => LeadsBack(key'[q])
<1> SUFFICES ASSUME NEW q \in Requests, verdict'[q] = "refused"
             PROVE  Turned(q)
  BY DEF RefusedTurnedAway, LeadsBack, Failover
<1> USE DEF BaseInv, HandlerTypeOK, RefusedTurnedAway, Move
<1>1. CASE UNCHANGED requestVars
  BY <1>1 DEF requestVars
<1>2. ASSUME NEW r \in Requests, NEW p \in Placements, Receive(r, p)
      PROVE  Turned(q)
  BY <1>2 DEF Receive
<1>3. ASSUME NEW r \in Requests, Forward(r)
      PROVE  Turned(q)
  BY <1>3 DEF Forward, LeadsBack
<1>4. ASSUME NEW r \in Requests, Progress(r), ~Forward(r)
      PROVE  Turned(q)
  BY <1>4 DEF Progress, Consult, Admit, RefuseBusy, RefuseBody, PassBreaker,
              DivertOpen, FailFast, AnswerOk, AnswerError, Leave, Forget
<1> QED
  BY <1>1, <1>2, <1>3, <1>4 DEF HandlerNext, Background, Clock, vars

LEMMA RefusedAreTurnedAway == HandlerSpec => []RefusedTurnedAway
<1>1. HandlerInit => BaseInv /\ RefusedTurnedAway
  BY InitTypes DEF HandlerInit, RefusedTurnedAway
<1>2. BaseInv /\ RefusedTurnedAway /\ [HandlerNext]_vars
        => (BaseInv /\ RefusedTurnedAway)'
  BY NextTypes, NextTurnedAway
<1> QED
  BY <1>1, <1>2, PTL DEF HandlerSpec

(***************************************************************************)
(* In every configuration, a request that an open circuit refused and that *)
(* ServeHTTP sends to the placement of that circuit nevertheless was       *)
(* routed to a placement whose fallback leads straight back to it: longer  *)
(* chains, and health changing between the two failovers, cannot cause it. *)
(***************************************************************************)
OnlyLoopsReturn ==
  \A r \in Requests :
    pc[r] = "proxying" /\ verdict[r] = "refused" /\ target[r] = key[r] => LeadsBack(key[r])

THEOREM OnlyLoopsBypass == HandlerSpec => []OnlyLoopsReturn
<1>1. RefusedTurnedAway => OnlyLoopsReturn
  BY DEF RefusedTurnedAway, OnlyLoopsReturn
<1> QED
  BY <1>1, RefusedAreTurnedAway, PTL

(* Hence OpenCircuitNotBypassed wherever no fallback leads straight back.  *)
THEOREM OpenCircuitsHold ==
  ASSUME \A p \in Placements : ~LeadsBack(p)
  PROVE  HandlerSpec => []OpenCircuitNotBypassed
<1>1. BaseInv /\ OnlyLoopsReturn => OpenCircuitNotBypassed
  BY DEF OnlyLoopsReturn, OpenCircuitNotBypassed, BaseInv, HandlerTypeOK
<1> QED
  BY <1>1, OnlyLoopsBypass, HandlerRunsBase, PTL

(***************************************************************************)
(* The handler as a client of its components: what is proved of each under *)
(* any client holds while requests run.                                    *)
(***************************************************************************)
(* The breakers see nothing but their own operations, one at a time.       *)
THEOREM HandlerDrivesBreakers == HandlerSpec => BreakerSpec
<1>1. BaseInv /\ [HandlerNext]_vars => [BreakerNext]_breaker
  BY BreakerSteps DEF BreakerNext, PassBreaker, AnswerOk, AnswerError
<1>2. HandlerInit => BreakerInit
  BY DEF HandlerInit
<1> QED
  BY <1>1, <1>2, HandlerRunsBase, PTL DEF HandlerSpec, BreakerSpec

(* Hence no traffic keeps an open circuit from being due.                  *)
THEOREM TrafficPostponesNoRetry == HandlerSpec => RetriesStayDue
BY HandlerDrivesBreakers, RetriesAreNotPostponed, PTL

(* The checkers see the configuration loop and their probes only: no       *)
(* request writes what it reads there.                                     *)
LEMMA HandlerDrivesCheckers == [HandlerNext]_vars => [ResilienceNext]_resilienceVars
BY DEF HandlerNext, Progress, Consult, Receive, Admit, RefuseBusy, RefuseBody, PassBreaker,
       DivertOpen, FailFast, Forward, AnswerOk, AnswerError, Leave, Background, Clock, vars,
       ResilienceNext

(* With no health_check configured, every probe reaches the requests.      *)
THEOREM RequestsSeeEveryProbe ==
  ASSUME OwnHealthCheck = {}
  PROVE  HandlerSpec => []EveryProbeCounts
<1>1. HandlerInit => OneChecker /\ ResilienceTypeOK
  BY ResilienceTyped DEF HandlerInit, ResilienceInit, OneChecker
<1>2. OneChecker => EveryProbeCounts
  BY DEF OneChecker, EveryProbeCounts, IsHealthy
<1>3. ResilienceTypeOK /\ OneChecker /\ [HandlerNext]_vars => (ResilienceTypeOK /\ OneChecker)'
  BY HandlerDrivesCheckers, ResilienceStaysTyped, OneCheckerStays
<1> QED
  BY <1>1, <1>2, <1>3, PTL DEF HandlerSpec

(***************************************************************************)
(* Every semaphore that a request is about to release has its slot in it:  *)
(* the blocking receive of Release never waits, on any path out of         *)
(* ServeHTTP (the part of EveryRequestAnswered that is safety).            *)
(***************************************************************************)
ReleaseNeverBlocks ==
  \A r \in Requests : pc[r] = "leaving" /\ Limited(key[r]) => slots[key[r]] > 0

THEOREM DeferredReleaseRuns == HandlerSpec => []ReleaseNeverBlocks
<1>1. BaseInv /\ SlotAccounting => ReleaseNeverBlocks
  <2> SUFFICES ASSUME BaseInv, SlotAccounting, NEW r \in Requests,
                      pc[r] = "leaving", Limited(key[r])
               PROVE  slots[key[r]] > 0
    BY DEF ReleaseNeverBlocks
  <2>1. key[r] \in Placements
    BY DEF BaseInv, HandlerTypeOK
  <2>2. r \in Holders(key[r])
    BY DEF Holders, Admitted
  <2>3. /\ IsFiniteSet(Holders(key[r]))
        /\ Cardinality(Holders(key[r])) \in Nat
        /\ slots[key[r]] = Cardinality(Holders(key[r]))
    BY <2>1, HoldersFinite DEF SlotAccounting
  <2>4. Cardinality(Holders(key[r])) # 0
    BY <2>2, <2>3, FS_EmptySet
  <2> QED
    BY <2>3, <2>4
<1>2. HandlerInit => BaseInv /\ SlotAccounting
  BY InitTypes, InitSlots
<1>3. BaseInv /\ SlotAccounting /\ [HandlerNext]_vars => (BaseInv /\ SlotAccounting)'
  BY NextTypes, NextSlots
<1> QED
  BY <1>1, <1>2, <1>3, PTL DEF HandlerSpec

(***************************************************************************)
(* The load of a placement.  A failover sends a request to a placement     *)
(* without taking one of its slots.                                        *)
(***************************************************************************)

(* Where a request that was routed to q may be sent.                       *)
Destinations(q) ==
  {q, Failover(q)} \union {Failover(f) : f \in {Fallback[q]} \ {NoPlacement}}

(* How far each request may have strayed from where it was routed.         *)
OnCourse ==
  \A r \in Requests :
    /\ pc[r] \in {"arrived", "admitted"} => target[r] = key[r]
    /\ pc[r] = "checked" =>
         target[r] = key[r] \/ target[r] \in {Fallback[key[r]]} \ {NoPlacement}
    /\ pc[r] = "proxying" => target[r] \in Destinations(key[r])

LEMMA NextOnCourse ==
  ASSUME BaseInv, OnCourse, [HandlerNext]_vars
  PROVE  OnCourse'
<1> DEFINE Course(q) ==
      /\ pc'[q] \in {"arrived", "admitted"} => target'[q] = key'[q]
      /\ pc'[q] = "checked" =>
           target'[q] = key'[q] \/ target'[q] \in {Fallback[key'[q]]} \ {NoPlacement}
      /\ pc'[q] = "proxying" => target'[q] \in Destinations(key'[q])
<1> SUFFICES ASSUME NEW q \in Requests
             PROVE  Course(q)
  BY DEF OnCourse, Destinations
<1> USE DEF BaseInv, HandlerTypeOK, OnCourse, Move
<1>1. CASE UNCHANGED requestVars
  BY <1>1 DEF requestVars
<1>2. ASSUME NEW r \in Requests, NEW p \in Placements, Receive(r, p)
      PROVE  Course(q)
  BY <1>2 DEF Receive
<1>3. ASSUME NEW r \in Requests, Forward(r)
      PROVE  Course(q)
  BY <1>3 DEF Forward, Destinations, Failover
<1>4. ASSUME NEW r \in Requests, Progress(r), ~Forward(r)
      PROVE  Course(q)
  BY <1>4 DEF Progress, Consult, Admit, RefuseBusy, RefuseBody, PassBreaker,
              DivertOpen, FailFast, AnswerOk, AnswerError, Leave, Forget
<1> QED
  BY <1>1, <1>2, <1>3, <1>4 DEF HandlerNext, Background, Clock, vars

(* The requests that wait for the upstream p.                              *)
Load(p) == {r \in Requests : pc[r] = "proxying" /\ target[r] = p}

(***************************************************************************)
(* A placement is sent at most what its own limit admits and what is       *)
(* admitted under the one placement that fails over to it, on whatever     *)
(* path and however late its circuit or its health changed (the two        *)
(* failovers of ServeHTTP).                                                *)
(***************************************************************************)
THEOREM LoadIsBounded ==
  ASSUME NEW p \in Placements, NEW q \in Placements, p # q, Limited(p), Limited(q),
         \A o \in Placements \ {p, q} : p \notin Destinations(o)
  PROVE  HandlerSpec => [](Cardinality(Load(p)) <= ConcurrencyLimit[p] + ConcurrencyLimit[q])
<1> DEFINE Inv == BaseInv /\ SlotAccounting /\ OnCourse
           Bounded == Cardinality(Load(p)) <= ConcurrencyLimit[p] + ConcurrencyLimit[q]
<1>1. HandlerInit => Inv
  BY InitTypes, InitSlots DEF HandlerInit, OnCourse
<1>2. Inv /\ [HandlerNext]_vars => Inv'
  BY NextTypes, NextSlots, NextOnCourse
<1>3. Inv => Bounded
  <2> SUFFICES ASSUME Inv
               PROVE  Bounded
    OBVIOUS
  <2>1. Load(p) \subseteq Holders(p) \union Holders(q)
    BY DEF Load, OnCourse, BaseInv, HandlerTypeOK, Holders, Admitted
  <2>2. /\ IsFiniteSet(Holders(p)) /\ Cardinality(Holders(p)) <= ConcurrencyLimit[p]
        /\ IsFiniteSet(Holders(q)) /\ Cardinality(Holders(q)) <= ConcurrencyLimit[q]
    BY HoldersFinite DEF SlotAccounting
  <2>3. /\ IsFiniteSet(Holders(p) \union Holders(q))
        /\ Cardinality(Holders(p) \union Holders(q))
             = Cardinality(Holders(p)) + Cardinality(Holders(q))
               - Cardinality(Holders(p) \intersect Holders(q))
        /\ Cardinality(Holders(p) \intersect Holders(q)) \in Nat
    BY <2>2, FS_Union, FS_Intersection, FS_CardinalityType
  <2>4. Cardinality(Load(p)) <= Cardinality(Holders(p) \union Holders(q))
    BY <2>1, <2>3, FS_Subset
  <2>5. /\ Cardinality(Load(p)) \in Nat
        /\ Cardinality(Holders(p)) \in Nat /\ Cardinality(Holders(q)) \in Nat
        /\ ConcurrencyLimit[p] \in Int /\ ConcurrencyLimit[q] \in Int
    BY <2>1, <2>2, <2>3, FS_Subset, FS_CardinalityType, LimitsAssumption
  <2> QED
    BY <2>2, <2>3, <2>4, <2>5
<1> QED
  BY <1>1, <1>2, <1>3, PTL DEF HandlerSpec
=============================================================================
