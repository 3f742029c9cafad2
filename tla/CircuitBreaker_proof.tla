------------------------ MODULE CircuitBreaker_proof ------------------------
(***************************************************************************)
(* What the operations of the breakers preserve, whoever calls them.       *)
(***************************************************************************)
EXTENDS CircuitBreaker, TLAPS

(* Every operation on the breaker of p leaves the types and the counts of  *)
(* all breakers in order, and the other breakers alone.                    *)
LEMMA OperationsKeepBreakers ==
  ASSUME BreakerTypeOK, ClosedBelowThreshold, NEW p \in Placements,
         Allow(p) \/ RecordSuccess(p) \/ RecordFailure(p) \/ TimeoutElapses(p)
  PROVE  /\ BreakerTypeOK' /\ ClosedBelowThreshold'
         /\ \A q \in Placements \ {p} : breaker'[q] = breaker[q]
<1> USE BreakerAssumption
        DEF BreakerTypeOK, Breaker, BreakerStates, ClosedBelowThreshold
<1>1. CASE Allow(p)
  BY <1>1 DEF Allow
<1>2. CASE RecordSuccess(p)
  BY <1>2 DEF RecordSuccess
<1>3. CASE RecordFailure(p)
  <2>1. Incremented(breaker[p].failures) \in 0 .. CounterRange - 1
    BY DEF Incremented
  <2>2. BreakerTypeOK' /\ \A q \in Placements \ {p} : breaker'[q] = breaker[q]
    BY <1>3, <2>1 DEF RecordFailure
  <2>3. ClosedBelowThreshold'
    BY <1>3 DEF RecordFailure, Trips, Incremented
  <2> QED
    BY <2>2, <2>3
<1>4. CASE TimeoutElapses(p)
  BY <1>4 DEF TimeoutElapses
<1> QED
  BY <1>1, <1>2, <1>3, <1>4

LEMMA BreakersStart == BreakerInit => BreakerTypeOK /\ ClosedBelowThreshold
<1> SUFFICES ASSUME BreakerInit
             PROVE  BreakerTypeOK /\ ClosedBelowThreshold
  OBVIOUS
<1>1. /\ NewBreaker \in Breaker
      /\ NewBreaker.failures < FailureThreshold
      /\ NewBreaker.due
  BY BreakerAssumption DEF NewBreaker, Breaker, BreakerStates
<1> QED
  BY <1>1 DEF BreakerInit, BreakerTypeOK, ClosedBelowThreshold

(* No order of calls brings a closed circuit to the threshold: it opens    *)
(* first, even if the counter wrapped around while it was open before.     *)
THEOREM BreakersStayInOrder == BreakerSpec => [](BreakerTypeOK /\ ClosedBelowThreshold)
<1>1. ASSUME BreakerTypeOK, ClosedBelowThreshold, [BreakerNext]_breaker
      PROVE  (BreakerTypeOK /\ ClosedBelowThreshold)'
  <2>1. CASE UNCHANGED breaker
    BY <1>1, <2>1 DEF BreakerTypeOK, ClosedBelowThreshold
  <2>2. CASE BreakerNext
    BY <1>1, <2>2, OperationsKeepBreakers DEF BreakerNext
  <2> QED
    BY <1>1, <2>1, <2>2
<1> QED
  BY <1>1, BreakersStart, PTL DEF BreakerSpec

(* Type correctness alone: the counter keeps its width.                    *)
THEOREM BreakersTyped == BreakerSpec => []BreakerTypeOK
BY BreakersStayInOrder, PTL

(* Once the timeout of an open circuit has passed, nothing postpones the   *)
(* retry: failures that are reported meanwhile, of late requests or of a   *)
(* fallback, leave the circuit due until it turns half-open (RecordFailure *)
(* sets nextRetryTime only where it opens the circuit).                    *)
RetriesStayDue ==
  [][\A p \in Placements :
       breaker[p].state = "open" /\ breaker[p].due
         => breaker'[p].state # "closed" /\ breaker'[p].due]_breaker

THEOREM RetriesAreNotPostponed == BreakerSpec => RetriesStayDue
<1>1. ASSUME BreakerTypeOK, ClosedBelowThreshold, [BreakerNext]_breaker,
             NEW p \in Placements, breaker[p].state = "open", breaker[p].due
      PROVE  breaker'[p].state # "closed" /\ breaker'[p].due
  <2>1. CASE UNCHANGED breaker
    BY <1>1, <2>1
  <2>2. ASSUME NEW q \in Placements,
               Allow(q) \/ RecordSuccess(q) \/ RecordFailure(q) \/ TimeoutElapses(q)
        PROVE  breaker'[p].state # "closed" /\ breaker'[p].due
    <3>1. CASE q # p
      BY <1>1, <2>2, <3>1, OperationsKeepBreakers
    <3>2. CASE q = p
      BY <1>1, <2>2, <3>2
      DEF BreakerTypeOK, Breaker, BreakerStates, Allow, RecordSuccess, RecordFailure, Trips,
          TimeoutElapses
    <3> QED
      BY <3>1, <3>2
  <2> QED
    BY <1>1, <2>1, <2>2 DEF BreakerNext
<1>2. BreakerTypeOK /\ ClosedBelowThreshold /\ [BreakerNext]_breaker
        => [\A p \in Placements :
              breaker[p].state = "open" /\ breaker[p].due
                => breaker'[p].state # "closed" /\ breaker'[p].due]_breaker
  BY <1>1
<1> QED
  BY <1>2, BreakersStayInOrder, PTL DEF BreakerSpec, RetriesStayDue
=============================================================================
