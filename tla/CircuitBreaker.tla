--------------------------- MODULE CircuitBreaker ---------------------------
(***************************************************************************)
(* The circuit breakers of internal/circuit: one per placement, each a     *)
(* record guarded by its own mutex, so that every exported method is one   *)
(* atomic step.  Manager.GetBreaker creates a breaker on first use in the  *)
(* state every breaker starts in, which is the same as having one for each *)
(* placement from the start.                                               *)
(*                                                                         *)
(* The clock appears only as now.After(nextRetryTime): "due" is cleared    *)
(* when the retry time is set and becomes TRUE again when it has passed.   *)
(* The failure counter keeps its width: it counts modulo CounterRange,     *)
(* which is 2^32 in the code.                                              *)
(***************************************************************************)
EXTENDS Naturals, Cells

CONSTANTS
  FailureThreshold,  \* circuit.Config.FailureThreshold
  CounterRange       \* number of values of the counter, a uint32

ASSUME BreakerAssumption ==
  /\ FailureThreshold \in Nat \ {0}
  /\ CounterRange \in Nat
  /\ FailureThreshold < CounterRange

VARIABLE breaker     \* the breaker of each placement

BreakerStates == {"closed", "open", "half_open"}

Breaker == [state : BreakerStates, failures : 0 .. CounterRange - 1, due : BOOLEAN]

NewBreaker == [state |-> "closed", failures |-> 0, due |-> TRUE]

BreakerInit == breaker = [p \in Placements |-> NewBreaker]

(* Breaker.Allow when it returns TRUE.  An open circuit whose timeout has  *)
(* elapsed turns half-open, and a half-open circuit lets everyone through. *)
Allow(p) ==
  \/ /\ breaker[p].state # "open"
     /\ UNCHANGED breaker
  \/ /\ breaker[p].state = "open"
     /\ breaker[p].due
     /\ breaker' = [breaker EXCEPT ![p].state = "half_open"]

(* Breaker.Allow returns FALSE, and changes nothing, exactly here.         *)
Refuses(p) == breaker[p].state = "open" /\ ~breaker[p].due

(* A variant of RecordSuccess that forgets to reset the count.             *)
RecordSuccessKeepsCount(p) ==
  \/ /\ breaker[p].state = "open"
     /\ UNCHANGED breaker
  \/ /\ breaker[p].state # "open"
     /\ breaker' = [breaker EXCEPT ![p].state = "closed"]

RecordSuccess(p) ==
  \/ /\ breaker[p].state = "open"
     /\ UNCHANGED breaker
  \/ /\ breaker[p].state # "open"
     /\ breaker' = [breaker EXCEPT ![p].state = "closed", ![p].failures = 0]

(* A variant that forgets the width of the counter.                        *)
IncrementedUnbounded(n) == n + 1

Incremented(n) == IF n + 1 = CounterRange THEN 0 ELSE n + 1

(* A variant of Trips that ignores the failure of a half-open circuit.     *)
TripsOnlyClosed(b, n) == b.state = "closed" /\ n >= FailureThreshold

(* Whether the failure that brings the count to n opens the circuit.       *)
Trips(b, n) ==
  \/ b.state = "half_open"
  \/ b.state = "closed" /\ n >= FailureThreshold

(* A variant of RecordFailure that restarts the timeout of an open circuit.*)
RecordFailureRestartsTimeout(p) ==
  LET n == Incremented(breaker[p].failures)
      b == breaker[p]
  IN breaker' = [breaker EXCEPT ![p] =
       IF Trips(b, n) \/ b.state = "open"
       THEN [state |-> "open", failures |-> n, due |-> FALSE]
       ELSE [b EXCEPT !.failures = n]]

RecordFailure(p) ==
  LET n == Incremented(breaker[p].failures)
      b == breaker[p]
  IN breaker' = [breaker EXCEPT ![p] =
       IF Trips(b, n)
       THEN [state |-> "open", failures |-> n, due |-> FALSE]
       ELSE [b EXCEPT !.failures = n]]

(* The clock passes nextRetryTime.                                         *)
TimeoutElapses(p) ==
  /\ ~breaker[p].due
  /\ breaker' = [breaker EXCEPT ![p].due = TRUE]

(***************************************************************************)
(* The breakers under an arbitrary client: the handler also records the    *)
(* outcome of requests that Allow refused and that went to a fallback, so  *)
(* no order of calls is excluded.                                          *)
(***************************************************************************)
BreakerNext ==
  \E p \in Placements :
    \/ Allow(p)
    \/ RecordSuccess(p)
    \/ RecordFailure(p)
    \/ TimeoutElapses(p)

BreakerSpec == BreakerInit /\ [][BreakerNext]_breaker

BreakerTypeOK == breaker \in [Placements -> Breaker]

(***************************************************************************)
(* A circuit that is closed has counted fewer failures than the threshold, *)
(* whatever happened in earlier open or half-open periods and even if the  *)
(* counter wrapped around in them; a circuit waiting for its timeout is    *)
(* open.                                                                   *)
(***************************************************************************)
ClosedBelowThreshold ==
  \A p \in Placements :
    /\ breaker[p].state = "closed" => breaker[p].failures < FailureThreshold
    /\ ~breaker[p].due => breaker[p].state = "open"
=============================================================================
