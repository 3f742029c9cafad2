------------------------------ MODULE Bulkhead ------------------------------
(***************************************************************************)
(* What a concurrency limit promises: a request is inside at most one      *)
(* placement, and a limited placement never holds more requests than its   *)
(* capacity.  A capacity of zero or less means no limit.                   *)
(***************************************************************************)
EXTENDS Integers, FiniteSets

CONSTANTS
  Requests,    \* the requests
  Placements,  \* the placements
  Capacity     \* the limit of each placement

VARIABLE inside  \* the requests each placement has admitted

HasRoom(p) == Capacity[p] > 0 => Cardinality(inside[p]) < Capacity[p]

BulkheadInit == inside = [p \in Placements |-> {}]

Enter(r, p) ==
  /\ \A q \in Placements : r \notin inside[q]
  /\ HasRoom(p)
  /\ inside' = [inside EXCEPT ![p] = @ \union {r}]

Exit(r, p) ==
  /\ r \in inside[p]
  /\ inside' = [inside EXCEPT ![p] = @ \ {r}]

BulkheadNext ==
  \E r \in Requests, p \in Placements : Enter(r, p) \/ Exit(r, p)

BulkheadSpec == BulkheadInit /\ [][BulkheadNext]_inside
=============================================================================
