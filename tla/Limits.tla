------------------------------- MODULE Limits -------------------------------
(***************************************************************************)
(* The limits manager of internal/limits.  A placement with a positive     *)
(* concurrency limit has a counting semaphore, a buffered channel whose    *)
(* length is slots[p]; TryAcquire sends to it without blocking and Release *)
(* receives from it, blocking while it is empty.  Looking a semaphore up   *)
(* and using it are two steps in the code, but the maps are written only   *)
(* while the handler is being built, so the two are one step here.         *)
(***************************************************************************)
EXTENDS Integers, Cells

CONSTANTS
  ConcurrencyLimit,  \* limits.Config.MaxConcurrentRequests of each placement
  MaxBody            \* limits.Config.MaxRequestBodyBytes of each placement

ASSUME LimitsAssumption ==
  /\ ConcurrencyLimit \in [Placements -> Int]
  /\ MaxBody \in [Placements -> Int]

VARIABLE slots       \* how many slots of each semaphore are taken

(* SetConfig gives a semaphore only to a positive limit, whether or not    *)
(* the placement also limits bodies.                                       *)
Limited(p) == ConcurrencyLimit[p] > 0

LimitsInit == slots = [p \in Placements |-> 0]

(* A variant of TryAcquire that admits one request too many.               *)
TryAcquireOffByOne(p) ==
  \/ /\ ~Limited(p)
     /\ UNCHANGED slots
  \/ /\ Limited(p)
     /\ slots[p] <= ConcurrencyLimit[p]
     /\ slots' = [slots EXCEPT ![p] = @ + 1]

(* Manager.TryAcquire when it returns TRUE.                                *)
TryAcquire(p) ==
  \/ /\ ~Limited(p)
     /\ UNCHANGED slots
  \/ /\ Limited(p)
     /\ slots[p] < ConcurrencyLimit[p]
     /\ slots' = [slots EXCEPT ![p] = @ + 1]

(* Manager.TryAcquire returns FALSE, and changes nothing, exactly here.    *)
AtLimit(p) == Limited(p) /\ slots[p] >= ConcurrencyLimit[p]

(* Manager.Release: never enabled on an empty semaphore, where it blocks.  *)
Release(p) ==
  \/ /\ ~Limited(p)
     /\ UNCHANGED slots
  \/ /\ Limited(p)
     /\ slots[p] > 0
     /\ slots' = [slots EXCEPT ![p] = @ - 1]

(* ValidateRequestBodySize reports an error for a declared length of n.    *)
(* The handler registers a limits.Config only when one of the two limits   *)
(* is positive, and asks only about a declared, non-empty body: an unknown *)
(* length is -1 in Go and passes.                                          *)
BodyTooLarge(p, n) ==
  /\ n > 0
  /\ ConcurrencyLimit[p] > 0 \/ MaxBody[p] > 0
  /\ MaxBody[p] # 0
  /\ n > MaxBody[p]
=============================================================================
