--------------------------- MODULE HealthChecker ---------------------------
(***************************************************************************)
(* The health checkers of internal/health.  Each registered endpoint is an *)
(* object of one checker with a goroutine (checkLoop) of its own, which is *)
(* its only writer: a probe performed by performCheck and the write of its *)
(* result by transitionState are therefore one step, whose result the      *)
(* environment chooses.  Requests read the state at any moment.            *)
(*                                                                         *)
(* In this program a placement is registered with at most one checker, so  *)
(* endpoints and loops are indexed by placement, and owner says whose they *)
(* are.                                                                    *)
(***************************************************************************)
EXTENDS Cells

CONSTANTS
  Checkers,  \* the health.Checker objects that may exist
  Nobody     \* the owner of an endpoint that is not registered

ASSUME CheckerAssumption == Nobody \notin Checkers

VARIABLES
  owner,       \* the checker each endpoint is registered with
  unhealthy,   \* the endpoints whose last probe failed
  loop,        \* each endpoint's checkLoop goroutine
  closed       \* the checkers whose stopCh is closed

healthVars == <<owner, unhealthy, loop, closed>>

(* A loop that has started performs its first probe before it can exit.    *)
LoopStates == {"none", "started", "waiting", "exited"}

HealthInit ==
  /\ owner = [p \in Placements |-> Nobody]
  /\ unhealthy = {}
  /\ loop = [p \in Placements |-> "none"]
  /\ closed = {}

(* Checker.RegisterEndpoint: the endpoint starts healthy and its loop is   *)
(* started.                                                                *)
RegisterEndpoint(c, p) ==
  /\ owner[p] = Nobody
  /\ owner' = [owner EXCEPT ![p] = c]
  /\ loop' = [loop EXCEPT ![p] = "started"]
  /\ UNCHANGED <<unhealthy, closed>>

(* Checker.IsHealthy: an endpoint the checker does not know is healthy.    *)
IsHealthy(c, p) == owner[p] = c => p \notin unhealthy

(* One turn of checkLoop that probes: the first, or a tick.  The select    *)
(* may prefer a tick that is ready to a stopCh that is closed.             *)
CheckRound(p) ==
  /\ loop[p] \in {"started", "waiting"}
  /\ \/ unhealthy' = unhealthy \ {p}
     \/ unhealthy' = unhealthy \union {p}
  /\ loop' = [loop EXCEPT ![p] = "waiting"]
  /\ UNCHANGED <<owner, closed>>

(* checkLoop returns and releases the wait group.                          *)
LoopExit(p) ==
  /\ loop[p] = "waiting"
  /\ owner[p] \in closed
  /\ loop' = [loop EXCEPT ![p] = "exited"]
  /\ UNCHANGED <<owner, unhealthy, closed>>

(* A variant of CloseStop that forgets to close the channel.               *)
CloseStopForgotten(c) == c \notin closed /\ UNCHANGED healthVars

(* The first half of Checker.Stop.  A second Stop of a checker would close *)
(* a closed channel, which panics.                                         *)
CloseStop(c) ==
  /\ c \notin closed
  /\ closed' = closed \union {c}
  /\ UNCHANGED <<owner, unhealthy, loop>>

(* wg.Wait() returns.                                                      *)
AllExited(c) == \A p \in Placements : owner[p] = c => loop[p] = "exited"

HealthTypeOK ==
  /\ owner \in [Placements -> Checkers \union {Nobody}]
  /\ unhealthy \subseteq Placements
  /\ loop \in [Placements -> LoopStates]
  /\ closed \subseteq Checkers
=============================================================================
