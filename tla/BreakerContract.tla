-------------------------- MODULE BreakerContract --------------------------
(***************************************************************************)
(* What a circuit breaker promises, without its counter and its clock.     *)
(*                                                                         *)
(* While a circuit is closed the contract remembers the outcomes that were *)
(* reported, newest last and at most Threshold of them.  The circuit opens *)
(* at the very report that makes the last Threshold outcomes failures, and *)
(* never otherwise; it leaves the open state only when its cool-down is    *)
(* over, and only into half-open; it closes only on a success reported     *)
(* while it is half-open, and starts again with an empty memory.           *)
(***************************************************************************)
EXTENDS Naturals, Sequences

CONSTANTS
  Placements,  \* the circuits, one per placement
  Threshold    \* consecutive failures that open a circuit

VARIABLES
  circuit,     \* the state of each circuit
  window,      \* the outcomes of the current closed period, newest last
  cooling      \* whether an open circuit still waits for its timeout

contractVars == <<circuit, window, cooling>>

Outcomes == {"ok", "fail"}

(* The last Threshold elements of w.                                       *)
Latest(w) ==
  IF Len(w) <= Threshold THEN w
  ELSE SubSeq(w, Len(w) - Threshold + 1, Len(w))

AllFailed(w) == Len(w) = Threshold /\ \A i \in DOMAIN w : w[i] = "fail"

ContractInit ==
  /\ circuit = [p \in Placements |-> "closed"]
  /\ window  = [p \in Placements |-> <<>>]
  /\ cooling = [p \in Placements |-> FALSE]

OpenCircuit(p) ==
  /\ circuit' = [circuit EXCEPT ![p] = "open"]
  /\ cooling' = [cooling EXCEPT ![p] = TRUE]
  /\ window'  = [window EXCEPT ![p] = <<>>]

ReportWhileClosed(p, o) ==
  LET w == Latest(Append(window[p], o))
  IN /\ circuit[p] = "closed"
     /\ \/ /\ AllFailed(w)
           /\ OpenCircuit(p)
        \/ /\ ~AllFailed(w)
           /\ window' = [window EXCEPT ![p] = w]
           /\ UNCHANGED <<circuit, cooling>>

CoolDown(p) ==
  /\ circuit[p] = "open" /\ cooling[p]
  /\ cooling' = [cooling EXCEPT ![p] = FALSE]
  /\ UNCHANGED <<circuit, window>>

StartProbing(p) ==
  /\ circuit[p] = "open" /\ ~cooling[p]
  /\ circuit' = [circuit EXCEPT ![p] = "half_open"]
  /\ UNCHANGED <<window, cooling>>

Recover(p) ==
  /\ circuit[p] = "half_open"
  /\ circuit' = [circuit EXCEPT ![p] = "closed"]
  /\ UNCHANGED <<window, cooling>>

Relapse(p) ==
  /\ circuit[p] = "half_open"
  /\ OpenCircuit(p)

ContractNext ==
  \E p \in Placements :
    \/ \E o \in Outcomes : ReportWhileClosed(p, o)
    \/ CoolDown(p)
    \/ StartProbing(p)
    \/ Recover(p)
    \/ Relapse(p)

ContractSpec == ContractInit /\ [][ContractNext]_contractVars
=============================================================================
