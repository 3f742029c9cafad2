--------------------------- MODULE BreakerHistory ---------------------------
(***************************************************************************)
(* The circuit breakers with a history variable that the code does not     *)
(* keep: the outcomes recorded in the current closed period of each        *)
(* circuit.  With it the counting implementation is shown to implement     *)
(* BreakerContract.                                                        *)
(***************************************************************************)
EXTENDS CircuitBreaker, Sequences

VARIABLE window      \* the last FailureThreshold outcomes recorded while closed

historyVars == <<breaker, window>>

Contract == INSTANCE BreakerContract WITH
  Threshold <- FailureThreshold,
  circuit   <- [p \in Placements |-> breaker[p].state],
  cooling   <- [p \in Placements |-> ~breaker[p].due]

(* An outcome is remembered only while the circuit is closed, and opening  *)
(* the circuit forgets what was remembered.                                *)
Remember(p, o) ==
  window' = [window EXCEPT ![p] =
    IF breaker[p].state # "closed" \/ breaker'[p].state = "open" THEN <<>>
    ELSE Contract!Latest(Append(@, o))]

HistoryInit == BreakerInit /\ window = [p \in Placements |-> <<>>]

HistoryNext ==
  \E p \in Placements :
    \/ Allow(p) /\ UNCHANGED window
    \/ RecordSuccess(p) /\ Remember(p, "ok")
    \/ RecordFailure(p) /\ Remember(p, "fail")
    \/ TimeoutElapses(p) /\ UNCHANGED window

HistorySpec == HistoryInit /\ [][HistoryNext]_historyVars

(***************************************************************************)
(* The breaker opens at the FailureThreshold-th consecutive failure of a   *)
(* closed period and at no other report, whatever late failures were       *)
(* counted while it was open; a report that reaches an open circuit does   *)
(* not move it or prolong its timeout; it closes only from half-open       *)
(* (Allow, RecordSuccess and RecordFailure of breaker.go).                 *)
(***************************************************************************)
ImplementsContract == Contract!ContractSpec
=============================================================================
