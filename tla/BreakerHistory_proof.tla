------------------------ MODULE BreakerHistory_proof ------------------------
(***************************************************************************)
(* The counting breaker implements the contract, for every set of          *)
(* placements, every threshold and every width of the counter.             *)
(***************************************************************************)
EXTENDS BreakerHistory, CircuitBreaker_proof

(* The last n outcomes of w are failures, and the one before is not.       *)
EndsWithFailures(w, n) ==
  /\ n <= Len(w)
  /\ \A i \in 1 .. Len(w) : i > Len(w) - n => w[i] = "fail"
  /\ n < Len(w) => w[Len(w) - n] = "ok"

(* While a circuit is closed its counter is the length of the run of       *)
(* failures at the end of the window; otherwise the window is empty.       *)
CountsRun ==
  \A p \in Placements :
    /\ Len(window[p]) <= FailureThreshold
    /\ breaker[p].state = "closed" => EndsWithFailures(window[p], breaker[p].failures)
    /\ breaker[p].state # "closed" => window[p] = <<>>

HistoryInv ==
  /\ BreakerTypeOK
  /\ ClosedBelowThreshold
  /\ window \in [Placements -> Seq(Contract!Outcomes)]
  /\ CountsRun

(* A window that takes in one more outcome keeps the newest ones.          *)
LEMMA LatestAppend ==
  ASSUME NEW w \in Seq(Contract!Outcomes), Len(w) <= FailureThreshold,
         NEW o \in Contract!Outcomes
  PROVE  LET v == Contract!Latest(Append(w, o))
         IN /\ v \in Seq(Contract!Outcomes)
            /\ Len(v) = IF Len(w) < FailureThreshold THEN Len(w) + 1 ELSE FailureThreshold
            /\ \A i \in 1 .. Len(v) :
                 v[i] = IF i = Len(v) THEN o ELSE w[Len(w) + 1 - Len(v) + i]
<1> DEFINE x == Append(w, o)
           v == Contract!Latest(x)
<1>1. /\ x \in Seq(Contract!Outcomes)
      /\ Len(x) = Len(w) + 1
      /\ \A i \in 1 .. Len(x) : x[i] = IF i = Len(x) THEN o ELSE w[i]
  OBVIOUS
<1>2. CASE Len(w) < FailureThreshold
  <2>1. v = x
    BY <1>1, <1>2, BreakerAssumption DEF Contract!Latest
  <2> QED
    BY <1>1, <1>2, <2>1
<1>3. CASE Len(w) = FailureThreshold
  <2>1. v = SubSeq(x, 2, FailureThreshold + 1)
    BY <1>1, <1>3, BreakerAssumption DEF Contract!Latest
  <2>2. /\ v \in Seq(Contract!Outcomes)
        /\ Len(v) = FailureThreshold
        /\ \A i \in 1 .. Len(v) : v[i] = x[i + 1]
    BY <1>1, <1>3, <2>1, BreakerAssumption
  <2> QED
    BY <1>1, <1>3, <2>2, BreakerAssumption
<1> QED
  BY <1>2, <1>3, BreakerAssumption

(* What a report to a closed circuit does to its run of failures.          *)
LEMMA RunGrows ==
  ASSUME NEW w \in Seq(Contract!Outcomes), Len(w) <= FailureThreshold,
         NEW n \in Nat, n < FailureThreshold, EndsWithFailures(w, n)
  PROVE  LET ok   == Contract!Latest(Append(w, "ok"))
             fail == Contract!Latest(Append(w, "fail"))
         IN /\ EndsWithFailures(ok, 0)
            /\ ~Contract!AllFailed(ok)
            /\ EndsWithFailures(fail, n + 1)
            /\ Contract!AllFailed(fail) <=> n + 1 >= FailureThreshold
<1> DEFINE ok   == Contract!Latest(Append(w, "ok"))
           fail == Contract!Latest(Append(w, "fail"))
<1> USE BreakerAssumption
<1>1. "ok" \in Contract!Outcomes /\ "fail" \in Contract!Outcomes
  BY DEF Contract!Outcomes
<1>2. /\ ok \in Seq(Contract!Outcomes)
      /\ Len(ok) = IF Len(w) < FailureThreshold THEN Len(w) + 1 ELSE FailureThreshold
      /\ \A i \in 1 .. Len(ok) :
           ok[i] = IF i = Len(ok) THEN "ok" ELSE w[Len(w) + 1 - Len(ok) + i]
  BY <1>1, LatestAppend
<1>3. /\ fail \in Seq(Contract!Outcomes)
      /\ Len(fail) = IF Len(w) < FailureThreshold THEN Len(w) + 1 ELSE FailureThreshold
      /\ \A i \in 1 .. Len(fail) :
           fail[i] = IF i = Len(fail) THEN "fail" ELSE w[Len(w) + 1 - Len(fail) + i]
  BY <1>1, LatestAppend
<1> HIDE DEF ok, fail
<1>4. EndsWithFailures(ok, 0) /\ ~Contract!AllFailed(ok)
  <2>1. Len(ok) \in 1 .. Len(ok)
    <3>1. Len(w) \in Nat /\ Len(ok) \in Nat
      BY <1>2
    <3> QED
      BY <1>2, <3>1
  <2>2. EndsWithFailures(ok, 0) /\ ok[Len(ok)] = "ok"
    <3>1. ok[Len(ok)] = "ok"
      BY <1>2, <2>1
    <3> QED
      BY <2>1, <3>1 DEF EndsWithFailures
  <2>3. ~Contract!AllFailed(ok)
    <3>1. Len(ok) \in DOMAIN ok /\ ok[Len(ok)] # "fail"
      BY <1>2, <2>1, <2>2
    <3> QED
      BY <3>1 DEF Contract!AllFailed
  <2> QED
    BY <2>2, <2>3
<1>5. EndsWithFailures(fail, n + 1)
  <2>1. n + 1 <= Len(fail)
    BY <1>3 DEF EndsWithFailures
  <2>2. ASSUME NEW i \in 1 .. Len(fail), i > Len(fail) - (n + 1)
        PROVE  fail[i] = "fail"
    <3>1. CASE i = Len(fail)
      BY <1>3, <3>1
    <3>2. CASE i # Len(fail)
      <4>1. /\ Len(w) \in Nat /\ Len(fail) \in Nat
            /\ Len(fail) = Len(w) + 1 \/ Len(fail) = Len(w)
        BY <1>3
      <4>2. /\ Len(w) + 1 - Len(fail) + i > Len(w) - n
            /\ Len(w) + 1 - Len(fail) + i <= Len(w)
        BY <2>2, <3>2, <4>1
      <4>3. Len(w) + 1 - Len(fail) + i \in 1 .. Len(w)
        BY <4>1, <4>2, <3>2
      <4> QED
        BY <1>3, <3>2, <4>2, <4>3 DEF EndsWithFailures
    <3> QED
      BY <3>1, <3>2
  <2>3. ASSUME n + 1 < Len(fail)
        PROVE  fail[Len(fail) - (n + 1)] = "ok"
    <3>1. /\ Len(fail) - (n + 1) \in 1 .. Len(fail)
          /\ Len(fail) - (n + 1) # Len(fail)
          /\ Len(w) + 1 - Len(fail) + (Len(fail) - (n + 1)) = Len(w) - n
          /\ n < Len(w)
      BY <1>3, <2>3
    <3> QED
      BY <1>3, <3>1 DEF EndsWithFailures
  <2> QED
    BY <2>1, <2>2, <2>3 DEF EndsWithFailures
<1>6. Contract!AllFailed(fail) <=> n + 1 >= FailureThreshold
  <2>1. CASE n + 1 >= FailureThreshold
    <3>1. n + 1 = FailureThreshold /\ Len(fail) = FailureThreshold
      BY <1>3, <1>5, <2>1 DEF EndsWithFailures
    <3> QED
      BY <1>3, <1>5, <2>1, <3>1 DEF EndsWithFailures, Contract!AllFailed
  <2>2. CASE n + 1 < FailureThreshold
    <3>1. CASE Len(fail) < FailureThreshold
      BY <1>3, <2>2, <3>1 DEF Contract!AllFailed
    <3>2. CASE Len(fail) = FailureThreshold
      <4>1. fail[Len(fail) - (n + 1)] = "ok" /\ Len(fail) - (n + 1) \in 1 .. Len(fail)
        BY <1>3, <1>5, <2>2, <3>2 DEF EndsWithFailures
      <4> QED
        BY <1>3, <2>2, <4>1 DEF Contract!AllFailed
    <3> QED
      BY <1>3, <3>1, <3>2
  <2> QED
    BY <2>1, <2>2
<1> QED
  BY <1>4, <1>5, <1>6 DEF ok, fail

(***************************************************************************)
(* The operations of the breaker preserve the invariant, and each is a     *)
(* step of the contract or none.                                           *)
(***************************************************************************)
LEMMA InitHistory == HistoryInit => HistoryInv /\ Contract!ContractInit
<1> SUFFICES ASSUME HistoryInit
             PROVE  HistoryInv /\ Contract!ContractInit
  OBVIOUS
<1>1. /\ breaker = [p \in Placements |-> NewBreaker]
      /\ window = [p \in Placements |-> <<>>]
  BY DEF HistoryInit, BreakerInit
<1>2. BreakerTypeOK /\ ClosedBelowThreshold
  BY BreakersStart DEF HistoryInit
<1>3. window \in [Placements -> Seq(Contract!Outcomes)]
  BY <1>1
<1>4. CountsRun
  <2>1. EndsWithFailures(<<>>, 0) /\ Len(<<>>) <= FailureThreshold
    BY BreakerAssumption DEF EndsWithFailures
  <2> QED
    BY <1>1, <2>1 DEF NewBreaker, CountsRun
<1>5. Contract!ContractInit
  BY <1>1 DEF NewBreaker, Contract!ContractInit
<1> QED
  BY <1>2, <1>3, <1>4, <1>5 DEF HistoryInv

(* Allow and the clock change no window and no closed circuit.             *)
LEMMA AllowStep ==
  ASSUME HistoryInv, NEW p \in Placements, Allow(p), UNCHANGED window
  PROVE  HistoryInv' /\ [Contract!ContractNext]_(Contract!contractVars)
<1> USE DEF HistoryInv, BreakerTypeOK, Breaker, BreakerStates
<1>1. BreakerTypeOK' /\ ClosedBelowThreshold'
  BY OperationsKeepBreakers
<1>2. CASE UNCHANGED breaker
  BY <1>1, <1>2 DEF CountsRun, Contract!contractVars
<1>3. CASE /\ breaker[p].state = "open" /\ breaker[p].due
           /\ breaker' = [breaker EXCEPT ![p].state = "half_open"]
  <2>1. CountsRun'
    BY <1>3 DEF CountsRun
  <2>2. Contract!StartProbing(p)
    BY <1>3 DEF Contract!StartProbing
  <2> QED
    BY <1>1, <2>1, <2>2 DEF Contract!ContractNext
<1> QED
  BY <1>2, <1>3 DEF Allow

LEMMA ClockStep ==
  ASSUME HistoryInv, NEW p \in Placements, TimeoutElapses(p), UNCHANGED window
  PROVE  HistoryInv' /\ [Contract!ContractNext]_(Contract!contractVars)
<1> USE DEF HistoryInv, BreakerTypeOK, Breaker, BreakerStates
<1>1. BreakerTypeOK' /\ ClosedBelowThreshold'
  BY OperationsKeepBreakers
<1>2. breaker[p].state = "open"
  BY DEF TimeoutElapses, ClosedBelowThreshold
<1>3. CountsRun'
  BY DEF CountsRun, TimeoutElapses
<1>4. Contract!CoolDown(p)
  BY <1>2 DEF Contract!CoolDown, TimeoutElapses
<1> QED
  BY <1>1, <1>3, <1>4 DEF Contract!ContractNext

(* A success closes a half-open circuit and breaks the run of a closed one.*)
LEMMA SuccessStep ==
  ASSUME HistoryInv, NEW p \in Placements, RecordSuccess(p), Remember(p, "ok")
  PROVE  HistoryInv' /\ [Contract!ContractNext]_(Contract!contractVars)
<1> DEFINE w == Contract!Latest(Append(window[p], "ok"))
<1> USE DEF HistoryInv, BreakerTypeOK, Breaker, BreakerStates
<1>1. BreakerTypeOK' /\ ClosedBelowThreshold'
  BY OperationsKeepBreakers
<1>2. CASE breaker[p].state = "open"
  <2>1. UNCHANGED <<breaker, window>>
    BY <1>2 DEF RecordSuccess, Remember, CountsRun
  <2> QED
    BY <1>1, <2>1 DEF CountsRun, Contract!contractVars
<1>3. CASE breaker[p].state = "half_open"
  <2>1. /\ breaker' = [breaker EXCEPT ![p].state = "closed", ![p].failures = 0]
        /\ window' = window /\ window[p] = <<>>
    BY <1>3 DEF RecordSuccess, Remember, CountsRun
  <2>2. EndsWithFailures(<<>>, 0)
    BY DEF EndsWithFailures
  <2>3. CountsRun'
    BY <2>1, <2>2 DEF CountsRun
  <2>4. Contract!Recover(p)
    BY <1>3, <2>1 DEF Contract!Recover
  <2> QED
    BY <1>1, <2>1, <2>3, <2>4 DEF Contract!ContractNext
<1>4. CASE breaker[p].state = "closed"
  <2>1. /\ breaker' = [breaker EXCEPT ![p].state = "closed", ![p].failures = 0]
        /\ window' = [window EXCEPT ![p] = w]
    BY <1>4 DEF RecordSuccess, Remember
  <2>2. /\ window[p] \in Seq(Contract!Outcomes) /\ Len(window[p]) <= FailureThreshold
        /\ breaker[p].failures \in Nat /\ breaker[p].failures < FailureThreshold
        /\ EndsWithFailures(window[p], breaker[p].failures)
    BY <1>4, BreakerAssumption DEF CountsRun, ClosedBelowThreshold
  <2>3. EndsWithFailures(w, 0) /\ ~Contract!AllFailed(w)
    BY <2>2, RunGrows
  <2>4. w \in Seq(Contract!Outcomes) /\ Len(w) <= FailureThreshold
    BY <2>2, LatestAppend, BreakerAssumption DEF Contract!Outcomes
  <2>5. CountsRun'
    BY <2>1, <2>3, <2>4 DEF CountsRun
  <2>6. Contract!ReportWhileClosed(p, "ok")
    BY <1>4, <2>1, <2>3 DEF Contract!ReportWhileClosed
  <2> QED
    BY <1>1, <2>1, <2>4, <2>5, <2>6 DEF Contract!ContractNext, Contract!Outcomes
<1> QED
  BY <1>2, <1>3, <1>4

(* A failure opens a half-open circuit, and a closed one when the run of   *)
(* failures reaches the threshold; it does not move an open one.           *)
LEMMA FailureStep ==
  ASSUME HistoryInv, NEW p \in Placements, RecordFailure(p), Remember(p, "fail")
  PROVE  HistoryInv' /\ [Contract!ContractNext]_(Contract!contractVars)
<1> DEFINE w == Contract!Latest(Append(window[p], "fail"))
           n == Incremented(breaker[p].failures)
<1> USE DEF HistoryInv, BreakerTypeOK, Breaker, BreakerStates
<1>1. BreakerTypeOK' /\ ClosedBelowThreshold'
  BY OperationsKeepBreakers
<1>2. CASE breaker[p].state = "open"
  <2>1. /\ window' = window
        /\ breaker' = [breaker EXCEPT ![p].failures = n]
    BY <1>2 DEF RecordFailure, Remember, CountsRun, Trips
  <2>2. CountsRun'
    BY <1>2, <2>1 DEF CountsRun
  <2>3. UNCHANGED Contract!contractVars
    BY <2>1 DEF Contract!contractVars
  <2> QED
    BY <1>1, <2>1, <2>2, <2>3
<1>3. ASSUME Trips(breaker[p], n)
      PROVE  /\ breaker' = [breaker EXCEPT ![p] =
                  [state |-> "open", failures |-> n, due |-> FALSE]]
             /\ window' = [window EXCEPT ![p] = <<>>]
             /\ HistoryInv'
             /\ Contract!OpenCircuit(p)
  <2>1. /\ breaker' = [breaker EXCEPT ![p] =
             [state |-> "open", failures |-> n, due |-> FALSE]]
        /\ window' = [window EXCEPT ![p] = <<>>]
    BY <1>3 DEF RecordFailure, Remember
  <2>2. CountsRun'
    BY <2>1, BreakerAssumption DEF CountsRun
  <2>3. window' \in [Placements -> Seq(Contract!Outcomes)]
    <3>1. <<>> \in Seq(Contract!Outcomes)
      OBVIOUS
    <3> QED
      BY <2>1, <3>1
  <2>4. Contract!OpenCircuit(p)
    BY <2>1 DEF Contract!OpenCircuit
  <2> QED
    BY <1>1, <2>1, <2>2, <2>3, <2>4
<1>4. CASE breaker[p].state = "half_open"
  <2>1. Trips(breaker[p], n)
    BY <1>4 DEF Trips
  <2>2. Contract!Relapse(p)
    BY <1>3, <1>4, <2>1 DEF Contract!Relapse
  <2> QED
    BY <1>3, <2>1, <2>2 DEF Contract!ContractNext
<1>5. CASE breaker[p].state = "closed"
  <2>1. /\ window[p] \in Seq(Contract!Outcomes) /\ Len(window[p]) <= FailureThreshold
        /\ breaker[p].failures \in Nat /\ breaker[p].failures < FailureThreshold
        /\ EndsWithFailures(window[p], breaker[p].failures)
        /\ n = breaker[p].failures + 1
    BY <1>5, BreakerAssumption DEF CountsRun, ClosedBelowThreshold, Incremented
  <2>2. /\ EndsWithFailures(w, n)
        /\ Contract!AllFailed(w) <=> n >= FailureThreshold
    BY <2>1, RunGrows
  <2>3. w \in Seq(Contract!Outcomes) /\ Len(w) <= FailureThreshold
    BY <2>1, LatestAppend, BreakerAssumption DEF Contract!Outcomes
  <2>4. CASE n >= FailureThreshold
    <3>1. Trips(breaker[p], n)
      BY <1>5, <2>4 DEF Trips
    <3>2. Contract!ReportWhileClosed(p, "fail")
      <4>1. Contract!OpenCircuit(p) /\ Contract!AllFailed(w)
        BY <1>3, <2>2, <2>4, <3>1
      <4> QED
        BY <1>5, <4>1 DEF Contract!ReportWhileClosed
    <3> QED
      BY <1>3, <3>1, <3>2 DEF Contract!ContractNext, Contract!Outcomes
  <2>5. CASE ~(n >= FailureThreshold)
    <3>1. /\ breaker' = [breaker EXCEPT ![p].failures = n]
          /\ window' = [window EXCEPT ![p] = w]
      BY <1>5, <2>5 DEF RecordFailure, Remember, Trips
    <3>2. CountsRun'
      BY <1>5, <2>2, <2>3, <3>1 DEF CountsRun
    <3>3. Contract!ReportWhileClosed(p, "fail")
      BY <1>5, <2>2, <2>5, <3>1 DEF Contract!ReportWhileClosed
    <3> QED
      BY <1>1, <2>3, <3>1, <3>2, <3>3 DEF Contract!ContractNext, Contract!Outcomes
  <2> QED
    BY <2>4, <2>5
<1> QED
  BY <1>2, <1>4, <1>5

(* The breaker opens exactly at the report that completes a run of         *)
(* FailureThreshold failures of one closed period, leaves the open state   *)
(* only after its timeout, and closes only from half-open.                 *)
THEOREM ContractImplemented == HistorySpec => ImplementsContract
<1>1. HistoryInv /\ [HistoryNext]_historyVars
        => HistoryInv' /\ [Contract!ContractNext]_(Contract!contractVars)
  <2> SUFFICES ASSUME HistoryInv, [HistoryNext]_historyVars
               PROVE  HistoryInv' /\ [Contract!ContractNext]_(Contract!contractVars)
    OBVIOUS
  <2>1. CASE UNCHANGED historyVars
    BY <2>1 DEF historyVars, HistoryInv, BreakerTypeOK, ClosedBelowThreshold,
                CountsRun, Contract!contractVars
  <2>2. CASE HistoryNext
    BY <2>2, AllowStep, ClockStep, SuccessStep, FailureStep DEF HistoryNext
  <2> QED
    BY <2>1, <2>2
<1> QED
  BY <1>1, InitHistory, PTL
     DEF HistorySpec, ImplementsContract, Contract!ContractSpec
=============================================================================
