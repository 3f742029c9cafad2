-------------------------- MODULE DebugView_proof --------------------------
(***************************************************************************)
(* What the debug endpoint promises whoever polls it, for every number of  *)
(* viewers, in file mode and in control-plane mode.                        *)
(***************************************************************************)
EXTENDS DebugView, ConfigLoader_proof

(* What was told has been stored, and a view that expects the chosen       *)
(* adoption has been shown its configuration from its first read on.       *)
ToldIsStored ==
  /\ told \in BOOLEAN
  /\ expects \in [Viewers -> BOOLEAN]
  /\ shown = [v \in Viewers |-> shown[v]]
  /\ told => "config" \in stored
  /\ \A v \in Viewers : expects[v] => told

ViewInv == DebugTypeOK /\ ToldIsStored /\ AnswersMoveForward

LEMMA ViewsStart == DebugInit => ViewInv
BY DEF DebugInit, ViewInv, DebugTypeOK, ToldIsStored, AnswersMoveForward, Values

LEMMA ViewsKept == ViewInv /\ [DebugNext]_debugVars => ViewInv'
<1> SUFFICES ASSUME ViewInv, [DebugNext]_debugVars
             PROVE  ViewInv'
  OBVIOUS
<1> USE DEF ViewInv, DebugTypeOK, ToldIsStored, AnswersMoveForward, Values
<1>1. CASE Load
  <2>1. UNCHANGED <<storing, stored, viewVars>> /\ storing = "none"
    BY <1>1 DEF Load
  <2> QED
    BY <2>1 DEF viewVars
<1>2. CASE EndOrEdit
  <2>1. /\ UNCHANGED <<storing, stored, viewVars>>
        /\ storing # "none" => stage' = stage
    BY <1>2 DEF EndOrEdit, Edit
  <2> QED
    BY <2>1 DEF viewVars
<1>3. ASSUME stage' = "ready", storing' = "source", Mark, UNCHANGED viewVars
      PROVE  ViewInv'
  BY <1>3 DEF Mark, viewVars
<1>4. CASE AdoptFile
  <2>1. stage' = "ready"
    <3>1. file \in Contents /\ Valid(file) /\ ~MayReject(file) /\ ~MayPanic(file)
      BY <1>4 DEF AdoptFile, Adoptable, Valid, MayReject, MayPanic
    <3> QED
      BY <3>1, <1>4 DEF AdoptFile, Reload
  <2> QED
    BY <2>1, <1>3, <1>4 DEF AdoptFile
<1>5. ASSUME NEW c \in Broadcasts, AdoptPushed(c)
      PROVE  ViewInv'
  BY <1>3, <1>5 DEF AdoptPushed, ApplyConfig
<1>6. CASE StoreSource \/ StoreTime
  BY <1>6 DEF StoreSource, StoreTime, loaderVars, viewVars
<1>7. ASSUME NEW v \in Viewers, ReadVersion(v)
      PROVE  ViewInv'
  <2>1. UNCHANGED <<stage, storing, stored, told>>
    BY <1>7 DEF ReadVersion, loaderVars
  <2>2. /\ at' = [at EXCEPT ![v] = "source"]
        /\ shown' = [shown EXCEPT ![v] = stored \intersect {"config"}]
        /\ expects' = [expects EXCEPT ![v] = told]
    BY <1>7 DEF ReadVersion
  <2>3. told \in BOOLEAN
    OBVIOUS
  <2>4. ToldIsStored'
    BY <2>1, <2>2, <2>3
  <2>5. AnswersMoveForward'
    BY <2>1, <2>2, <2>3
  <2> QED
    BY <2>1, <2>2, <2>4, <2>5
<1>8. ASSUME NEW v \in Viewers, ReadSource(v)
      PROVE  ViewInv'
  BY <1>8 DEF ReadSource, loaderVars
<1>9. ASSUME NEW v \in Viewers, ReadTime(v)
      PROVE  ViewInv'
  BY <1>9 DEF ReadTime, loaderVars
<1>10. CASE UNCHANGED debugVars
  BY <1>10 DEF debugVars, loaderVars, viewVars
<1> QED
  BY <1>1, <1>2, <1>4, <1>5, <1>6, <1>7, <1>8, <1>9, <1>10 DEF DebugNext, View

(***************************************************************************)
(* The loader's stores are in order and by one goroutine.                  *)
(***************************************************************************)
THEOREM DebugTypeCorrect == DebugSpec => []DebugTypeOK
<1>1. ViewInv => DebugTypeOK
  BY DEF ViewInv
<1> QED
  BY <1>1, ViewsStart, ViewsKept, PTL DEF DebugSpec

(***************************************************************************)
(* No answer of /debug/config goes back behind what an earlier answer has  *)
(* shown (debug/handler.go ServeHTTP against the stores of loader.go).     *)
(***************************************************************************)
THEOREM PollingMovesForward == DebugSpec => []AnswersMoveForward
<1>1. ViewInv => AnswersMoveForward
  BY DEF ViewInv
<1> QED
  BY <1>1, ViewsStart, ViewsKept, PTL DEF DebugSpec

(***************************************************************************)
(* The loader whose stores are told apart, and that is watched meanwhile,  *)
(* is the loader of ConfigLoader: what is proved of it for every step      *)
(* holds here.                                                             *)
(***************************************************************************)
LEMMA DebugStepsLoader == [DebugNext]_debugVars => [LoaderNext]_loaderVars
BY DEF DebugNext, debugVars, Load, EndOrEdit, AdoptFile, AdoptPushed, StoreSource, StoreTime,
       View, ReadVersion, ReadSource, ReadTime, LoaderNext

LEMMA DebugRunsLoader == DebugSpec => LoaderInit /\ [][LoaderNext]_loaderVars
<1>1. DebugInit => LoaderInit
  BY DEF DebugInit
<1> QED
  BY <1>1, DebugStepsLoader, PTL DEF DebugSpec

(* A program that is watched serves the last good configuration.           *)
THEOREM WatchedLoaderServesGood == DebugSpec => []LastKnownGood
<1>1. GoodInHand => LastKnownGood
  BY DEF GoodInHand
<1> QED
  BY <1>1, LoaderStarts, LoaderKeepsGood, DebugRunsLoader, PTL

(* Its checksum is that of what it serves.                                 *)
THEOREM WatchedChecksumTells == DebugSpec => []ChecksumTellsActive
<1>1. LoaderInit => ReadsAgree
  BY DEF LoaderInit, ReadsAgree, ChecksumTellsActive
<1>2. ReadsAgree => ChecksumTellsActive
  BY DEF ReadsAgree
<1> QED
  BY <1>1, <1>2, LoaderReadsAgree, DebugRunsLoader, PTL

(* It survives every file but one with a null placement.                   *)
THEOREM WatchedReloadsSurvive == DebugSpec => BadReloadsAreSurvived
<1>1. [LoaderNext]_loaderVars
        => [(stage \in {"ready", "changed"}) /\ stage' = "failed"
              => file \in Contents /\ NullPlacements(file) # {}]_loaderVars
  BY OnlyPanicsEnd
<1> QED
  BY <1>1, DebugRunsLoader, PTL DEF BadReloadsAreSurvived
=============================================================================
