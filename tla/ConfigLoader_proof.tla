------------------------- MODULE ConfigLoader_proof -------------------------
(***************************************************************************)
(* What the loader guarantees for every set of configurations the file may *)
(* contain and every pattern of edits to it, edits between its two reads   *)
(* of the file included.                                                   *)
(***************************************************************************)
EXTENDS ConfigLoader, TLAPS

(* LastKnownGood is not inductive: LoadInitial holds the configuration it  *)
(* validated across the second read of the file.                           *)
GoodInHand ==
  /\ stage \in LoaderStages
  /\ stage = "parsed" => read \in Contents /\ Valid(read)
  /\ LastKnownGood

(***************************************************************************)
(* A configuration that Validate accepts routes every key: the lookup of   *)
(* Router.Route, applied to its own table, endpoints and default, finds an *)
(* endpoint (config.go Validate, router.go Route).                         *)
(***************************************************************************)
THEOREM ValidConfigsRoute ==
  ASSUME NEW c, Valid(c), NEW k
  PROVE  \E p \in DOMAIN Endpoints(c), why \in {"default", "tier", "dedicated"} :
           LookupIn(c, k) = [placement |-> p, url |-> Endpoints(c)[p], reason |-> why]
<1> DEFINE E == Endpoints(c)
           found == k \in DOMAIN c.routingTable /\ k # EmptyKey
           p == IF found THEN c.routingTable[k] ELSE c.defaultPlacement
           why == IF ~found THEN "default"
                  ELSE IF p \in Tiers THEN "tier" ELSE "dedicated"
<1>1. c.defaultPlacement \in DOMAIN E
  BY DEF Valid, TableValid
<1>2. found => c.routingTable[k] \in DOMAIN E
  BY DEF Valid, TableValid
<1>3. p \in DOMAIN E
  BY <1>1, <1>2
<1>4. LookupIn(c, k) = [placement |-> p, url |-> E[p], reason |-> why]
  BY <1>3 DEF LookupIn, Lookup
<1>5. why \in {"default", "tier", "dedicated"}
  OBVIOUS
<1> HIDE DEF p, why
<1> QED
  BY <1>3, <1>4, <1>5

LEMMA LoaderStarts == LoaderInit => GoodInHand
BY DEF LoaderInit, GoodInHand, LoaderStages, LastKnownGood

LEMMA LoaderKeepsGood == GoodInHand /\ [LoaderNext]_loaderVars => GoodInHand'
<1> SUFFICES ASSUME GoodInHand, [LoaderNext]_loaderVars
             PROVE  GoodInHand'
  OBVIOUS
<1> USE DEF GoodInHand, LoaderStages, LastKnownGood
<1>1. CASE Edit
  BY <1>1 DEF Edit
<1>2. CASE InitialRead
  BY <1>2 DEF InitialRead, Fail
<1>3. CASE InitialChecksum
  BY <1>3, LoaderAssumption DEF InitialChecksum, Fail
<1>4. CASE Compare
  BY <1>4 DEF Compare
<1>5. CASE Reload
  BY <1>5, LoaderAssumption DEF Reload, Fail
<1>6. CASE \E c \in Broadcasts : ApplyConfig(c)
  BY <1>6 DEF ApplyConfig
<1>7. CASE LoopReturns
  BY <1>7 DEF LoopReturns
<1>8. CASE UNCHANGED loaderVars
  BY <1>8 DEF loaderVars
<1> QED
  BY <1>1, <1>2, <1>3, <1>4, <1>5, <1>6, <1>7, <1>8 DEF LoaderNext

(***************************************************************************)
(* A program that follows its file serves a configuration that Validate    *)
(* accepted from the moment LoadInitial returns, whatever the file turns   *)
(* into (LoadInitial and tryReload of loader.go).                          *)
(***************************************************************************)
THEOREM LastGoodServed == LoaderSpec => []LastKnownGood
<1>1. GoodInHand => LastKnownGood
  BY DEF GoodInHand
<1> QED
  BY <1>1, LoaderStarts, LoaderKeepsGood, PTL DEF LoaderSpec

LEMMA LoaderStaysTyped ==
  LoaderTypeOK /\ GoodInHand /\ [LoaderNext]_loaderVars => LoaderTypeOK'
<1> SUFFICES ASSUME LoaderTypeOK, GoodInHand, [LoaderNext]_loaderVars
             PROVE  LoaderTypeOK'
  OBVIOUS
<1> USE DEF LoaderTypeOK, GoodInHand, LoaderStages, FileStates
<1>1. CASE Edit
  BY <1>1 DEF Edit
<1>2. CASE InitialRead
  BY <1>2 DEF InitialRead, Fail
<1>3. CASE InitialChecksum
  BY <1>3 DEF InitialChecksum, Fail
<1>4. CASE Compare
  BY <1>4 DEF Compare
<1>5. CASE Reload
  BY <1>5 DEF Reload, Fail
<1>6. CASE \E c \in Broadcasts : ApplyConfig(c)
  BY <1>6 DEF ApplyConfig
<1>7. CASE LoopReturns
  BY <1>7 DEF LoopReturns
<1>8. CASE UNCHANGED loaderVars
  BY <1>8 DEF loaderVars
<1> QED
  BY <1>1, <1>2, <1>3, <1>4, <1>5, <1>6, <1>7, <1>8 DEF LoaderNext

(***************************************************************************)
(* Type correctness of the loader.                                         *)
(***************************************************************************)
THEOREM LoaderTypeCorrect == LoaderSpec => []LoaderTypeOK
<1> DEFINE Inv == LoaderTypeOK /\ GoodInHand
<1>1. LoaderInit => Inv
  BY LoaderStarts DEF LoaderInit, LoaderTypeOK, LoaderStages
<1>2. Inv /\ [LoaderNext]_loaderVars => Inv'
  BY LoaderStaysTyped, LoaderKeepsGood
<1>3. Inv => LoaderTypeOK
  OBVIOUS
<1> QED
  BY <1>1, <1>2, <1>3, PTL DEF LoaderSpec

LEMMA OnlyPanicsEnd ==
  ASSUME [LoaderNext]_loaderVars, stage \in {"ready", "changed"}, stage' = "failed"
  PROVE  file \in Contents /\ NullPlacements(file) # {}
<1>1. Reload
  BY DEF LoaderNext, loaderVars, Edit, InitialRead, InitialChecksum, Compare, LoopReturns,
         ApplyConfig
<1> QED
  BY <1>1 DEF Reload, MayPanic

(***************************************************************************)
(* No failure of a reload ends the program, except that of a file with a   *)
(* null placement: every early return of tryReload leaves it running.      *)
(***************************************************************************)
THEOREM OnlyNullsAreFatal == LoaderSpec => BadReloadsAreSurvived
<1>1. [LoaderNext]_loaderVars
        => [(stage \in {"ready", "changed"}) /\ stage' = "failed"
              => file \in Contents /\ NullPlacements(file) # {}]_loaderVars
  BY OnlyPanicsEnd
<1> QED
  BY <1>1, PTL DEF LoaderSpec, BadReloadsAreSurvived

(* ChecksumTellsActive needs to know what a load under way has read: with  *)
(* the file at rest, it is what the second read will find.                 *)
ReadsAgree ==
  /\ ChecksumTellsActive
  /\ ~EditsAnytime /\ stage \in {"parsed", "changed"} => read = file

LEMMA LoaderReadsAgree == ReadsAgree /\ [LoaderNext]_loaderVars => ReadsAgree'
<1> SUFFICES ASSUME ReadsAgree, [LoaderNext]_loaderVars
             PROVE  ReadsAgree'
  OBVIOUS
<1> USE DEF ReadsAgree, ChecksumTellsActive
<1>1. CASE Edit
  BY <1>1 DEF Edit
<1>2. CASE InitialRead
  BY <1>2 DEF InitialRead, Fail
<1>3. CASE InitialChecksum
  BY <1>3 DEF InitialChecksum, Fail
<1>4. CASE Compare
  BY <1>4 DEF Compare
<1>5. CASE Reload
  BY <1>5 DEF Reload, Fail
<1>6. CASE \E c \in Broadcasts : ApplyConfig(c)
  BY <1>6 DEF ApplyConfig
<1>7. CASE LoopReturns
  BY <1>7 DEF LoopReturns
<1>8. CASE UNCHANGED loaderVars
  BY <1>8 DEF loaderVars
<1> QED
  BY <1>1, <1>2, <1>3, <1>4, <1>5, <1>6, <1>7, <1>8 DEF LoaderNext

(***************************************************************************)
(* The part of SettledFileIsServed that is safety: if no edit falls        *)
(* between the two reads of a load, the loader never remembers the         *)
(* checksum of anything but what it serves (LoadInitial and tryReload).    *)
(***************************************************************************)
THEOREM ChecksumIsThatOfActive == LoaderSpec => []ChecksumTellsActive
<1>1. LoaderInit => ReadsAgree
  BY DEF LoaderInit, ReadsAgree, ChecksumTellsActive
<1>2. ReadsAgree => ChecksumTellsActive
  BY DEF ReadsAgree
<1> QED
  BY <1>1, <1>2, LoaderReadsAgree, PTL DEF LoaderSpec

(***************************************************************************)
(* What Validate accepts it neither rejects nor panics on, in whatever     *)
(* order it visits the placements, and the three outcomes leave no         *)
(* configuration out, so that no load is stuck on what it read.            *)
(***************************************************************************)
THEOREM ValidateAnswers ==
  ASSUME NEW c
  PROVE  /\ Valid(c) \/ MayReject(c) \/ MayPanic(c)
         /\ Valid(c) => ~MayReject(c) /\ ~MayPanic(c)
BY DEF Valid, MayReject, MayPanic

(***************************************************************************)
(* What the message of a control plane does to a configuration.            *)
(***************************************************************************)

LEMMA SnapshotFields ==
  ASSUME NEW c, IsConfig(c)
  PROVE  /\ Snapshot(c).version = c.version
         /\ Snapshot(c).routingTable = c.routingTable
         /\ Snapshot(c).cellEndpoints = c.cellEndpoints
         /\ Snapshot(c).defaultPlacement = c.defaultPlacement
         /\ DOMAIN Snapshot(c).placements = {}
BY DEF IsConfig, Snapshot

(* A valid configuration in the legacy format survives it: what the data   *)
(* plane makes of it is valid again and routes every key alike.            *)
THEOREM LegacySnapshotsAreGood ==
  ASSUME NEW c, IsConfig(c), Valid(c), LegacyFormat(c)
  PROVE  /\ Valid(Snapshot(c))
         /\ \A k : LookupIn(Snapshot(c), k) = LookupIn(c, k)
<1>1. LegacyFormat(Snapshot(c)) /\ Endpoints(Snapshot(c)) = Endpoints(c)
  BY SnapshotFields DEF LegacyFormat, Endpoints
<1>2. NullPlacements(Snapshot(c)) = {} /\ \A p \in DOMAIN Snapshot(c).placements : FALSE
  BY SnapshotFields DEF NullPlacements
<1>3. TableValid(Snapshot(c))
  BY <1>1, SnapshotFields DEF Valid, TableValid
<1>4. Valid(Snapshot(c))
  BY <1>2, <1>3, SnapshotFields DEF Valid
<1>5. \A k : LookupIn(Snapshot(c), k) = LookupIn(c, k)
  BY <1>1, SnapshotFields DEF LookupIn
<1> QED
  BY <1>4, <1>5

(* One in the placements format does not: it has lost all its endpoints,   *)
(* and Validate, which no data plane asks, would reject it.                *)
THEOREM PlacementsSnapshotsAreBad ==
  ASSUME NEW c, IsConfig(c), ~LegacyFormat(c)
  PROVE  /\ ~Valid(Snapshot(c))
         /\ \A k : LookupIn(Snapshot(c), k) = NoRoute
<1>1. DOMAIN Endpoints(Snapshot(c)) = {}
  BY SnapshotFields DEF LegacyFormat, Endpoints
<1>2. ~Valid(Snapshot(c))
  BY <1>1 DEF Valid, TableValid
<1>3. \A k : LookupIn(Snapshot(c), k) = NoRoute
  BY <1>1 DEF LookupIn, Lookup
<1> QED
  BY <1>2, <1>3
=============================================================================
