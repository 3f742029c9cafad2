----------------------------- MODULE DebugView -----------------------------
(***************************************************************************)
(* The debug endpoint (internal/debug/handler.go) beside the loader.  An   *)
(* adopted configuration, its source and the time of its adoption are      *)
(* three atomic values that the loader stores one after the other and the  *)
(* debug handler reads one after the other.  Their values are abstracted   *)
(* to the order they are about: of some one adoption, chosen freely, the   *)
(* model keeps which values are of that adoption or a later one.  In       *)
(* control-plane mode that tells the sources apart, with the first push as *)
(* the one adoption.                                                       *)
(***************************************************************************)
EXTENDS ConfigLoader

CONSTANT Viewers    \* requests for /debug/config, one after the other each

VARIABLES
  storing,   \* the value the loader stores next, if it is adopting
  stored,    \* which values are of the chosen adoption or a later one
  at,        \* the value each viewer reads next
  shown,     \* which of its values so far are of that adoption or later
  told,      \* history: some answer has shown such a value
  expects    \* history: that was so when the view began

viewVars == <<at, shown, told, expects>>
debugVars == <<loaderVars, storing, stored, viewVars>>

Values == {"config", "source", "time"}

DebugInit ==
  /\ LoaderInit
  /\ storing = "none"
  /\ stored = {}
  /\ at = [v \in Viewers |-> "config"]
  /\ shown = [v \in Viewers |-> {}]
  /\ told = FALSE
  /\ expects = [v \in Viewers |-> FALSE]

Adoptable(c) == c \in Contents /\ Valid(c)

Mark ==    \* the configuration just stored is of the chosen adoption, or later
  \/ stored' = stored \union {"config"}
  \/ stored = {} /\ UNCHANGED stored

(* A reload, or a push, has the loader store a configuration...            *)
AdoptFile ==
  /\ storing = "none"
  /\ Adoptable(file)
  /\ Reload
  /\ storing' = "source"
  /\ Mark
  /\ UNCHANGED viewVars

AdoptPushed(c) ==
  /\ storing = "none"
  /\ ApplyConfig(c)
  /\ storing' = "source"
  /\ Mark
  /\ UNCHANGED viewVars

(* ...then where it came from...                                           *)
StoreSource ==
  /\ storing = "source"
  /\ storing' = "time"
  /\ stored' = IF "config" \in stored THEN stored \union {"source"} ELSE stored
  /\ UNCHANGED <<loaderVars, viewVars>>

(* ...and the time.                                                        *)
StoreTime ==
  /\ storing = "time"
  /\ storing' = "none"
  /\ stored' = IF "config" \in stored THEN stored \union {"time"} ELSE stored
  /\ UNCHANGED <<loaderVars, viewVars>>

(* A variant of Load whose ticks do not wait for the load under way.       *)
LoadAtEveryTick ==
  /\ \/ InitialRead
     \/ InitialChecksum
     \/ Compare
     \/ ~Adoptable(file) /\ Reload
  /\ UNCHANGED <<storing, stored, viewVars>>

(* The steps of a load that adopt nothing, and the initial load, which is  *)
(* over before anyone reads.                                               *)
Load ==
  /\ storing = "none"
  /\ \/ InitialRead
     \/ InitialChecksum
     \/ Compare
     \/ ~Adoptable(file) /\ Reload
  /\ UNCHANGED <<storing, stored, viewVars>>

EndOrEdit ==
  /\ Edit \/ (storing = "none" /\ LoopReturns)
  /\ UNCHANGED <<storing, stored, viewVars>>

(* A variant of ReadVersion that reads the version once and remembers it.  *)
ReadVersionOnce(v) ==
  /\ stage \in {"ready", "changed", "stopped"}
  /\ at[v] = "config"
  /\ at' = [at EXCEPT ![v] = "source"]
  /\ shown' = [shown EXCEPT ![v] = @ \intersect {"config"}]
  /\ expects' = [expects EXCEPT ![v] = told]
  /\ UNCHANGED <<loaderVars, storing, stored, told>>

(* ServeHTTP, while LoadInitial has returned, reads the version...         *)
ReadVersion(v) ==
  /\ stage \in {"ready", "changed", "stopped"}
  /\ at[v] = "config"
  /\ at' = [at EXCEPT ![v] = "source"]
  /\ shown' = [shown EXCEPT ![v] = stored \intersect {"config"}]
  /\ expects' = [expects EXCEPT ![v] = told]
  /\ UNCHANGED <<loaderVars, storing, stored, told>>

(* ...the source...                                                        *)
ReadSource(v) ==
  /\ at[v] = "source"
  /\ at' = [at EXCEPT ![v] = "time"]
  /\ shown' = [shown EXCEPT ![v] = @ \union (stored \intersect {"source"})]
  /\ UNCHANGED <<loaderVars, storing, stored, told, expects>>

(* ...and the time, and answers.                                           *)
ReadTime(v) ==
  /\ at[v] = "time"
  /\ at' = [at EXCEPT ![v] = "config"]
  /\ shown' = [shown EXCEPT ![v] = @ \union (stored \intersect {"time"})]
  /\ told' = (told \/ shown'[v] # {})
  /\ UNCHANGED <<loaderVars, storing, stored, expects>>

View(v) == ReadVersion(v) \/ ReadSource(v) \/ ReadTime(v)

DebugNext ==
  \/ Load
  \/ EndOrEdit
  \/ AdoptFile
  \/ \E c \in Broadcasts : AdoptPushed(c)
  \/ StoreSource
  \/ StoreTime
  \/ \E v \in Viewers : View(v)

(* As LoaderFairness; nobody has to look at the debug endpoint.            *)
DebugFairness ==
  WF_debugVars(Load \/ AdoptFile \/ StoreSource \/ StoreTime)

DebugSpec == DebugInit /\ [][DebugNext]_debugVars /\ DebugFairness

(* The loader finishes its stores before it does anything else, and stores *)
(* the configuration before what is said about it.                         *)
DebugTypeOK ==
  /\ storing \in {"none", "source", "time"}
  /\ storing # "none" => stage = "ready"
  /\ stored \subseteq Values
  /\ stored # {} => "config" \in stored
  /\ at \in [Viewers -> Values]
  /\ \A v \in Viewers : shown[v] \subseteq stored

(***************************************************************************)
(* The values of an answer may be of different reloads.  But once an       *)
(* answer has shown the version, the source or the time of a reload or a   *)
(* push, every view begun afterwards shows that version or a later one, so *)
(* that polling the endpoint tells when a change has arrived (milestone 2: *)
(* metadata to verify config propagation).                                 *)
(***************************************************************************)
AnswersMoveForward ==
  \A v \in Viewers :
    expects[v] /\ at[v] # "config" => "config" \in shown[v]
=============================================================================
