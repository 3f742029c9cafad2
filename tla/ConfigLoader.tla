---------------------------- MODULE ConfigLoader ----------------------------
(***************************************************************************)
(* Loading and hot-reloading the configuration (internal/config/loader.go) *)
(* from a file that operators edit at any moment.  The file is read twice  *)
(* for each load, once for its contents and once for its checksum, so an   *)
(* edit may come between the two; the checksum is modelled by the contents *)
(* it was computed from (SHA-256 without collisions).                      *)
(*                                                                         *)
(* A program loads its file first and then either polls it (file mode, and *)
(* the control plane) or is given configurations by a data-plane client    *)
(* (control-plane mode), never both.                                       *)
(***************************************************************************)
EXTENDS RoutingConfig

CONSTANTS
  Contents,      \* the configurations the file may contain
  Unparsable,    \* contents that are not JSON of a configuration
  Missing,       \* the file cannot be read
  Edits,         \* the changes <<old, new>> operators make to the file
  FollowsFile,   \* whether the program polls the file
  EditsAnytime   \* whether the file may change while it is being loaded

ASSUME LoaderAssumption ==
  /\ NoConfig \notin Contents \union Broadcasts
  /\ \A c \in Contents \union Broadcasts : IsConfig(c)
  /\ \A c \in Broadcasts : Valid(c) /\ Snapshot(c) # NoConfig

VARIABLES
  file,          \* what the file contains
  active,        \* Loader.activeConfig
  lastChecksum,  \* Loader.lastChecksum
  stage,         \* where LoadInitial or tryReload is
  read           \* what it read from the file first

loaderVars == <<file, active, lastChecksum, stage, read>>

FileStates == Contents \union {Unparsable, Missing}

LoaderStages == {"start", "parsed", "ready", "changed", "failed", "stopped"}

LoaderInit ==
  /\ file \in FileStates
  /\ active = NoConfig
  /\ lastChecksum = NoConfig
  /\ stage = "start"
  /\ read = NoConfig

(* The file is edited, or replaced in steps of which some do not parse.    *)
Edit ==
  /\ EditsAnytime \/ stage \in {"start", "ready"}
  /\ file' \in {new \in FileStates : <<file, new>> \in Edits}
  /\ UNCHANGED <<active, lastChecksum, stage, read>>

(* The program exits: an error of LoadInitial is fatal, and a panic in the *)
(* goroutine of the reload loop ends the process.                          *)
Fail ==
  /\ stage' = "failed"
  /\ read' = NoConfig
  /\ UNCHANGED <<file, active, lastChecksum>>

(* LoadInitial reads, parses and validates the file...                     *)
InitialRead ==
  /\ stage = "start"
  /\ \/ /\ file \in Contents
        /\ Valid(file)
        /\ read' = file
        /\ stage' = "parsed"
        /\ UNCHANGED <<file, active, lastChecksum>>
     \/ /\ file \in Contents => MayReject(file) \/ MayPanic(file)
        /\ Fail

(* ...and then computes the checksum of what the file contains by now.     *)
InitialChecksum ==
  /\ stage = "parsed"
  /\ \/ /\ file = Missing
        /\ Fail
     \/ /\ file # Missing
        /\ active' = read
        /\ lastChecksum' = file
        /\ stage' = "ready"
        /\ read' = NoConfig
        /\ UNCHANGED file

(* A variant of Compare that looks at the version fields.                  *)
CompareVersions ==
  /\ stage = "ready" /\ FollowsFile
  /\ file # Missing
  /\ file # lastChecksum
  /\ file \in Contents /\ lastChecksum \in Contents =>
       file.version # lastChecksum.version
  /\ read' = file
  /\ stage' = "changed"
  /\ UNCHANGED <<file, active, lastChecksum>>

(* A variant of Compare that goes on when the file cannot be read.         *)
CompareDespiteErrors ==
  /\ stage = "ready" /\ FollowsFile
  /\ file # lastChecksum
  /\ read' = file
  /\ stage' = "changed"
  /\ UNCHANGED <<file, active, lastChecksum>>

(* A tick of the reload loop: tryReload compares checksums...              *)
Compare ==
  /\ stage = "ready" /\ FollowsFile
  /\ file # Missing
  /\ file # lastChecksum
  /\ read' = file
  /\ stage' = "changed"
  /\ UNCHANGED <<file, active, lastChecksum>>

(* Variants of Reload: one skips the validation, one treats a rejected     *)
(* configuration as LoadInitial does, one remembers its checksum.          *)
ReloadUnchecked ==
  /\ stage = "changed"
  /\ file \in Contents
  /\ active' = file
  /\ lastChecksum' = read
  /\ stage' = "ready"
  /\ read' = NoConfig
  /\ UNCHANGED file

ReloadOrDie ==
  /\ stage = "changed"
  /\ IF file \in Contents /\ Valid(file)
     THEN /\ active' = file
          /\ lastChecksum' = read
          /\ stage' = "ready"
          /\ read' = NoConfig
          /\ UNCHANGED file
     ELSE Fail

ReloadRemembersRejected ==
  /\ stage = "changed"
  /\ \/ /\ file \in Contents
        /\ Valid(file)
        /\ active' = file
        /\ UNCHANGED file
     \/ /\ file \in Contents => MayReject(file)
        /\ UNCHANGED <<file, active>>
  /\ lastChecksum' = read
  /\ stage' = "ready"
  /\ read' = NoConfig

(* ...and, where they differ, loads what the file contains by now.  The    *)
(* checksum of an edit that is rejected is not remembered, so it is tried  *)
(* again at every tick.                                                    *)
Reload ==
  /\ stage = "changed"
  /\ \/ /\ file \in Contents
        /\ Valid(file)
        /\ active' = file
        /\ lastChecksum' = read
        /\ stage' = "ready"
        /\ read' = NoConfig
        /\ UNCHANGED file
     \/ /\ file \in Contents => MayReject(file)
        /\ stage' = "ready"
        /\ read' = NoConfig
        /\ UNCHANGED <<file, active, lastChecksum>>
     \/ /\ file \in Contents
        /\ MayPanic(file)
        /\ Fail

(* Loader.ApplyConfig, called by the data-plane client with what the       *)
(* control plane sent of c, which nobody validates again.                  *)
ApplyConfig(c) ==
  /\ stage = "ready" /\ ~FollowsFile
  /\ active' = Snapshot(c)
  /\ UNCHANGED <<file, lastChecksum, stage, read>>

(* Loader.Stop has closed the stop channel, and the reload loop returns    *)
(* between two ticks.                                                      *)
LoopReturns ==
  /\ stage = "ready" /\ FollowsFile
  /\ stage' = "stopped"
  /\ UNCHANGED <<file, active, lastChecksum, read>>

LoaderNext ==
  \/ Edit
  \/ InitialRead
  \/ InitialChecksum
  \/ Compare
  \/ Reload
  \/ LoopReturns
  \/ \E c \in Broadcasts : ApplyConfig(c)

(***************************************************************************)
(* Fairness.  LoadInitial runs, and the ticker of the reload loop ticks.   *)
(* Nothing obliges anyone to edit the file, to push or to stop the loop.   *)
(***************************************************************************)
LoaderFairness ==
  WF_loaderVars(InitialRead \/ InitialChecksum \/ Compare \/ Reload)

LoaderSpec == LoaderInit /\ [][LoaderNext]_loaderVars /\ LoaderFairness

LoaderTypeOK ==
  /\ file \in FileStates
  /\ active \in Contents \union {Snapshot(c) : c \in Broadcasts} \union {NoConfig}
  /\ lastChecksum \in Contents \union {Unparsable, NoConfig}
  /\ stage \in LoaderStages
  /\ read \in Contents \union {Unparsable, NoConfig}

(***************************************************************************)
(* A program that follows its file serves with a configuration that        *)
(* Validate accepted, whatever the file has been edited into since, and    *)
(* serves with some configuration as soon as LoadInitial has returned.     *)
(***************************************************************************)
LastKnownGood ==
  FollowsFile =>
    /\ stage \in {"ready", "changed"} => active # NoConfig
    /\ active # NoConfig => Valid(active)

(***************************************************************************)
(* A configuration the reload loop cannot use leaves the program running   *)
(* with the last good one, whichever step of the reload fails.  The one    *)
(* exception is a placement written null, which makes Validate panic.      *)
(***************************************************************************)
BadReloadsAreSurvived ==
  [][(stage \in {"ready", "changed"}) /\ stage' = "failed"
       => file \in Contents /\ NullPlacements(file) # {}]_loaderVars

(***************************************************************************)
(* Unless the file is edited while it is being loaded, the checksum that   *)
(* tryReload compares with is always that of the configuration in force,   *)
(* however many edits were rejected, missed or taken back in between: a    *)
(* tick finds the file unchanged exactly when it is what is served.        *)
(***************************************************************************)
ChecksumTellsActive ==
  FollowsFile /\ ~EditsAnytime => lastChecksum = active

(***************************************************************************)
(* An edit that settles on a valid configuration is served in the end (on  *)
(* change: load, parse, validate, swap), unless the loop is stopped.       *)
(***************************************************************************)
SettledFileIsServed ==
  \A c \in Contents :
    Valid(c) /\ FollowsFile /\ <>[](file = c /\ stage \notin {"failed", "stopped"})
      => <>[](active = c)
=============================================================================
