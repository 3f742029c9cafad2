----------------------------- MODULE ConfigPush -----------------------------
(***************************************************************************)
(* A control plane, one data plane in full, and connections of others, of  *)
(* which all that matters is that they come and go and read.               *)
(***************************************************************************)
EXTENDS ControlPlane, DataPlane

CONSTANT PeerConns    \* the connections of other data planes

ASSUME PushAssumption ==
  /\ PeerConns \subseteq Conns
  /\ ~FollowsFile

VARIABLE published    \* history: the configurations served so far

pushVars == <<loaderVars, netVars, controlVars, clientVars, published>>

PushInit ==
  /\ LoaderInit
  /\ NetInit
  /\ ControlInit
  /\ ClientInit
  /\ published = {served}

(* A step of the control plane alone, and one of the client alone.         *)
ControlAlone ==
  /\ published' = published \union {served'}
  /\ UNCHANGED <<loaderVars, clientVars>>

ClientAlone == UNCHANGED <<controlVars, published>>

ControlStep == ControlNext /\ ControlAlone

(* The router loads its bootstrap file.                                    *)
Boot ==
  /\ InitialRead \/ InitialChecksum
  /\ UNCHANGED <<netVars, controlVars, clientVars, published>>

EditBootstrap ==
  /\ Edit
  /\ UNCHANGED <<netVars, controlVars, clientVars, published>>

ClientStep ==
  /\ StartClient \/ LoopStep \/ StopBegins \/ StopReturns
  /\ ClientAlone

(* The client's dial succeeds.                                             *)
Dial ==
  /\ \E k \in Conns \ PeerConns : Connect(k) /\ Accept(k)
  /\ UNCHANGED published

(* Other data planes connect and read.                                     *)
PeerDial ==
  /\ \E k \in PeerConns : Accept(k)
  /\ UNCHANGED <<loaderVars, clientVars, published>>

PeerRead(k) ==
  /\ Read(k)
  /\ UNCHANGED <<loaderVars, controlVars, clientVars, published>>

(* The network breaks a connection.                                        *)
Break ==
  /\ \E k \in up : Close(k)
  /\ UNCHANGED <<loaderVars, controlVars, clientVars, published>>

PushNext ==
  \/ ControlStep
  \/ Boot
  \/ EditBootstrap
  \/ ClientStep
  \/ Dial
  \/ PeerDial
  \/ \E k \in PeerConns : PeerRead(k)
  \/ Break

(***************************************************************************)
(* Fairness.  Goroutines run; a dial does not fail for ever while the      *)
(* control plane listens; the other data planes run this client too and so *)
(* read what they are sent.  Nothing is assumed of operators, of crashes,  *)
(* of Stop or of the network.                                              *)
(***************************************************************************)
PushFairness ==
  /\ \A k \in Conns : WF_pushVars(HandlerStep(k) /\ ControlAlone)
  /\ WF_pushVars(WatchStep /\ ControlAlone)
  /\ WF_pushVars(Boot)
  /\ WF_pushVars((StartClient \/ LoopStep) /\ ClientAlone)
  /\ WF_pushVars(StopReturns /\ ClientAlone)
  /\ SF_pushVars(Dial)
  /\ \A k \in PeerConns : WF_pushVars(PeerRead(k))

PushSpec == PushInit /\ [][PushNext]_pushVars /\ PushFairness

PushTypeOK ==
  /\ LoaderTypeOK
  /\ up \subseteq Conns
  /\ wire \in [Conns -> Seq(Broadcasts)]
  /\ \A k \in Conns : Len(wire[k]) <= Capacity
  /\ running \in BOOLEAN
  /\ served \in Broadcasts
  /\ handler \in [Conns -> HandlerStages]
  /\ initial \in [Conns -> Broadcasts \union {NoConfig}]
  /\ \A k \in Conns : initial[k] \in Broadcasts <=> handler[k] = "sending"
  /\ clients = {k \in Conns : handler[k] \in {"registered", "sending", "reading", "leaving"}}
  /\ watch \in WatchStages
  /\ payload \in Broadcasts <=> watch \in {"loaded", "sending"}
  /\ pending \subseteq clients
  /\ pending # {} => watch = "sending"
  /\ overtaken \subseteq Conns
  /\ phase \in ClientPhases
  /\ IF phase = "connected" THEN conn \in Conns \ PeerConns ELSE conn = NoConn
  /\ stopping \in {"no", "begun", "returned"}

(***************************************************************************)
(* The data plane serves its bootstrap configuration, then only what the   *)
(* control plane has published, and never goes back to the bootstrap file  *)
(* (milestone 3: the data plane survives failures of the control plane     *)
(* with its last good configuration).  It may go back from one published   *)
(* configuration to another for a while, when a broadcast was loaded       *)
(* before the initial snapshot it follows.                                 *)
(***************************************************************************)
Abstract ==
  INSTANCE Distribution WITH
    Nothing <- NoConfig,
    Bootstraps <- {c \in Contents : Valid(c)},
    Publishable <- {Snapshot(c) : c \in Broadcasts},
    published <- {Snapshot(c) : c \in published},
    serving <- active

ImplementsDistribution == Abstract!Spec

(***************************************************************************)
(* The critical invariant of milestone 3: from the moment it has started,  *)
(* a router routes every key, whatever becomes of the control plane and of *)
(* the connections and whatever it is sent, although nobody validates what *)
(* it applies (keys without an entry are routed like the empty one).  It   *)
(* holds of configurations in the legacy format: the others lose their     *)
(* endpoints on the way.                                                   *)
(***************************************************************************)
RoutingGoesOn ==
  stage = "ready" =>
    \A k \in DOMAIN active.routingTable \union {EmptyKey} : Provided(active, k) # NoRoute

(***************************************************************************)
(* Once Client.Stop has returned, nothing that was under way is applied    *)
(* any more: the configuration the router shuts down with stays.           *)
(***************************************************************************)
StoppedClientIsQuiet == [][stopping = "returned" => UNCHANGED active]_pushVars

(* The last configuration sent to the data plane on its connection.        *)
Latest ==
  IF wire[conn] = <<>> THEN active ELSE wire[conn][Len(wire[conn])]

(* The data plane's connection works and has been given its first          *)
(* snapshot.                                                               *)
Attached ==
  /\ phase = "connected"
  /\ conn \in up
  /\ handler[conn] = "reading"

(* The watcher has announced the version in force.                         *)
Announced == watch = "idle" /\ lastVersion = served.version

(***************************************************************************)
(* A data plane is left with an old version by its control plane only if   *)
(* its initial snapshot was overtaken, in one of two ways: a broadcast was *)
(* written to its connection after the snapshot was loaded and before it   *)
(* was sent, so the snapshot may arrive last; or the watcher of a control  *)
(* plane that had just started took its first version after the snapshot   *)
(* was loaded, sent or not.  Nothing then corrects the snapshot until the  *)
(* version changes again.                                                  *)
(***************************************************************************)
OnlyOvertakenFallBehind ==
  Attached /\ Announced /\ conn \notin overtaken
    => Latest.version = served.version

(***************************************************************************)
(* A version that settles reaches a data plane whose connection holds,     *)
(* however slowly the others read, unless its snapshot was overtaken.      *)
(***************************************************************************)
SettledVersionArrives ==
  \A v \in {c.version : c \in Broadcasts} :
    <>[](running /\ served.version = v /\ conn \in up /\ conn \notin overtaken)
      => <>[](stage = "ready" /\ active.version = v)

(***************************************************************************)
(* The client never gives up: while it is not stopped and the control      *)
(* plane runs, it is connected again and again.                            *)
(***************************************************************************)
ClientReconnects ==
  <>[](running /\ phase # "off" /\ stopping = "no") => []<>(phase = "connected")

(***************************************************************************)
(* Stop gracefully stops the client (comment of Client.Stop).              *)
(***************************************************************************)
StopStops == (stopping = "begun") ~> (stopping = "returned")

(***************************************************************************)
(* Stop returns unless it comes between the check of reconnect and the     *)
(* dial, which may then open a connection nobody closes.                   *)
(***************************************************************************)
StopReturnsUnlessDialing ==
  []~(stopping = "begun" /\ phase = "checked")
    => ((stopping = "begun") ~> (stopping = "returned"))
=============================================================================
