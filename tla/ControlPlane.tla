---------------------------- MODULE ControlPlane ----------------------------
(***************************************************************************)
(* The control plane (internal/controlplane/server.go and its main): for   *)
(* each connection a goroutine, HandleConnection, that registers it, sends *)
(* it the configuration in force and then reads; and one goroutine,        *)
(* WatchConfigChanges, that broadcasts a configuration when the version    *)
(* field has changed.  Its loader is the one of ConfigLoader, of which all *)
(* that matters here is that it always serves a validated configuration    *)
(* (LastGoodServed).                                                       *)
(***************************************************************************)
EXTENDS RoutingConfig, Connections

ASSUME VersionsAssumption ==    \* operators number their versions upwards
  \A c \in Broadcasts : c.version \in Nat

VARIABLES
  running,      \* the process runs and listens
  served,       \* the configuration its loader serves
  handler,      \* where the goroutine of each connection is
  initial,      \* the snapshot it is about to send
  clients,      \* Server.clients
  watch,        \* where WatchConfigChanges is
  lastVersion,  \* its variables lastVersion...
  newVersion,   \* ...and currentVersion
  payload,      \* the configuration BroadcastConfig sends...
  pending,      \* ...and the clients it has yet to send it to
  overtaken     \* history, see OnlyOvertakenFallBehind

serverVars == <<handler, initial, clients>>
watchVars == <<watch, lastVersion, newVersion, payload, pending>>
controlVars == <<running, served, serverVars, watchVars, overtaken>>

HandlerStages == {"none", "accepted", "registered", "sending", "reading", "leaving"}
WatchStages == {"start", "idle", "changed", "loaded", "sending"}

NoHandlers == [k \in Conns |-> "none"]
NoSnapshots == [k \in Conns |-> NoConfig]

ControlInit ==
  /\ running = TRUE
  /\ served \in Broadcasts
  /\ handler = NoHandlers
  /\ initial = NoSnapshots
  /\ clients = {}
  /\ watch = "start"
  /\ lastVersion = NoVersion
  /\ newVersion = NoVersion
  /\ payload = NoConfig
  /\ pending = {}
  /\ overtaken = {}

(* The loader adopts an edit of the file.  The edit may forget to change   *)
(* the version.                                                            *)
Publish(c) ==
  /\ running
  /\ c # served
  /\ c.version >= served.version
  /\ served' = c
  /\ UNCHANGED <<running, serverVars, watchVars, overtaken, netVars>>

(* A connection is upgraded, and HandleConnection called.                  *)
Accept(k) ==
  /\ running
  /\ handler[k] = "none"
  /\ Open(k)
  /\ handler' = [handler EXCEPT ![k] = "accepted"]
  /\ UNCHANGED <<running, served, initial, clients, watchVars, overtaken>>

(* RegisterClient waits for a broadcast, which holds the read lock.        *)
RegisterClient(k) ==
  /\ handler[k] = "accepted"
  /\ watch # "sending"
  /\ clients' = clients \union {k}
  /\ handler' = [handler EXCEPT ![k] = "registered"]
  /\ UNCHANGED <<running, served, initial, watchVars, overtaken, netVars>>

(* sendConfigToClient loads the configuration...                           *)
GetInitial(k) ==
  /\ handler[k] = "registered"
  /\ initial' = [initial EXCEPT ![k] = served]
  /\ handler' = [handler EXCEPT ![k] = "sending"]
  /\ UNCHANGED <<running, served, clients, watchVars, overtaken, netVars>>

(* ...and sends it.                                                        *)
SendInitial(k) ==
  /\ handler[k] = "sending"
  /\ Write(k, initial[k])
  /\ handler' = [handler EXCEPT ![k] = "reading"]
  /\ initial' = [initial EXCEPT ![k] = NoConfig]
  /\ UNCHANGED <<running, served, clients, watchVars, overtaken>>

(* HandleConnection reads until that fails.                                *)
ReadFails(k) ==
  /\ handler[k] = "reading"
  /\ k \notin up
  /\ handler' = [handler EXCEPT ![k] = "leaving"]
  /\ UNCHANGED <<running, served, initial, clients, watchVars, overtaken, netVars>>

(* A variant of UnregisterClient that forgets to delete the connection.    *)
UnregisterClientKeeps(k) ==
  /\ handler[k] = "leaving"
  /\ watch # "sending"
  /\ Close(k)
  /\ handler' = [handler EXCEPT ![k] = "none"]
  /\ overtaken' = overtaken \ {k}
  /\ UNCHANGED <<running, served, initial, clients, watchVars>>

UnregisterClient(k) ==
  /\ handler[k] = "leaving"
  /\ watch # "sending"
  /\ clients' = clients \ {k}
  /\ Close(k)
  /\ handler' = [handler EXCEPT ![k] = "none"]
  /\ overtaken' = overtaken \ {k}
  /\ UNCHANGED <<running, served, initial, watchVars>>

(* The goroutine of WatchConfigChanges gets to run and reads the version   *)
(* it will compare with.  Snapshots loaded before may be older and are     *)
(* overtaken, those already sent (the handler is reading) included.        *)
WatchStart ==
  /\ running
  /\ watch = "start"
  /\ watch' = "idle"
  /\ lastVersion' = served.version
  /\ overtaken' = overtaken \union {k \in Conns : handler[k] \in {"sending", "reading"}}
  /\ UNCHANGED <<running, served, serverVars, newVersion, payload, pending, netVars>>

(* A tick finds the version changed...                                     *)
WatchTick ==
  /\ watch = "idle"
  /\ served.version # lastVersion
  /\ watch' = "changed"
  /\ newVersion' = served.version
  /\ UNCHANGED <<running, served, serverVars, lastVersion, payload, pending, overtaken, netVars>>

(* ...BroadcastConfig loads the configuration, by now perhaps another...   *)
BroadcastLoad ==
  /\ watch = "changed"
  /\ watch' = "loaded"
  /\ payload' = served
  /\ UNCHANGED <<running, served, serverVars, lastVersion, newVersion, pending, overtaken, netVars>>

(* A variant of BroadcastLock that leaves the connections alone which have *)
(* their initial snapshot still to come, for fear of a collision.          *)
BroadcastLockSettled ==
  /\ watch = "loaded"
  /\ watch' = "sending"
  /\ pending' = {k \in clients : handler[k] = "reading"}
  /\ UNCHANGED <<running, served, serverVars, lastVersion, newVersion, payload, overtaken, netVars>>

(* ...takes the read lock on the clients...                                *)
BroadcastLock ==
  /\ watch = "loaded"
  /\ watch' = "sending"
  /\ pending' = clients
  /\ UNCHANGED <<running, served, serverVars, lastVersion, newVersion, payload, overtaken, netVars>>

(* A variant of BroadcastSend that returns at the first write that fails.  *)
BroadcastSendGivesUp(k) ==
  /\ watch = "sending"
  /\ k \in pending
  /\ pending' = IF k \in up THEN pending \ {k} ELSE {}
  /\ Write(k, payload)
  /\ overtaken' = IF handler[k] = "sending" THEN overtaken \union {k} ELSE overtaken \ {k}
  /\ UNCHANGED <<running, served, serverVars, watch, lastVersion, newVersion, payload>>

(* ...and writes to each in the order of a map.  Nothing keeps it from     *)
(* writing to a connection that has its initial snapshot still to come.    *)
BroadcastSend(k) ==
  /\ watch = "sending"
  /\ k \in pending
  /\ pending' = pending \ {k}
  /\ Write(k, payload)
  /\ overtaken' = IF handler[k] = "sending" THEN overtaken \union {k} ELSE overtaken \ {k}
  /\ UNCHANGED <<running, served, serverVars, watch, lastVersion, newVersion, payload>>

(* Two goroutines write to one connection at once, which the library       *)
(* forbids: the two use one buffer, so that at most one message arrives    *)
(* as it should, and either may panic.  A panic of the HTTP server's       *)
(* goroutine is recovered once the deferred UnregisterClient has run; one  *)
(* of the watcher ends the process, which Crash stands for.  A message     *)
(* that is torn does not parse, and the data plane skips it.               *)
WritesCollide(k) ==
  /\ watch = "sending"
  /\ k \in pending \intersect up
  /\ handler[k] = "sending"
  /\ pending' = pending \ {k}
  /\ overtaken' = overtaken \union {k}
  /\ \/ \E m \in {payload, initial[k]} : Write(k, m)
     \/ UNCHANGED netVars
  /\ \E next \in {"reading", "leaving"} : handler' = [handler EXCEPT ![k] = next]
  /\ initial' = [initial EXCEPT ![k] = NoConfig]
  /\ UNCHANGED <<running, served, clients, watch, lastVersion, newVersion, payload>>

BroadcastDone ==
  /\ watch = "sending"
  /\ pending = {}
  /\ watch' = "idle"
  /\ lastVersion' = newVersion
  /\ newVersion' = NoVersion
  /\ payload' = NoConfig
  /\ UNCHANGED <<running, served, serverVars, pending, overtaken, netVars>>

(* The process ends, by a signal or a panic, and all connections with it.  *)
Crash ==
  /\ running
  /\ running' = FALSE
  /\ up' = {}
  /\ handler' = NoHandlers
  /\ initial' = NoSnapshots
  /\ clients' = {}
  /\ watch' = "start"
  /\ lastVersion' = NoVersion
  /\ newVersion' = NoVersion
  /\ payload' = NoConfig
  /\ pending' = {}
  /\ overtaken' = {}
  /\ UNCHANGED <<served, wire>>

(* It starts again and loads what its file contains by now.                *)
Restart ==
  /\ ~running
  /\ running' = TRUE
  /\ served' \in {c \in Broadcasts : c.version >= served.version}
  /\ UNCHANGED <<serverVars, watchVars, overtaken, netVars>>

(* The goroutines that run by themselves.                                  *)
HandlerStep(k) ==
  \/ RegisterClient(k)
  \/ GetInitial(k)
  \/ SendInitial(k)
  \/ ReadFails(k)
  \/ UnregisterClient(k)

WatchStep ==
  \/ WatchStart
  \/ WatchTick
  \/ BroadcastLoad
  \/ BroadcastLock
  \/ \E k \in Conns : BroadcastSend(k) \/ WritesCollide(k)
  \/ BroadcastDone

ControlNext ==
  \/ \E c \in Broadcasts : Publish(c)
  \/ \E k \in Conns : HandlerStep(k)
  \/ WatchStep
  \/ Crash
  \/ Restart
=============================================================================
