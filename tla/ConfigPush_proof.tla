-------------------------- MODULE ConfigPush_proof --------------------------
(***************************************************************************)
(* What the distribution of configurations guarantees for every number of  *)
(* data planes, every set of configurations and every capacity of the      *)
(* network, through crashes, broken connections and concurrent writes.     *)
(***************************************************************************)
EXTENDS ConfigPush, ConfigLoader_proof

LEMMA AfterAppend ==
  ASSUME NEW S, NEW s \in Seq(S), NEW m \in S
  PROVE  /\ Append(s, m) \in Seq(S)
         /\ Append(s, m) # <<>>
         /\ Len(Append(s, m)) = Len(s) + 1
         /\ Append(s, m)[Len(s) + 1] = m
         /\ \A i \in 1..Len(s) : Append(s, m)[i] = s[i]
OBVIOUS

LEMMA AfterTail ==
  ASSUME NEW S, NEW s \in Seq(S), s # <<>>
  PROVE  /\ Head(s) \in S
         /\ Head(s) = s[1]
         /\ Tail(s) \in Seq(S)
         /\ Len(s) \in Nat \ {0}
         /\ Len(Tail(s)) = Len(s) - 1
         /\ \A i \in 1..Len(Tail(s)) : Tail(s)[i] = s[i + 1]
OBVIOUS

LEMMA NotEmpty ==
  ASSUME NEW S, NEW s \in Seq(S)
  PROVE  s # <<>> <=> Len(s) \in Nat \ {0}
OBVIOUS

(***************************************************************************)
(* A write leaves the connections as they are; it adds the message to one  *)
(* that works, and does nothing to one that does not.                      *)
(***************************************************************************)
LEMMA AfterWrite ==
  ASSUME wire \in [Conns -> Seq(Broadcasts)],
         \A j \in Conns : Len(wire[j]) <= Capacity,
         NEW k \in Conns, NEW m \in Broadcasts, Write(k, m)
  PROVE  /\ wire' \in [Conns -> Seq(Broadcasts)]
         /\ \A j \in Conns : Len(wire'[j]) <= Capacity
         /\ up' = up
         /\ \A j \in Conns \ {k} : wire'[j] = wire[j]
         /\ k \in up => wire'[k] = Append(wire[k], m)
         /\ k \notin up => wire' = wire
<1>1. CASE k \in up
  <2>1. wire' = [wire EXCEPT ![k] = Append(@, m)] /\ Len(wire[k]) < Capacity /\ up' = up
    BY <1>1 DEF Write
  <2>2. Append(wire[k], m) \in Seq(Broadcasts) /\ Len(Append(wire[k], m)) = Len(wire[k]) + 1
    BY AfterAppend
  <2>3. Len(wire[k]) \in Nat
    OBVIOUS
  <2>4. Len(wire'[k]) <= Capacity
    BY <2>1, <2>2, <2>3, ConnectionsAssumption
  <2> QED
    BY <1>1, <2>1, <2>2, <2>4
<1>2. CASE k \notin up
  BY <1>2 DEF Write
<1> QED
  BY <1>1, <1>2

LEMMA AfterRead ==
  ASSUME wire \in [Conns -> Seq(Broadcasts)],
         \A j \in Conns : Len(wire[j]) <= Capacity,
         NEW k \in Conns, Read(k)
  PROVE  /\ wire' \in [Conns -> Seq(Broadcasts)]
         /\ \A j \in Conns : Len(wire'[j]) <= Capacity
         /\ up' = up
         /\ \A j \in Conns \ {k} : wire'[j] = wire[j]
         /\ wire[k] # <<>> /\ wire'[k] = Tail(wire[k])
         /\ Head(wire[k]) \in Broadcasts
<1>1. wire' = [wire EXCEPT ![k] = Tail(@)] /\ wire[k] # <<>> /\ up' = up
  BY DEF Read
<1>2. /\ Tail(wire[k]) \in Seq(Broadcasts)
      /\ Len(Tail(wire[k])) = Len(wire[k]) - 1
      /\ Len(wire[k]) \in Nat
      /\ Head(wire[k]) \in Broadcasts
  BY <1>1, AfterTail
<1>3. Len(wire'[k]) <= Capacity
  BY <1>1, <1>2, ConnectionsAssumption
<1> QED
  BY <1>1, <1>2, <1>3

(* Every step of the composition is a step of one of its parts.            *)
ControlActions ==
  \/ \E c \in Broadcasts : Publish(c)
  \/ \E k \in Conns : RegisterClient(k) \/ GetInitial(k) \/ SendInitial(k)
                        \/ ReadFails(k) \/ UnregisterClient(k)
  \/ WatchStart \/ WatchTick \/ BroadcastLoad \/ BroadcastLock
  \/ \E k \in Conns : BroadcastSend(k) \/ WritesCollide(k)
  \/ BroadcastDone
  \/ Crash \/ Restart

LEMMA ControlSteps == ControlStep => ControlActions /\ ControlAlone
BY DEF ControlStep, ControlNext, HandlerStep, WatchStep, ControlActions

(* The state of connections, control plane and client, apart from the      *)
(* loader's.                                                               *)
Shape == LoaderTypeOK => PushTypeOK

LEMMA ControlKeepsShape ==
  PushTypeOK /\ ControlStep => Shape'
<1> SUFFICES ASSUME PushTypeOK, ControlStep
             PROVE  Shape'
  OBVIOUS
<1> USE PushAssumption, LoaderAssumption DEF PushTypeOK, Shape, HandlerStages, WatchStages, NoHandlers,
        NoSnapshots, controlVars, serverVars, watchVars, clientVars, netVars, ControlAlone
<1>0. ControlActions /\ ControlAlone
  BY ControlSteps
<1>1. ASSUME NEW c \in Broadcasts, Publish(c) PROVE Shape'
  BY <1>0, <1>1 DEF Publish
<1>2. ASSUME NEW k \in Conns, RegisterClient(k) PROVE Shape'
  BY <1>0, <1>2 DEF RegisterClient
<1>3. ASSUME NEW k \in Conns, GetInitial(k) PROVE Shape'
  BY <1>0, <1>3 DEF GetInitial
<1>4. ASSUME NEW k \in Conns, SendInitial(k) PROVE Shape'
  <2>1. Write(k, initial[k]) /\ initial[k] \in Broadcasts
    BY <1>4 DEF SendInitial
  <2>2. wire' \in [Conns -> Seq(Broadcasts)] /\ (\A j \in Conns : Len(wire'[j]) <= Capacity)
        /\ up' = up
    BY <2>1, AfterWrite
  <2> QED
    BY <1>0, <1>4, <2>2 DEF SendInitial
<1>5. ASSUME NEW k \in Conns, ReadFails(k) PROVE Shape'
  BY <1>0, <1>5 DEF ReadFails
<1>6. ASSUME NEW k \in Conns, UnregisterClient(k) PROVE Shape'
  BY <1>0, <1>6 DEF UnregisterClient, Close
<1>7. CASE WatchStart
  BY <1>0, <1>7 DEF WatchStart
<1>8. CASE WatchTick
  BY <1>0, <1>8 DEF WatchTick
<1>9. CASE BroadcastLoad
  BY <1>0, <1>9 DEF BroadcastLoad
<1>10. CASE BroadcastLock
  BY <1>0, <1>10 DEF BroadcastLock
<1>11. ASSUME NEW k \in Conns, BroadcastSend(k) PROVE Shape'
  <2>1. Write(k, payload) /\ payload \in Broadcasts
    BY <1>11 DEF BroadcastSend
  <2>2. wire' \in [Conns -> Seq(Broadcasts)] /\ (\A j \in Conns : Len(wire'[j]) <= Capacity)
        /\ up' = up
    BY <2>1, AfterWrite
  <2> QED
    BY <1>0, <1>11, <2>2 DEF BroadcastSend
<1>12. ASSUME NEW k \in Conns, WritesCollide(k) PROVE Shape'
  <2>1. payload \in Broadcasts /\ initial[k] \in Broadcasts
    BY <1>12 DEF WritesCollide
  <2>2. wire' \in [Conns -> Seq(Broadcasts)] /\ (\A j \in Conns : Len(wire'[j]) <= Capacity)
        /\ up' = up
    <3>1. CASE \E m \in {payload, initial[k]} : Write(k, m)
      BY <2>1, <3>1, AfterWrite
    <3>2. CASE UNCHANGED netVars
      BY <3>2
    <3> QED
      BY <1>12, <3>1, <3>2 DEF WritesCollide
  <2>3. PICK next \in {"reading", "leaving"} : handler' = [handler EXCEPT ![k] = next]
    BY <1>12 DEF WritesCollide
  <2>4. handler[k] = "sending" /\ k \in clients
    BY <1>12 DEF WritesCollide
  <2>5. handler' \in [Conns -> HandlerStages]
        /\ clients' = {j \in Conns : handler'[j] \in {"registered", "sending", "reading", "leaving"}}
    BY <1>12, <2>3, <2>4 DEF WritesCollide
  <2>6. initial' \in [Conns -> Broadcasts \union {NoConfig}]
        /\ \A j \in Conns : initial'[j] \in Broadcasts <=> handler'[j] = "sending"
    BY <1>12, <2>3, <2>4 DEF WritesCollide
  <2>7. /\ running' = running /\ served' = served /\ watch' = watch /\ payload' = payload
        /\ UNCHANGED <<phase, conn, stopping>>
    BY <1>0, <1>12 DEF WritesCollide
  <2>8. pending' \subseteq clients' /\ (pending' # {} => watch' = "sending")
        /\ overtaken' \subseteq Conns
    BY <1>12 DEF WritesCollide
  <2> QED
    BY <2>2, <2>5, <2>6, <2>7, <2>8
<1>13. CASE BroadcastDone
  BY <1>0, <1>13 DEF BroadcastDone
<1>14. CASE Crash
  BY <1>0, <1>14 DEF Crash
<1>15. CASE Restart
  BY <1>0, <1>15 DEF Restart
<1> QED
  BY <1>0, <1>1, <1>2, <1>3, <1>4, <1>5, <1>6, <1>7, <1>8, <1>9, <1>10, <1>11,
     <1>12, <1>13, <1>14, <1>15 DEF ControlActions

LEMMA ClientKeepsShape ==
  PushTypeOK /\ ClientStep => Shape'
<1> SUFFICES ASSUME PushTypeOK, ClientStep
             PROVE  Shape'
  OBVIOUS
<1> USE PushAssumption, ConnectionsAssumption
    DEF PushTypeOK, Shape, HandlerStages, WatchStages, ClientPhases, ClientStep, ClientAlone,
        controlVars, serverVars, watchVars, netVars
<1>1. CASE StartClient
  BY <1>1 DEF StartClient
<1>2. CASE CheckReconnect
  BY <1>2 DEF CheckReconnect
<1>3. CASE ConnectFails
  BY <1>3 DEF ConnectFails
<1>4. CASE WakeUp
  BY <1>4 DEF WakeUp
<1>5. CASE Receive
  <2>1. Read(conn) /\ conn \in Conns
    BY <1>5 DEF Receive
  <2>2. wire' \in [Conns -> Seq(Broadcasts)] /\ (\A j \in Conns : Len(wire'[j]) <= Capacity)
        /\ up' = up
    BY <2>1, AfterRead
  <2> QED
    BY <1>5, <2>2 DEF Receive, clientVars
<1>6. CASE ConnectionLost
  <2>1. conn \in Conns /\ wire' = [wire EXCEPT ![conn] = <<>>] /\ up' = up
    BY <1>6 DEF ConnectionLost, Drop
  <2>2. wire' \in [Conns -> Seq(Broadcasts)] /\ \A j \in Conns : Len(wire'[j]) <= Capacity
    BY <2>1
  <2> QED
    BY <1>6, <2>1, <2>2 DEF ConnectionLost
<1>7. CASE StopBegins
  BY <1>7 DEF StopBegins, Close
<1>8. CASE StopReturns
  BY <1>8 DEF StopReturns
<1> QED
  BY <1>1, <1>2, <1>3, <1>4, <1>5, <1>6, <1>7, <1>8 DEF LoopStep

LEMMA OthersKeepShape ==
  PushTypeOK /\ (Boot \/ EditBootstrap \/ Dial \/ PeerDial \/ (\E k \in PeerConns : PeerRead(k))
                  \/ Break \/ UNCHANGED pushVars)
    => Shape'
<1> SUFFICES ASSUME PushTypeOK
             PROVE  /\ Boot \/ EditBootstrap => Shape'
                    /\ Dial \/ PeerDial => Shape'
                    /\ (\E k \in PeerConns : PeerRead(k)) => Shape'
                    /\ Break \/ UNCHANGED pushVars => Shape'
  OBVIOUS
<1> USE PushAssumption, ConnectionsAssumption
    DEF PushTypeOK, Shape, HandlerStages, WatchStages, ClientPhases,
        controlVars, serverVars, watchVars, clientVars, netVars
<1>1. Boot \/ EditBootstrap => Shape'
  BY DEF Boot, EditBootstrap
<1>2. ASSUME Dial \/ PeerDial PROVE Shape'
  <2>1. PICK k \in Conns : Accept(k)
    BY <1>2 DEF Dial, PeerDial
  <2>2. \/ Connect(k) /\ k \notin PeerConns
        \/ UNCHANGED <<loaderVars, clientVars>>
    <3>1. CASE PeerDial
      BY <3>1 DEF PeerDial
    <3>2. CASE Dial
      <4>1. PICK j \in Conns \ PeerConns : Connect(j) /\ Accept(j)
        BY <3>2 DEF Dial
      <4>2. j = k
        BY <2>1, <4>1 DEF Accept, Open
      <4> QED
        BY <4>1, <4>2
    <3> QED
      BY <1>2, <3>1, <3>2
  <2>3. CASE Connect(k) /\ k \notin PeerConns
    BY <2>1, <2>3 DEF Accept, Open, Connect
  <2>4. CASE UNCHANGED <<loaderVars, clientVars>>
    BY <2>1, <2>4 DEF Accept, Open
  <2> QED
    BY <2>2, <2>3, <2>4
<1>3. ASSUME NEW k \in PeerConns, PeerRead(k) PROVE Shape'
  <2>1. wire' \in [Conns -> Seq(Broadcasts)] /\ (\A j \in Conns : Len(wire'[j]) <= Capacity)
        /\ up' = up
    BY <1>3, AfterRead DEF PeerRead
  <2> QED
    BY <1>3, <2>1 DEF PeerRead
<1>4. Break \/ UNCHANGED pushVars => Shape'
  BY DEF Break, Close, pushVars
<1> QED
  BY <1>1, <1>2, <1>3, <1>4

(* What the data plane does with its loader, ConfigLoader allows.          *)
LEMMA StepsLoader ==
  PushTypeOK /\ [PushNext]_pushVars => [LoaderNext]_loaderVars
<1> SUFFICES ASSUME PushTypeOK, [PushNext]_pushVars
             PROVE  [LoaderNext]_loaderVars
  OBVIOUS
<1>1. CASE ControlStep
  BY <1>1 DEF ControlStep, ControlAlone
<1>2. CASE Boot \/ EditBootstrap
  BY <1>2 DEF Boot, EditBootstrap, LoaderNext
<1>3. CASE ClientStep
  <2>1. CASE Receive
    <3>1. conn \in Conns /\ Read(conn) /\ ApplyConfig(Head(wire[conn]))
      BY <2>1, PushAssumption DEF Receive, PushTypeOK
    <3>2. Head(wire[conn]) \in Broadcasts
      BY <3>1, AfterRead DEF PushTypeOK
    <3> QED
      BY <3>1, <3>2 DEF LoaderNext
  <2>2. CASE ~Receive
    BY <1>3, <2>2 DEF ClientStep, LoopStep, StartClient, CheckReconnect, ConnectFails, WakeUp,
                      ConnectionLost, StopBegins, StopReturns
  <2> QED
    BY <2>1, <2>2
<1>4. CASE Dial \/ PeerDial \/ (\E k \in PeerConns : PeerRead(k)) \/ Break
  BY <1>4 DEF Dial, Connect, PeerDial, PeerRead, Break
<1>5. CASE UNCHANGED pushVars
  BY <1>5 DEF pushVars
<1> QED
  BY <1>1, <1>2, <1>3, <1>4, <1>5 DEF PushNext

LEMMA PushStarts == PushInit => PushTypeOK /\ GoodInHand
<1> SUFFICES ASSUME PushInit
             PROVE  PushTypeOK /\ GoodInHand
  OBVIOUS
<1>1. LoaderTypeOK /\ GoodInHand
  BY LoaderStarts DEF PushInit, LoaderInit, LoaderTypeOK, LoaderStages
<1>2. Shape
  <2>1. wire = [k \in Conns |-> <<>>] /\ \A k \in Conns : Len(<<>>) <= Capacity
    BY ConnectionsAssumption DEF PushInit, NetInit
  <2> QED
    BY <2>1, PushAssumption, LoaderAssumption
    DEF PushInit, NetInit, ControlInit, ClientInit, Shape, PushTypeOK, NoHandlers, NoSnapshots,
        HandlerStages, WatchStages, ClientPhases
<1> QED
  BY <1>1, <1>2 DEF Shape

LEMMA PushStaysTyped ==
  PushTypeOK /\ GoodInHand /\ [PushNext]_pushVars => (PushTypeOK /\ GoodInHand)'
<1> SUFFICES ASSUME PushTypeOK, GoodInHand, [PushNext]_pushVars
             PROVE  (PushTypeOK /\ GoodInHand)'
  OBVIOUS
<1>1. (LoaderTypeOK /\ GoodInHand)'
  <2>1. LoaderTypeOK
    BY DEF PushTypeOK
  <2> QED
    BY <2>1, StepsLoader, LoaderStaysTyped, LoaderKeepsGood
<1>2. Shape'
  BY ControlKeepsShape, ClientKeepsShape, OthersKeepShape DEF PushNext
<1> QED
  BY <1>1, <1>2 DEF Shape

(***************************************************************************)
(* Type correctness: among other things, Server.clients are exactly the    *)
(* connections between RegisterClient and UnregisterClient, through panics *)
(* and restarts of the control plane (server.go), and the client holds a   *)
(* connection exactly while it handles its messages (client.go).           *)
(***************************************************************************)
THEOREM PushTypeCorrect == PushSpec => []PushTypeOK
<1> DEFINE Inv == PushTypeOK /\ GoodInHand
<1>1. PushInit => Inv
  BY PushStarts
<1>2. Inv /\ [PushNext]_pushVars => Inv'
  BY PushStaysTyped
<1>3. Inv => PushTypeOK
  OBVIOUS
<1> QED
  BY <1>1, <1>2, <1>3, PTL DEF PushSpec

LEMMA SnapshotKeepsVersion ==
  ASSUME NEW c \in Broadcasts
  PROVE  Snapshot(c).version = c.version
BY LoaderAssumption DEF Snapshot, IsConfig

(* What has been served, and every message under way that was made of it.  *)
History ==
  /\ served \in published
  /\ published \subseteq Broadcasts
  /\ \A c \in published : c.version <= served.version
  /\ \A k \in Conns : \A i \in 1..Len(wire[k]) : wire[k][i] \in published
  /\ \A k \in Conns : handler[k] = "sending" => initial[k] \in published
  /\ watch \in {"loaded", "sending"} => payload \in published

(* The watcher is never ahead of the loader, and never broadcasts a        *)
(* configuration older than the version it will remember.                  *)
WatcherBehind ==
  /\ watch # "start" => lastVersion \in Nat /\ lastVersion <= served.version
  /\ watch \in {"changed", "loaded", "sending"} =>
       newVersion \in Nat /\ newVersion <= served.version
  /\ watch \in {"loaded", "sending"} => newVersion <= payload.version

(* What the watcher owes connection k by now.                              *)
Owed(k) == IF watch = "sending" /\ k \notin pending THEN newVersion ELSE lastVersion

Connected == phase = "connected" /\ conn \in up

(* OnlyOvertakenFallBehind between the watcher's ticks: a snapshot that    *)
(* was not overtaken is at least what the watcher owes its connection,     *)
(* from the moment it is loaded until it is replaced.                      *)
CaughtUp ==
  Connected /\ conn \notin overtaken =>
    /\ handler[conn] = "reading" =>
         /\ wire[conn] = <<>> => active \in {Snapshot(c) : c \in published}
         /\ watch # "start" => Latest.version >= Owed(conn)
    /\ handler[conn] = "sending" /\ watch # "start" => initial[conn].version >= Owed(conn)

ClientWaitsForLoader == phase # "off" => stage = "ready"

(* A router has a configuration exactly when LoadInitial has succeeded.    *)
EmptyUntilLoaded ==
  /\ stage \in {"start", "parsed"} => active = NoConfig
  /\ stage \in {"ready", "changed"} => active # NoConfig

LEMMA WriteKeepsEntries ==
  ASSUME PushTypeOK, NEW k \in Conns, NEW m \in Broadcasts, Write(k, m),
         NEW P, m \in P, \A j \in Conns : \A i \in 1..Len(wire[j]) : wire[j][i] \in P
  PROVE  \A j \in Conns : \A i \in 1..Len(wire'[j]) : wire'[j][i] \in P
<1>1. wire \in [Conns -> Seq(Broadcasts)] /\ \A j \in Conns : Len(wire[j]) <= Capacity
  BY DEF PushTypeOK
<1>2. CASE k \notin up
  BY <1>1, <1>2, AfterWrite
<1>3. CASE k \in up
  <2>1. /\ wire'[k] = Append(wire[k], m)
        /\ \A j \in Conns \ {k} : wire'[j] = wire[j]
    BY <1>1, <1>3, AfterWrite
  <2>2. \A i \in 1..Len(wire'[k]) : wire'[k][i] \in P
    <3>1. wire[k] \in Seq(Broadcasts) /\ Len(wire[k]) \in Nat
      BY <1>1
    <3>2. /\ Len(wire'[k]) = Len(wire[k]) + 1
          /\ wire'[k][Len(wire[k]) + 1] = m
          /\ \A i \in 1..Len(wire[k]) : wire'[k][i] = wire[k][i]
      BY <2>1, <3>1, AfterAppend
    <3> QED
      BY <3>1, <3>2
  <2> QED
    BY <2>1, <2>2
<1> QED
  BY <1>2, <1>3

LEMMA ReadKeepsEntries ==
  ASSUME PushTypeOK, NEW k \in Conns, Read(k),
         NEW P, \A j \in Conns : \A i \in 1..Len(wire[j]) : wire[j][i] \in P
  PROVE  /\ \A j \in Conns : \A i \in 1..Len(wire'[j]) : wire'[j][i] \in P
         /\ Head(wire[k]) \in P
<1>1. /\ wire \in [Conns -> Seq(Broadcasts)]
      /\ \A j \in Conns : Len(wire[j]) <= Capacity
  BY DEF PushTypeOK
<1>2. /\ wire[k] # <<>> /\ wire'[k] = Tail(wire[k])
      /\ \A j \in Conns \ {k} : wire'[j] = wire[j]
  BY <1>1, AfterRead
<1>3. /\ Head(wire[k]) = wire[k][1]
      /\ Len(wire[k]) \in Nat \ {0}
      /\ Len(Tail(wire[k])) = Len(wire[k]) - 1
      /\ \A i \in 1..Len(Tail(wire[k])) : Tail(wire[k])[i] = wire[k][i + 1]
  BY <1>1, <1>2, AfterTail
<1>4. \A i \in 1..Len(wire'[k]) : wire'[k][i] \in P
  <2>1. \A i \in 1..Len(wire'[k]) : i + 1 \in 1..Len(wire[k])
    BY <1>2, <1>3
  <2> QED
    BY <1>2, <1>3, <2>1
<1>5. Head(wire[k]) \in P
  BY <1>3
<1> QED
  BY <1>2, <1>4, <1>5

LEMMA HistoryKept ==
  PushTypeOK /\ History /\ [PushNext]_pushVars => History'
<1> SUFFICES ASSUME PushTypeOK, History, [PushNext]_pushVars
             PROVE  History'
  OBVIOUS
<1> DEFINE Entries == \A j \in Conns : \A i \in 1..Len(wire[j]) : wire[j][i] \in published
<1> USE DEF History, controlVars, serverVars, watchVars, clientVars, netVars
<1>1. CASE ControlStep
  <2>0. /\ ControlActions
        /\ published' = published \union {served'}
    BY <1>1, ControlSteps DEF ControlAlone
  <2>1. ASSUME served' = served, wire' = wire
        PROVE  /\ served' \in published' /\ published' = published
               /\ \A c \in published' : c.version <= served'.version
               /\ Entries'
    BY <2>0, <2>1
  <2>2. ASSUME served' \in Broadcasts, served'.version >= served.version, wire' = wire,
               handler' = handler \/ handler' = NoHandlers, initial' = initial \/ handler' = NoHandlers,
               watch' = watch, payload' = payload
        PROVE  History'
    <3>1. \A c \in published' : c.version <= served'.version
      BY <2>0, <2>2, VersionsAssumption DEF PushTypeOK
    <3> QED
      BY <2>0, <2>2, <3>1 DEF NoHandlers
  <2>3. ASSUME NEW c \in Broadcasts, Publish(c) PROVE History'
    BY <2>2, <2>3 DEF Publish
  <2>4. ASSUME NEW k \in Conns, RegisterClient(k) PROVE History'
    BY <2>1, <2>4 DEF RegisterClient, PushTypeOK
  <2>5. ASSUME NEW k \in Conns, GetInitial(k) PROVE History'
    BY <2>1, <2>5 DEF GetInitial, PushTypeOK
  <2>6. ASSUME NEW k \in Conns, SendInitial(k) PROVE History'
    <3>1. Write(k, initial[k]) /\ initial[k] \in published /\ published' = published
      BY <2>0, <2>6 DEF SendInitial
    <3>2. Entries'
      BY <3>1, WriteKeepsEntries
    <3> QED
      BY <2>6, <3>1, <3>2 DEF SendInitial, PushTypeOK
  <2>7. ASSUME NEW k \in Conns, ReadFails(k) PROVE History'
    BY <2>1, <2>7 DEF ReadFails, PushTypeOK
  <2>8. ASSUME NEW k \in Conns, UnregisterClient(k) PROVE History'
    BY <2>1, <2>8 DEF UnregisterClient, Close, PushTypeOK
  <2>9. CASE WatchStart \/ WatchTick
    BY <2>1, <2>9 DEF WatchStart, WatchTick, PushTypeOK
  <2>10. CASE BroadcastLoad
    BY <2>1, <2>10 DEF BroadcastLoad, PushTypeOK
  <2>11. CASE BroadcastLock \/ BroadcastDone
    BY <2>1, <2>11 DEF BroadcastLock, BroadcastDone, PushTypeOK
  <2>12. ASSUME NEW k \in Conns, BroadcastSend(k) PROVE History'
    <3>1. Write(k, payload) /\ payload \in published /\ published' = published
      BY <2>0, <2>12 DEF BroadcastSend
    <3>2. Entries'
      BY <3>1, WriteKeepsEntries
    <3> QED
      BY <2>12, <3>1, <3>2 DEF BroadcastSend, PushTypeOK
  <2>13. ASSUME NEW k \in Conns, WritesCollide(k) PROVE History'
    <3>1. payload \in published /\ initial[k] \in published /\ published' = published
      BY <2>0, <2>13 DEF WritesCollide
    <3>2. Entries'
      <4>1. CASE \E m \in {payload, initial[k]} : Write(k, m)
        BY <3>1, <4>1, WriteKeepsEntries
      <4>2. CASE UNCHANGED netVars
        BY <3>1, <4>2
      <4> QED
        BY <2>13, <4>1, <4>2 DEF WritesCollide
    <3> QED
      BY <2>13, <3>1, <3>2 DEF WritesCollide, PushTypeOK
  <2>14. CASE Crash
    BY <2>1, <2>14 DEF Crash, NoHandlers, PushTypeOK
  <2>15. CASE Restart
    BY <2>2, <2>15 DEF Restart
  <2> QED
    BY <2>0, <2>3, <2>4, <2>5, <2>6, <2>7, <2>8, <2>9, <2>10, <2>11, <2>12, <2>13, <2>14, <2>15
    DEF ControlActions
<1>2. ASSUME Entries', UNCHANGED <<controlVars, published>> PROVE History'
  BY <1>2
<1>3. CASE Boot \/ EditBootstrap \/ Break \/ UNCHANGED pushVars
  BY <1>2, <1>3 DEF Boot, EditBootstrap, Break, Close, pushVars
<1>4. CASE ClientStep
  <2>1. UNCHANGED <<controlVars, published>>
    BY <1>4 DEF ClientStep, ClientAlone
  <2>2. CASE Receive
    <3>1. conn \in Conns /\ Read(conn)
      BY <2>2 DEF Receive, PushTypeOK
    <3> QED
      BY <1>2, <2>1, <3>1, ReadKeepsEntries
  <2>3. CASE ConnectionLost
    <3>1. conn \in Conns /\ wire' = [wire EXCEPT ![conn] = <<>>]
      BY <2>3 DEF ConnectionLost, Drop, PushTypeOK
    <3>2. \A j \in Conns : wire'[j] = wire[j] \/ wire'[j] = <<>>
      BY <3>1 DEF PushTypeOK
    <3>3. Entries'
      BY <2>1, <3>2
    <3> QED
      BY <1>2, <2>1, <3>3
  <2>4. CASE ~Receive /\ ~ConnectionLost
    <3>1. wire' = wire
      BY <1>4, <2>4 DEF ClientStep, LoopStep, StartClient, CheckReconnect, ConnectFails, WakeUp,
                        StopBegins, StopReturns, Close
    <3> QED
      BY <1>2, <2>1, <3>1
  <2> QED
    BY <2>2, <2>3, <2>4
<1>5. CASE Dial \/ PeerDial
  <2>1. PICK k \in Conns : Accept(k)
    BY <1>5, PushAssumption DEF Dial, PeerDial
  <2>2. published' = published
    BY <1>5 DEF Dial, PeerDial
  <2> QED
    BY <2>1, <2>2 DEF Accept, Open, PushTypeOK
<1>6. ASSUME NEW k \in PeerConns, PeerRead(k) PROVE History'
  BY <1>2, <1>6, ReadKeepsEntries, PushAssumption DEF PeerRead
<1> QED
  BY <1>1, <1>3, <1>4, <1>5, <1>6 DEF PushNext

LEMMA WatcherStaysBehind ==
  PushTypeOK /\ WatcherBehind /\ [PushNext]_pushVars => WatcherBehind'
<1> SUFFICES ASSUME PushTypeOK, WatcherBehind, [PushNext]_pushVars
             PROVE  WatcherBehind'
  OBVIOUS
<1> USE VersionsAssumption
    DEF WatcherBehind, WatchStages, controlVars, serverVars, watchVars, clientVars, netVars
<1>0. served \in Broadcasts /\ served.version \in Nat /\ watch \in WatchStages
  BY DEF PushTypeOK
<1>1. ASSUME served' \in Broadcasts, served'.version >= served.version, UNCHANGED watchVars
      PROVE  WatcherBehind'
  BY <1>0, <1>1
<1>2. CASE ControlStep
  <2>0. ControlActions
    BY <1>2, ControlSteps
  <2>1. ASSUME NEW c \in Broadcasts, Publish(c) PROVE WatcherBehind'
    BY <1>1, <2>1 DEF Publish
  <2>2. ASSUME NEW k \in Conns,
               RegisterClient(k) \/ GetInitial(k) \/ SendInitial(k) \/ ReadFails(k)
                 \/ UnregisterClient(k) \/ BroadcastSend(k) \/ WritesCollide(k)
        PROVE  WatcherBehind'
    BY <1>0, <2>2 DEF RegisterClient, GetInitial, SendInitial, ReadFails, UnregisterClient,
                      BroadcastSend, WritesCollide
  <2>3. CASE WatchStart
    BY <1>0, <2>3 DEF WatchStart
  <2>4. CASE WatchTick
    BY <1>0, <2>4 DEF WatchTick
  <2>5. CASE BroadcastLoad
    BY <1>0, <2>5 DEF BroadcastLoad
  <2>6. CASE BroadcastLock
    BY <1>0, <2>6 DEF BroadcastLock
  <2>7. CASE BroadcastDone
    BY <1>0, <2>7 DEF BroadcastDone
  <2>8. CASE Crash
    BY <2>8 DEF Crash
  <2>9. CASE Restart
    BY <1>1, <2>9 DEF Restart
  <2> QED
    BY <2>0, <2>1, <2>2, <2>3, <2>4, <2>5, <2>6, <2>7, <2>8, <2>9 DEF ControlActions
<1>3. CASE ~ControlStep
  <2>1. UNCHANGED <<served, watchVars>>
    BY <1>3 DEF PushNext, Boot, EditBootstrap, ClientStep, ClientAlone, Dial, PeerDial, PeerRead,
                Break, Accept, pushVars
  <2> QED
    BY <1>0, <2>1
<1> QED
  BY <1>2, <1>3

LEMMA ClientKeepsWaiting ==
  ClientWaitsForLoader /\ [PushNext]_pushVars => ClientWaitsForLoader'
<1> SUFFICES ASSUME ClientWaitsForLoader, [PushNext]_pushVars
             PROVE  ClientWaitsForLoader'
  OBVIOUS
<1> USE DEF ClientWaitsForLoader, loaderVars, clientVars
<1>1. CASE Boot \/ EditBootstrap
  BY <1>1 DEF Boot, EditBootstrap, InitialRead, InitialChecksum, Fail, Edit, controlVars
<1>2. CASE ClientStep
  BY <1>2 DEF ClientStep, LoopStep, StartClient, CheckReconnect, ConnectFails, WakeUp, Receive,
              ApplyConfig, ConnectionLost, StopBegins, StopReturns
<1>3. CASE Dial \/ PeerDial
  BY <1>3 DEF Dial, Connect, PeerDial
<1>4. CASE ControlStep \/ (\E k \in PeerConns : PeerRead(k)) \/ Break \/ UNCHANGED pushVars
  BY <1>4 DEF ControlStep, ControlAlone, PeerRead, Break, pushVars
<1> QED
  BY <1>1, <1>2, <1>3, <1>4 DEF PushNext

LEMMA EmptinessKept ==
  PushTypeOK /\ GoodInHand /\ EmptyUntilLoaded /\ [PushNext]_pushVars => EmptyUntilLoaded'
<1> SUFFICES ASSUME GoodInHand, EmptyUntilLoaded, [LoaderNext]_loaderVars
             PROVE  EmptyUntilLoaded'
  BY StepsLoader
<1> USE PushAssumption, LoaderAssumption DEF EmptyUntilLoaded, GoodInHand
<1>1. CASE Edit \/ InitialRead
  BY <1>1 DEF Edit, InitialRead, Fail
<1>2. CASE InitialChecksum
  BY <1>2 DEF InitialChecksum, Fail
<1>3. CASE Compare \/ Reload \/ LoopReturns
  BY <1>3 DEF Compare, Reload, LoopReturns, Fail
<1>4. CASE \E c \in Broadcasts : ApplyConfig(c)
  BY <1>4 DEF ApplyConfig
<1>5. CASE UNCHANGED loaderVars
  BY <1>5 DEF loaderVars
<1> QED
  BY <1>1, <1>2, <1>3, <1>4, <1>5 DEF LoaderNext

(* The message a write adds is the latest.                                 *)
LEMMA WriteIsLatest ==
  ASSUME PushTypeOK, NEW m \in Broadcasts, Connected, Write(conn, m), UNCHANGED <<active, conn>>
  PROVE  wire'[conn] # <<>> /\ Latest' = m
<1>1. /\ conn \in Conns /\ conn \in up
      /\ wire \in [Conns -> Seq(Broadcasts)] /\ \A j \in Conns : Len(wire[j]) <= Capacity
  BY DEF Connected, PushTypeOK
<1>2. wire'[conn] = Append(wire[conn], m)
  BY <1>1, AfterWrite
<1>3. /\ Append(wire[conn], m) # <<>>
      /\ Append(wire[conn], m)[Len(Append(wire[conn], m))] = m
  BY <1>1, AfterAppend
<1> QED
  BY <1>2, <1>3 DEF Latest

(* A write to another connection leaves the latest message alone.          *)
LEMMA OtherWrite ==
  ASSUME PushTypeOK, NEW k \in Conns, NEW m \in Broadcasts, Write(k, m), k # conn, conn \in Conns,
         UNCHANGED <<active, conn>>
  PROVE  wire'[conn] = wire[conn] /\ Latest' = Latest
<1>1. wire'[conn] = wire[conn]
  BY AfterWrite DEF PushTypeOK
<1> QED
  BY <1>1 DEF Latest

LEMMA ControlCatchesUp ==
  PushTypeOK /\ History /\ WatcherBehind /\ CaughtUp /\ ControlStep => CaughtUp'
<1> SUFFICES ASSUME PushTypeOK, History, WatcherBehind, CaughtUp, ControlStep,
                    Connected', conn' \notin overtaken'
             PROVE  /\ handler'[conn'] = "reading" =>
                         /\ wire'[conn'] = <<>> => active' \in {Snapshot(c) : c \in published'}
                         /\ watch' # "start" => Latest'.version >= Owed(conn)'
                    /\ handler'[conn'] = "sending" /\ watch' # "start" =>
                         initial'[conn'].version >= Owed(conn)'
  BY DEF CaughtUp
<1> DEFINE Goal == /\ handler'[conn] = "reading" =>
                        /\ wire'[conn] = <<>> => active \in {Snapshot(c) : c \in published'}
                        /\ watch' # "start" => Latest'.version >= Owed(conn)'
                   /\ handler'[conn] = "sending" /\ watch' # "start" =>
                        initial'[conn].version >= Owed(conn)'
<1>0. /\ ControlActions
      /\ published \subseteq published'
      /\ active' = active /\ conn' = conn /\ phase' = phase
  BY ControlSteps DEF ControlAlone, loaderVars, clientVars
<1>1. /\ phase = "connected" /\ conn \in up' /\ conn \notin overtaken'
      /\ conn \in Conns /\ handler \in [Conns -> HandlerStages]
      /\ served \in Broadcasts /\ served.version \in Nat
  BY <1>0, VersionsAssumption DEF Connected, PushTypeOK
<1>2. (watch # "start" => lastVersion \in Nat) /\ (watch = "sending" => newVersion \in Nat)
  BY DEF WatcherBehind
<1> USE DEF controlVars, serverVars, watchVars, clientVars, netVars
<1>3. ASSUME up' = up, overtaken' = overtaken, wire'[conn] = wire[conn],
             handler'[conn] = handler[conn], initial'[conn] = initial[conn],
             watch' = watch, Owed(conn)' = Owed(conn)
      PROVE  Goal
  <2>1. Latest' = Latest
    BY <1>0, <1>3 DEF Latest
  <2> QED
    BY <1>0, <1>1, <1>3, <2>1 DEF CaughtUp, Connected
<1>4. ASSUME UNCHANGED <<netVars, handler, initial, watchVars, overtaken>>
      PROVE  Goal
  BY <1>0, <1>3, <1>4 DEF Owed
<1>5. ASSUME NEW c \in Broadcasts, Publish(c) PROVE Goal
  BY <1>4, <1>5 DEF Publish
<1>6. ASSUME NEW k \in Conns, RegisterClient(k) \/ ReadFails(k) PROVE Goal
  <2>1. k # conn => Goal
    BY <1>0, <1>1, <1>3, <1>6 DEF RegisterClient, ReadFails, Owed
  <2>2. k = conn => handler'[conn] \in {"registered", "leaving"}
    BY <1>1, <1>6 DEF RegisterClient, ReadFails
  <2> QED
    BY <2>1, <2>2
<1>7. ASSUME NEW k \in Conns, UnregisterClient(k) PROVE Goal
  <2>1. k # conn
    BY <1>1, <1>7 DEF UnregisterClient, Close
  <2>2. up' = up \ {k} /\ overtaken' = overtaken \ {k} /\ conn \in up /\ conn \notin overtaken
    BY <1>1, <1>7, <2>1 DEF UnregisterClient, Close
  <2>3. Latest' = Latest /\ Owed(conn)' = Owed(conn)
    BY <1>0, <1>7 DEF Latest, Owed, UnregisterClient, Close
  <2> QED
    BY <1>0, <1>1, <1>7, <2>1, <2>2, <2>3 DEF UnregisterClient, Close, CaughtUp, Connected
<1>8. ASSUME NEW k \in Conns, GetInitial(k) PROVE Goal
  <2>1. k # conn => Goal
    BY <1>0, <1>1, <1>3, <1>8 DEF GetInitial, Owed, PushTypeOK
  <2>2. k = conn => handler'[conn] = "sending" /\ initial'[conn] = served
    BY <1>1, <1>8 DEF GetInitial, PushTypeOK
  <2>3. watch # "start" => served.version >= Owed(conn)
    BY <1>1 DEF WatcherBehind, Owed
  <2>4. watch' = watch /\ Owed(conn)' = Owed(conn)
    BY <1>0, <1>8 DEF GetInitial, Owed
  <2> QED
    BY <2>1, <2>2, <2>3, <2>4
<1>9. ASSUME NEW k \in Conns, SendInitial(k) PROVE Goal
  <2>1. Write(k, initial[k]) /\ initial[k] \in Broadcasts
    BY <1>9 DEF SendInitial, PushTypeOK
  <2>2. up' = up /\ watch' = watch /\ Owed(conn)' = Owed(conn) /\ overtaken' = overtaken
    BY <1>0, <1>9, <2>1, AfterWrite DEF SendInitial, Owed, PushTypeOK
  <2>3. CASE k # conn
    <3>1. wire'[conn] = wire[conn]
      BY <1>0, <1>1, <2>1, <2>3, OtherWrite
    <3> QED
      BY <1>1, <1>3, <1>9, <2>2, <2>3, <3>1 DEF SendInitial
  <2>4. CASE k = conn
    <3>1. Connected
      BY <1>1, <2>2 DEF Connected
    <3>2. wire'[conn] # <<>> /\ Latest' = initial[conn]
      BY <1>0, <2>1, <2>4, <3>1, WriteIsLatest
    <3>3. handler[conn] = "sending" /\ handler'[conn] = "reading"
      BY <1>1, <1>9, <2>4 DEF SendInitial
    <3>4. watch # "start" => initial[conn].version >= Owed(conn)
      BY <1>1, <2>2, <3>1, <3>3 DEF CaughtUp
    <3> QED
      BY <2>2, <3>2, <3>3, <3>4
  <2> QED
    BY <2>3, <2>4
<1>10. ASSUME WatchStart PROVE Goal
  <2>1. handler' = handler /\ handler[conn] \notin {"sending", "reading"}
    BY <1>1, <1>10 DEF WatchStart
  <2> QED
    BY <2>1
<1>11. ASSUME WatchTick \/ BroadcastLoad PROVE Goal
  <2>1. /\ UNCHANGED <<netVars, handler, initial, overtaken>>
        /\ watch \in {"idle", "changed"} /\ watch' \in {"changed", "loaded"}
        /\ lastVersion' = lastVersion
    BY <1>11 DEF WatchTick, BroadcastLoad
  <2>2. Owed(conn)' = Owed(conn) /\ Latest' = Latest
    BY <1>0, <2>1 DEF Owed, Latest
  <2> QED
    BY <1>0, <1>1, <2>1, <2>2 DEF CaughtUp, Connected
<1>12. ASSUME BroadcastLock PROVE Goal
  <2>1. /\ UNCHANGED <<netVars, handler, initial, overtaken, lastVersion>>
        /\ watch = "loaded" /\ watch' = "sending" /\ pending' = clients
    BY <1>12 DEF BroadcastLock
  <2>2. handler[conn] \in {"sending", "reading"} => conn \in clients
    BY <1>1 DEF PushTypeOK
  <2>3. Latest' = Latest
    BY <1>0, <2>1 DEF Latest
  <2>4. handler[conn] \in {"sending", "reading"} => Owed(conn)' = Owed(conn)
    BY <1>0, <2>1, <2>2 DEF Owed
  <2> QED
    BY <1>0, <1>1, <2>1, <2>3, <2>4 DEF CaughtUp, Connected
<1>13. ASSUME NEW k \in Conns, BroadcastSend(k) PROVE Goal
  <2>1. Write(k, payload) /\ payload \in Broadcasts
    BY <1>13 DEF BroadcastSend, PushTypeOK
  <2>2. up' = up /\ watch' = watch /\ handler' = handler /\ initial' = initial
    BY <1>13, <2>1, AfterWrite DEF BroadcastSend, PushTypeOK
  <2>3. CASE k # conn
    <3>1. wire'[conn] = wire[conn] /\ Latest' = Latest
      BY <1>0, <1>1, <2>1, <2>3, OtherWrite
    <3>2. Owed(conn)' = Owed(conn)
      BY <1>0, <1>13, <2>3 DEF BroadcastSend, Owed
    <3>3. conn \notin overtaken
      BY <1>1, <1>13, <2>3 DEF BroadcastSend
    <3> QED
      BY <1>0, <1>1, <2>2, <3>1, <3>2, <3>3 DEF CaughtUp, Connected
  <2>4. CASE k = conn
    <3>1. Connected /\ handler[conn] # "sending"
      BY <1>1, <1>13, <2>2, <2>4 DEF Connected, BroadcastSend
    <3>2. wire'[conn] # <<>> /\ Latest' = payload
      BY <1>0, <2>1, <2>4, <3>1, WriteIsLatest
    <3>3. watch = "sending" /\ Owed(conn)' = newVersion
      BY <1>0, <1>13, <2>4 DEF BroadcastSend, Owed
    <3>4. payload.version >= newVersion
      BY <1>2, <2>1, <3>3, VersionsAssumption DEF WatcherBehind
    <3> QED
      BY <2>2, <3>1, <3>2, <3>3, <3>4
  <2> QED
    BY <2>3, <2>4
<1>14. ASSUME NEW k \in Conns, WritesCollide(k) PROVE Goal
  <2>1. k # conn
    BY <1>1, <1>14 DEF WritesCollide
  <2>2. wire'[conn] = wire[conn] /\ Latest' = Latest /\ up' = up
    <3>1. CASE \E m \in {payload, initial[k]} : Write(k, m)
      <4>1. payload \in Broadcasts /\ initial[k] \in Broadcasts
        BY <1>14 DEF WritesCollide, PushTypeOK
      <4> QED
        BY <1>0, <1>1, <2>1, <3>1, <4>1, OtherWrite, AfterWrite DEF PushTypeOK
    <3>2. CASE UNCHANGED netVars
      BY <1>0, <3>2 DEF Latest
    <3> QED
      BY <1>14, <3>1, <3>2 DEF WritesCollide
  <2>3. Owed(conn)' = Owed(conn) /\ watch' = watch /\ conn \notin overtaken
    BY <1>0, <1>1, <1>14, <2>1 DEF WritesCollide, Owed
  <2>4. handler'[conn] = handler[conn] /\ initial'[conn] = initial[conn]
    BY <1>1, <1>14, <2>1 DEF WritesCollide, PushTypeOK
  <2> QED
    BY <1>0, <1>1, <2>2, <2>3, <2>4 DEF CaughtUp, Connected
<1>15. ASSUME BroadcastDone PROVE Goal
  <2>1. /\ UNCHANGED <<netVars, handler, initial, overtaken>>
        /\ watch = "sending" /\ watch' = "idle" /\ conn \notin pending
        /\ lastVersion' = newVersion
    BY <1>15 DEF BroadcastDone
  <2>2. Owed(conn)' = Owed(conn) /\ Latest' = Latest
    BY <1>0, <2>1 DEF Owed, Latest
  <2> QED
    BY <1>0, <1>1, <2>1, <2>2 DEF CaughtUp, Connected
<1>16. ASSUME Crash PROVE Goal
  BY <1>1, <1>16 DEF Crash
<1>17. ASSUME Restart PROVE Goal
  BY <1>4, <1>17 DEF Restart
<1>18. Goal
  BY <1>0, <1>5, <1>6, <1>7, <1>8, <1>9, <1>10, <1>11, <1>12, <1>13, <1>14, <1>15, <1>16, <1>17
  DEF ControlActions
<1> QED
  BY <1>0, <1>18

LEMMA ReceiveStaysCaughtUp ==
  ASSUME PushTypeOK, History, CaughtUp, Receive, UNCHANGED controlVars, published' = published
  PROVE  CaughtUp'
<1> USE DEF controlVars, serverVars, watchVars, clientVars
<1>1. /\ phase = "connected" /\ Read(conn) /\ ApplyConfig(Head(wire[conn]))
      /\ UNCHANGED <<phase, conn, stopping>>
  BY DEF Receive
<1>2. conn \in Conns /\ wire \in [Conns -> Seq(Broadcasts)] /\ \A j \in Conns : Len(wire[j]) <= Capacity
  BY <1>1 DEF PushTypeOK
<1>3. up' = up /\ wire[conn] # <<>> /\ wire'[conn] = Tail(wire[conn]) /\ Head(wire[conn]) \in Broadcasts
  BY <1>1, <1>2, AfterRead
<1>4. /\ Head(wire[conn]) = wire[conn][1]
      /\ Tail(wire[conn]) \in Seq(Broadcasts)
      /\ Len(wire[conn]) \in Nat \ {0}
      /\ Len(Tail(wire[conn])) = Len(wire[conn]) - 1
      /\ \A i \in 1..Len(Tail(wire[conn])) : Tail(wire[conn])[i] = wire[conn][i + 1]
  BY <1>2, <1>3, AfterTail
<1>5. active' = Snapshot(Head(wire[conn])) /\ Head(wire[conn]) \in published
  BY <1>1, <1>4, <1>2 DEF ApplyConfig, History
<1>6. Latest = wire[conn][Len(wire[conn])]
  BY <1>3 DEF Latest
<1>7. Latest'.version = Latest.version
  <2>1. CASE Tail(wire[conn]) = <<>>
    <3>1. Len(wire[conn]) = 1
      <4>1. Len(Tail(wire[conn])) \notin Nat \ {0}
        BY <1>4, <2>1, NotEmpty
      <4> QED
        BY <1>4, <4>1
    <3>2. Latest' = active'
      BY <1>1, <1>3, <2>1 DEF Latest
    <3> QED
      BY <1>3, <1>4, <1>5, <1>6, <3>1, <3>2, SnapshotKeepsVersion
  <2>2. CASE Tail(wire[conn]) # <<>>
    <3>1. Len(Tail(wire[conn])) \in 1..Len(Tail(wire[conn]))
      BY <1>4, <2>2, NotEmpty
    <3>2. Tail(wire[conn])[Len(Tail(wire[conn]))] = wire[conn][Len(wire[conn])]
      BY <1>4, <3>1
    <3>3. Latest' = Tail(wire[conn])[Len(Tail(wire[conn]))]
      BY <1>1, <1>3, <2>2 DEF Latest
    <3> QED
      BY <1>6, <3>2, <3>3
  <2> QED
    BY <2>1, <2>2
<1>8. active' \in {Snapshot(c) : c \in published'}
  BY <1>5
<1>9. Owed(conn)' = Owed(conn)
  BY <1>1 DEF Owed
<1> QED
  BY <1>1, <1>3, <1>7, <1>8, <1>9 DEF CaughtUp, Connected

LEMMA OthersCatchUp ==
  PushTypeOK /\ History /\ CaughtUp /\ ClientWaitsForLoader /\ [PushNext]_pushVars /\ ~ControlStep
    => CaughtUp'
<1> SUFFICES ASSUME PushTypeOK, History, CaughtUp, ClientWaitsForLoader, [PushNext]_pushVars,
                    ~ControlStep
             PROVE  CaughtUp'
  OBVIOUS
<1> USE DEF controlVars, serverVars, watchVars, clientVars, netVars
<1>1. ASSUME UNCHANGED <<controlVars, published, phase, conn, active>>, up' \subseteq up,
             phase = "connected" => wire'[conn] = wire[conn]
      PROVE  CaughtUp'
  <2>1. phase = "connected" => Latest' = Latest
    BY <1>1 DEF Latest
  <2>2. Owed(conn)' = Owed(conn)
    BY <1>1 DEF Owed
  <2> QED
    BY <1>1, <2>1, <2>2 DEF CaughtUp, Connected
<1>2. ASSUME phase' # "connected" \/ conn' \notin up' PROVE CaughtUp'
  BY <1>2 DEF CaughtUp, Connected
<1>3. CASE Boot
  <2>1. stage # "ready"
    BY <1>3 DEF Boot, InitialRead, InitialChecksum
  <2>2. phase' # "connected"
    BY <1>3, <2>1 DEF Boot, ClientWaitsForLoader
  <2> QED
    BY <1>2, <2>2
<1>4. CASE EditBootstrap \/ Break \/ UNCHANGED pushVars
  BY <1>1, <1>4 DEF EditBootstrap, Edit, Break, Close, pushVars, loaderVars
<1>5. CASE ClientStep
  <2>1. UNCHANGED <<controlVars, published>>
    BY <1>5 DEF ClientStep, ClientAlone
  <2>2. CASE Receive
    BY <2>1, <2>2, ReceiveStaysCaughtUp
  <2>3. CASE ~Receive
    BY <1>2, <1>5, <2>3 DEF ClientStep, LoopStep, StartClient, CheckReconnect, ConnectFails, WakeUp,
                            ConnectionLost, StopBegins, StopReturns, Close
  <2> QED
    BY <2>2, <2>3
<1>6. CASE Dial
  <2>1. PICK k \in Conns : Connect(k) /\ Accept(k)
    BY <1>6 DEF Dial
  <2>2. conn' = k /\ handler'[k] = "accepted"
    BY <2>1 DEF Connect, Accept, PushTypeOK
  <2> QED
    BY <2>2 DEF CaughtUp
<1>7. CASE PeerDial
  <2>1. PICK k \in PeerConns : Accept(k)
    BY <1>7 DEF PeerDial
  <2>2. UNCHANGED <<watchVars, initial, overtaken, published, phase, conn, active, wire>>
    BY <1>7, <2>1 DEF PeerDial, Accept, Open, loaderVars
  <2>3. phase = "connected" => conn \in Conns /\ conn # k
    BY DEF PushTypeOK
  <2>4. phase = "connected" =>
          handler'[conn] = handler[conn] /\ (conn \in up' => conn \in up)
    BY <2>1, <2>3 DEF Accept, Open, PushTypeOK
  <2>5. Latest' = Latest /\ Owed(conn)' = Owed(conn)
    BY <2>2 DEF Latest, Owed
  <2> QED
    BY <2>2, <2>4, <2>5 DEF CaughtUp, Connected
<1>8. ASSUME NEW k \in PeerConns, PeerRead(k) PROVE CaughtUp'
  <2>1. k \in Conns /\ Read(k) /\ UNCHANGED <<loaderVars, controlVars, clientVars, published>>
    BY <1>8, PushAssumption DEF PeerRead
  <2>2. up' = up /\ \A j \in Conns \ {k} : wire'[j] = wire[j]
    BY <2>1, AfterRead DEF PushTypeOK
  <2>3. phase = "connected" => wire'[conn] = wire[conn]
    BY <2>2 DEF PushTypeOK
  <2> QED
    BY <1>1, <2>1, <2>2, <2>3 DEF loaderVars
<1> QED
  BY <1>3, <1>4, <1>5, <1>6, <1>7, <1>8 DEF PushNext

(* The inductive invariant.                                                *)
PushInv ==
  /\ PushTypeOK
  /\ GoodInHand
  /\ History
  /\ WatcherBehind
  /\ CaughtUp
  /\ ClientWaitsForLoader
  /\ EmptyUntilLoaded

LEMMA PushInvInductive ==
  /\ PushInit => PushInv
  /\ PushInv /\ [PushNext]_pushVars => PushInv'
<1>1. PushInit => PushInv
  <2> SUFFICES ASSUME PushInit
               PROVE  PushInv
    OBVIOUS
  <2>1. PushTypeOK /\ GoodInHand
    BY PushStarts
  <2>2. History
    <3>1. \A k \in Conns : wire[k] = <<>>
      BY DEF PushInit, NetInit
    <3>2. served \in Broadcasts /\ served.version \in Nat
      BY VersionsAssumption DEF PushInit, ControlInit
    <3> QED
      BY <3>1, <3>2 DEF PushInit, ControlInit, History, NoHandlers
  <2>3. WatcherBehind /\ CaughtUp /\ ClientWaitsForLoader /\ EmptyUntilLoaded
    BY DEF PushInit, ControlInit, ClientInit, WatcherBehind, CaughtUp, Connected,
           ClientWaitsForLoader, LoaderInit, EmptyUntilLoaded
  <2> QED
    BY <2>1, <2>2, <2>3 DEF PushInv
<1>2. ASSUME PushInv, [PushNext]_pushVars PROVE PushInv'
  <2>1. (PushTypeOK /\ GoodInHand)'
    BY <1>2, PushStaysTyped DEF PushInv
  <2>2. (History /\ WatcherBehind /\ ClientWaitsForLoader /\ EmptyUntilLoaded)'
    BY <1>2, HistoryKept, WatcherStaysBehind, ClientKeepsWaiting, EmptinessKept DEF PushInv
  <2>3. CaughtUp'
    BY <1>2, ControlCatchesUp, OthersCatchUp DEF PushInv
  <2> QED
    BY <2>1, <2>2, <2>3 DEF PushInv
<1> QED
  BY <1>1, <1>2

(***************************************************************************)
(* A data plane whose connection works serves, or is about to read, the    *)
(* version its control plane announced last, unless its initial snapshot   *)
(* was overtaken: the registration that comes before the snapshot is       *)
(* loaded (HandleConnection) leaves no other gap to the broadcasts, and    *)
(* WatchConfigChanges never remembers a version newer than what it sent.   *)
(***************************************************************************)
THEOREM OnlyTheOvertakenFallBehind == PushSpec => []OnlyOvertakenFallBehind
<1>1. ASSUME PushInv PROVE OnlyOvertakenFallBehind
  <2> SUFFICES ASSUME Attached, Announced, conn \notin overtaken
               PROVE  Latest.version = served.version
    BY DEF OnlyOvertakenFallBehind
  <2>1. Latest.version >= served.version
    BY <1>1 DEF PushInv, CaughtUp, Connected, Attached, Announced, Owed
  <2>2. \E c \in published : Latest.version = c.version
    <3>1. CASE wire[conn] = <<>>
      <4>1. active \in {Snapshot(c) : c \in published}
        BY <1>1, <3>1 DEF PushInv, CaughtUp, Connected, Attached
      <4> QED
        BY <1>1, <3>1, <4>1, SnapshotKeepsVersion DEF PushInv, History, Latest
    <3>2. CASE wire[conn] # <<>>
      <4>1. conn \in Conns /\ wire[conn] \in Seq(Broadcasts)
        BY <1>1 DEF PushInv, PushTypeOK, Attached
      <4>2. Len(wire[conn]) \in 1..Len(wire[conn])
        BY <3>2, <4>1, NotEmpty
      <4> QED
        BY <1>1, <3>2, <4>1, <4>2 DEF PushInv, History, Latest
    <3> QED
      BY <3>1, <3>2
  <2>3. \A c \in published : c.version \in Nat /\ c.version <= served.version
    BY <1>1, VersionsAssumption DEF PushInv, History
  <2>4. served.version \in Nat
    BY <1>1, VersionsAssumption DEF PushInv, PushTypeOK
  <2> QED
    BY <2>1, <2>2, <2>3, <2>4
<1> QED
  BY <1>1, PushInvInductive, PTL DEF PushSpec

(***************************************************************************)
(* The control plane, the network and the client implement Distribution:   *)
(* the router serves nothing, then its bootstrap configuration, then only  *)
(* what was published, whatever breaks or restarts in between              *)
(* (LoadInitial and ApplyConfig of loader.go, handleConfigSnapshot of      *)
(* client.go).                                                             *)
(***************************************************************************)
THEOREM PushImplementsDistribution == PushSpec => ImplementsDistribution
<1>1. ASSUME PushInit PROVE Abstract!Init
  <2>1. {Snapshot(c) : c \in published} = {Snapshot(served)}
    BY <1>1 DEF PushInit
  <2>2. served \in Broadcasts /\ active = NoConfig
    BY <1>1 DEF PushInit, ControlInit, LoaderInit
  <2> QED
    BY <2>1, <2>2 DEF Abstract!Init
<1>2. ASSUME PushInv, [PushNext]_pushVars
      PROVE  [Abstract!Next]_(Abstract!vars)
  <2> USE DEF controlVars, serverVars, watchVars, clientVars, netVars, loaderVars
  <2>1. ASSUME active' = active, published' = published PROVE [Abstract!Next]_(Abstract!vars)
    BY <2>1 DEF Abstract!vars
  <2>2. CASE ControlStep
    <3>1. published' = published \union {served'} /\ active' = active
      BY <2>2 DEF ControlStep, ControlAlone
    <3>2. served' \in Broadcasts
      BY <1>2, PushInvInductive DEF PushInv, PushTypeOK
    <3>3. {Snapshot(c) : c \in published'} = {Snapshot(c) : c \in published} \union {Snapshot(served')}
      BY <3>1
    <3> QED
      BY <3>1, <3>2, <3>3 DEF Abstract!Next, Abstract!Publish
  <2>3. CASE Boot
    <3>1. published' = published
      BY <2>3 DEF Boot
    <3>2. CASE active' = active
      BY <2>1, <3>1, <3>2
    <3>3. CASE active' # active
      <4>1. stage = "parsed" /\ active' = read
        BY <2>3, <3>3 DEF Boot, InitialRead, InitialChecksum, Fail
      <4>2. read \in Contents /\ Valid(read) /\ active = NoConfig
        BY <1>2, <4>1 DEF PushInv, GoodInHand, EmptyUntilLoaded
      <4> QED
        BY <3>1, <4>1, <4>2 DEF Abstract!Next, Abstract!Bootstrap
    <3> QED
      BY <3>2, <3>3
  <2>4. CASE ClientStep
    <3>1. UNCHANGED <<controlVars, published>>
      BY <2>4 DEF ClientStep, ClientAlone
    <3>2. CASE Receive
      <4>1. conn \in Conns /\ Read(conn) /\ ApplyConfig(Head(wire[conn]))
        BY <1>2, <3>2 DEF Receive, PushInv, PushTypeOK
      <4>2. Head(wire[conn]) \in published
        BY <1>2, <4>1, ReadKeepsEntries DEF PushInv, History
      <4>3. active # NoConfig
        BY <1>2, <4>1 DEF PushInv, EmptyUntilLoaded, ApplyConfig
      <4> QED
        BY <3>1, <4>1, <4>2, <4>3 DEF ApplyConfig, Abstract!Next, Abstract!Adopt
    <3>3. CASE ~Receive
      BY <2>1, <2>4, <3>1, <3>3
      DEF ClientStep, LoopStep, StartClient, CheckReconnect, ConnectFails, WakeUp,
          ConnectionLost, StopBegins, StopReturns
    <3> QED
      BY <3>2, <3>3
  <2>5. CASE EditBootstrap \/ Dial \/ PeerDial \/ (\E k \in PeerConns : PeerRead(k)) \/ Break
             \/ UNCHANGED pushVars
    BY <2>1, <2>5 DEF EditBootstrap, Edit, Dial, Connect, PeerDial, PeerRead, Break, pushVars
  <2> QED
    BY <1>2, <2>2, <2>3, <2>4, <2>5 DEF PushNext
<1> QED
  BY <1>1, <1>2, PushInvInductive, PTL DEF PushSpec, ImplementsDistribution, Abstract!Spec

(***************************************************************************)
(* Routing through failures of the control plane.  Nothing but a valid     *)
(* configuration in the legacy format is ever in force: the bootstrap file *)
(* was validated by LoadInitial, and what is pushed by the loader of the   *)
(* control plane, before its message dropped the placements.               *)
(***************************************************************************)
OnlyLegacy == \A c \in Contents \union Broadcasts : Valid(c) => LegacyFormat(c)

LegacyServed == active # NoConfig => Valid(active) /\ LegacyFormat(active)

LEMMA LegacyStaysServed ==
  ASSUME OnlyLegacy, ~FollowsFile, GoodInHand, LegacyServed, [LoaderNext]_loaderVars
  PROVE  LegacyServed'
<1>1. CASE InitialChecksum
  <2>1. stage = "parsed" /\ active' \in {active, read}
    BY <1>1 DEF InitialChecksum, Fail
  <2>2. read \in Contents /\ Valid(read)
    BY <2>1 DEF GoodInHand
  <2> QED
    BY <2>1, <2>2 DEF OnlyLegacy, LegacyServed
<1>2. ASSUME NEW c \in Broadcasts, ApplyConfig(c) PROVE LegacyServed'
  <2>1. IsConfig(c) /\ Valid(c) /\ LegacyFormat(c)
    BY LoaderAssumption DEF OnlyLegacy
  <2>2. Valid(Snapshot(c))
    BY <2>1, LegacySnapshotsAreGood
  <2>3. LegacyFormat(Snapshot(c))
    BY <2>1, SnapshotFields DEF LegacyFormat
  <2> QED
    BY <1>2, <2>2, <2>3 DEF ApplyConfig, LegacyServed
<1>3. CASE Compare \/ Reload \/ LoopReturns
  <2>1. ~(Compare \/ LoopReturns)
    BY DEF Compare, LoopReturns
  <2>2. Reload => active' \in {active, file}
    BY DEF Reload, Fail
  <2>3. Reload => (active' # active => file \in Contents /\ Valid(file))
    BY DEF Reload, Fail
  <2> QED
    BY <1>3, <2>1, <2>2, <2>3 DEF OnlyLegacy, LegacyServed
<1>4. CASE Edit \/ InitialRead \/ UNCHANGED loaderVars
  BY <1>4 DEF Edit, InitialRead, Fail, loaderVars, LegacyServed
<1> QED
  BY <1>1, <1>2, <1>3, <1>4 DEF LoaderNext

(***************************************************************************)
(* The critical invariant of milestone 3.  Where every configuration that  *)
(* Validate accepts is in the legacy format, a router that has loaded its  *)
(* bootstrap file routes every key for ever, through every failure of the  *)
(* control plane and of the network and in every order of the messages,    *)
(* although ApplyConfig validates nothing.  Without that hypothesis it     *)
(* does not (PlacementsSnapshotsAreBad).                                   *)
(***************************************************************************)
THEOREM RoutingContinues ==
  ASSUME OnlyLegacy, \A p, u, w : NoRoute # [placement |-> p, url |-> u, reason |-> w]
  PROVE  PushSpec => []RoutingGoesOn
<1> DEFINE Inv == PushInv /\ LegacyServed
<1>1. PushInit => Inv
  BY PushInvInductive DEF PushInit, LoaderInit, LegacyServed
<1>2. Inv /\ [PushNext]_pushVars => Inv'
  <2> SUFFICES ASSUME Inv, [PushNext]_pushVars
               PROVE  Inv'
    OBVIOUS
  <2>1. [LoaderNext]_loaderVars
    BY StepsLoader DEF PushInv
  <2>2. LegacyServed'
    BY <2>1, LegacyStaysServed, PushAssumption DEF PushInv
  <2> QED
    BY <2>2, PushInvInductive
<1>3. Inv => RoutingGoesOn
  <2> SUFFICES ASSUME Inv, stage = "ready", NEW k
               PROVE  Provided(active, k) # NoRoute
    BY DEF RoutingGoesOn
  <2>1. Valid(active) /\ LegacyFormat(active)
    BY DEF PushInv, EmptyUntilLoaded, LegacyServed
  <2>2. Provided(active, k) = LookupIn(active, k)
    BY <2>1 DEF Provided, LookupIn, Endpoints
  <2> QED
    BY <2>1, <2>2, ValidConfigsRoute
<1> HIDE DEF Inv
<1> QED
  BY <1>1, <1>2, <1>3, PTL DEF PushSpec

(***************************************************************************)
(* The shutdown of a client.  connectionLoop returns only once reconnect   *)
(* is cleared, and Stop returns only after connectionLoop.                 *)
(***************************************************************************)
StopOrder ==
  /\ phase = "done" => stopping # "no"
  /\ stopping = "returned" => phase = "done"
  /\ ClientWaitsForLoader

LEMMA StopStaysOrdered == StopOrder /\ [PushNext]_pushVars => StopOrder'
<1> SUFFICES ASSUME StopOrder, [PushNext]_pushVars
             PROVE  StopOrder'
  OBVIOUS
<1>1. ClientWaitsForLoader'
  BY ClientKeepsWaiting DEF StopOrder
<1> USE <1>1 DEF StopOrder, clientVars
<1>2. CASE Boot \/ EditBootstrap
  BY <1>2 DEF Boot, EditBootstrap
<1>3. CASE ClientStep
  BY <1>3 DEF ClientStep, LoopStep, StartClient, CheckReconnect, ConnectFails, WakeUp, Receive,
              ConnectionLost, StopBegins, StopReturns
<1>4. CASE Dial \/ PeerDial
  BY <1>4 DEF Dial, Connect, PeerDial
<1>5. CASE ControlStep \/ (\E k \in PeerConns : PeerRead(k)) \/ Break \/ UNCHANGED pushVars
  BY <1>5 DEF ControlStep, ControlAlone, PeerRead, Break, pushVars
<1> QED
  BY <1>2, <1>3, <1>4, <1>5 DEF PushNext

LEMMA StopStartsOrdered == PushInit => StopOrder
BY DEF PushInit, ClientInit, StopOrder, ClientWaitsForLoader

(***************************************************************************)
(* After Stop has returned nothing is applied any more, not even a message *)
(* that was being handled when it was called (client.go Stop,              *)
(* connectionLoop and handleMessages).                                     *)
(***************************************************************************)
THEOREM NothingAppliedAfterStop == PushSpec => StoppedClientIsQuiet
<1>1. StopOrder /\ [PushNext]_pushVars => [stopping = "returned" => UNCHANGED active]_pushVars
  <2> SUFFICES ASSUME StopOrder, PushNext, stopping = "returned"
               PROVE  active' = active
    OBVIOUS
  <2>1. phase = "done" /\ stage = "ready"
    BY DEF StopOrder, ClientWaitsForLoader
  <2> USE DEF loaderVars
  <2>2. CASE Boot \/ EditBootstrap
    BY <2>1, <2>2 DEF Boot, InitialRead, InitialChecksum, EditBootstrap, Edit
  <2>3. CASE ClientStep
    BY <2>1, <2>3 DEF ClientStep, LoopStep, StartClient, CheckReconnect, ConnectFails, WakeUp,
                      Receive, ConnectionLost, StopBegins, StopReturns
  <2>4. CASE Dial \/ PeerDial
    BY <2>4 DEF Dial, Connect, PeerDial
  <2>5. CASE ControlStep \/ (\E k \in PeerConns : PeerRead(k)) \/ Break
    BY <2>5 DEF ControlStep, ControlAlone, PeerRead, Break
  <2> QED
    BY <2>2, <2>3, <2>4, <2>5 DEF PushNext
<1> QED
  BY <1>1, StopStartsOrdered, StopStaysOrdered, PTL DEF PushSpec, StoppedClientIsQuiet

(***************************************************************************)
(* The part of ClientReconnects and of StopReturnsUnlessDialing that is    *)
(* safety.  Until Stop is called the loop is in some phase it goes on      *)
(* from: no failure of a dial or of a connection makes it give up.  After  *)
(* Stop was called it begins no further attempt, so that at most the dial  *)
(* that was under way can still open a connection.                         *)
(***************************************************************************)
THEOREM ClientEndsOnlyByStop ==
  PushSpec => /\ [](phase = "done" => stopping # "no")
              /\ [][stopping # "no" /\ phase # "checked" => phase' # "checked"]_pushVars
<1>1. StopOrder => (phase = "done" => stopping # "no")
  BY DEF StopOrder
<1>2. [PushNext]_pushVars
        => [stopping # "no" /\ phase # "checked" => phase' # "checked"]_pushVars
  <2> SUFFICES ASSUME PushNext, stopping # "no", phase # "checked"
               PROVE  phase' # "checked"
    OBVIOUS
  <2>1. CASE Boot \/ EditBootstrap
    BY <2>1 DEF Boot, EditBootstrap, clientVars
  <2>2. CASE ClientStep
    BY <2>2 DEF ClientStep, LoopStep, StartClient, CheckReconnect, ConnectFails, WakeUp, Receive,
                ConnectionLost, StopBegins, StopReturns, clientVars
  <2>3. CASE Dial \/ PeerDial
    BY <2>3 DEF Dial, Connect, PeerDial, clientVars
  <2>4. CASE ControlStep \/ (\E k \in PeerConns : PeerRead(k)) \/ Break
    BY <2>4 DEF ControlStep, ControlAlone, PeerRead, Break, clientVars
  <2> QED
    BY <2>1, <2>2, <2>3, <2>4 DEF PushNext
<1> QED
  BY <1>1, <1>2, StopStartsOrdered, StopStaysOrdered, PTL DEF PushSpec
=============================================================================
