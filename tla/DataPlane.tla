------------------------------ MODULE DataPlane ------------------------------
(***************************************************************************)
(* The data-plane client (internal/dataplane/client.go) of a router that   *)
(* is given its configurations by a control plane: main loads the          *)
(* bootstrap file, starts the client and stops it at shutdown.             *)
(***************************************************************************)
EXTENDS ConfigLoader, Connections

VARIABLES
  phase,      \* where connectionLoop is
  conn,       \* Client.conn while it is in use
  stopping    \* whether Stop was called, which clears reconnect, or returned

clientVars == <<phase, conn, stopping>>

ClientPhases == {"off", "top", "checked", "backoff", "connected", "done"}

ClientInit ==
  /\ phase = "off"
  /\ conn = NoConn
  /\ stopping = "no"

(* main starts the client once LoadInitial has succeeded.                  *)
StartClient ==
  /\ stage = "ready" /\ ~FollowsFile
  /\ phase = "off"
  /\ phase' = "top"
  /\ UNCHANGED <<loaderVars, conn, stopping, netVars>>

(* The loop looks at the stop channel and the reconnect flag, and lets go  *)
(* of the mutex...                                                         *)
CheckReconnect ==
  /\ phase = "top"
  /\ phase' = IF stopping = "no" THEN "checked" ELSE "done"
  /\ UNCHANGED <<loaderVars, conn, stopping, netVars>>

(* ...before connect takes it again for as long as it dials.               *)
Connect(k) ==
  /\ phase = "checked"
  /\ phase' = "connected"
  /\ conn' = k
  /\ UNCHANGED <<loaderVars, stopping>>

(* A variant of ConnectFails that returns from connectionLoop.             *)
ConnectFailsForGood ==
  /\ phase = "checked"
  /\ phase' = "done"
  /\ UNCHANGED <<loaderVars, conn, stopping, netVars>>

ConnectFails ==
  /\ phase = "checked"
  /\ phase' = "backoff"
  /\ UNCHANGED <<loaderVars, conn, stopping, netVars>>

(* The back-off is over.  It looks at nothing while it sleeps.             *)
WakeUp ==
  /\ phase = "backoff"
  /\ phase' = "top"
  /\ UNCHANGED <<loaderVars, conn, stopping, netVars>>

(* handleMessages reads a snapshot and applies it, and handleConfigSnapshot*)
(* acknowledges it.                                                        *)
Receive ==
  /\ phase = "connected"
  /\ Read(conn)
  /\ ApplyConfig(Head(wire[conn]))
  /\ UNCHANGED clientVars

(* A variant of ConnectionLost that goes back to the bootstrap file.       *)
ConnectionLostResets ==
  /\ phase = "connected"
  /\ conn \notin up
  /\ phase' = "top"
  /\ conn' = NoConn
  /\ Drop(conn)
  /\ active' = file
  /\ UNCHANGED <<file, lastChecksum, stage, read, stopping>>

(* ReadMessage fails and connectionLoop starts over.                       *)
ConnectionLost ==
  /\ phase = "connected"
  /\ conn \notin up
  /\ phase' = "top"
  /\ conn' = NoConn
  /\ Drop(conn)
  /\ UNCHANGED <<loaderVars, stopping>>

(* A variant of StopBegins that leaves the connection open.                *)
StopBeginsKeepsConn ==
  /\ stopping = "no"
  /\ phase # "off"
  /\ stopping' = "begun"
  /\ UNCHANGED <<loaderVars, phase, conn, netVars>>

(* Client.Stop clears reconnect, closes the connection if there is one...  *)
StopBegins ==
  /\ stopping = "no"
  /\ phase # "off"
  /\ stopping' = "begun"
  /\ Close(conn)
  /\ UNCHANGED <<loaderVars, phase, conn>>

(* A variant of StopReturns that does not wait.                            *)
StopReturnsAtOnce ==
  /\ stopping = "begun"
  /\ stopping' = "returned"
  /\ UNCHANGED <<loaderVars, phase, conn, netVars>>

(* ...and waits for connectionLoop to return.                              *)
StopReturns ==
  /\ stopping = "begun"
  /\ phase = "done"
  /\ stopping' = "returned"
  /\ UNCHANGED <<loaderVars, phase, conn, netVars>>

(* The steps of connectionLoop that need no new connection.                *)
LoopStep ==
  \/ CheckReconnect
  \/ ConnectFails
  \/ WakeUp
  \/ Receive
  \/ ConnectionLost
=============================================================================
