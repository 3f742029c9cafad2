---------------------------- MODULE Connections ----------------------------
(***************************************************************************)
(* The WebSocket connections between a control plane and its data planes,  *)
(* as the code uses those of gorilla/websocket: messages of the control    *)
(* plane arrive in order, a connection may break at any moment, each end   *)
(* finds out when it next uses it, and what was under way may still be     *)
(* read or be lost.  The data planes' acknowledgements change nothing but  *)
(* the control plane's log and are left out.                               *)
(***************************************************************************)
EXTENDS Naturals, Sequences

CONSTANTS
  Conns,      \* connections, each of which is used again when both ends left it
  NoConn,     \* no connection
  Capacity    \* messages the network holds before a write blocks

ASSUME ConnectionsAssumption ==
  /\ NoConn \notin Conns
  /\ Capacity \in Nat \ {0}

VARIABLES
  up,     \* the connections that work
  wire    \* what was written to each connection and not read yet

netVars == <<up, wire>>

NetInit ==
  /\ up = {}
  /\ wire = [k \in Conns |-> <<>>]

Open(k) ==
  /\ k \notin up
  /\ wire[k] = <<>>
  /\ up' = up \union {k}
  /\ UNCHANGED wire

(* Conn.Close, and a failure of the network.                               *)
Close(k) == up' = up \ {k} /\ UNCHANGED wire

(* Conn.WriteMessage blocks while the network takes no more, and has no    *)
(* effect on a broken connection, whether it returns an error or not.      *)
Write(k, m) ==
  /\ \/ /\ k \in up
        /\ Len(wire[k]) < Capacity
        /\ wire' = [wire EXCEPT ![k] = Append(@, m)]
     \/ k \notin up /\ UNCHANGED wire
  /\ UNCHANGED up

(* Conn.ReadMessage returns a message.                                     *)
Read(k) ==
  /\ wire[k] # <<>>
  /\ wire' = [wire EXCEPT ![k] = Tail(@)]
  /\ UNCHANGED up

(* Conn.ReadMessage returns an error, and what was not read is lost.       *)
Drop(k) ==
  /\ k \notin up
  /\ wire' = [wire EXCEPT ![k] = <<>>]
  /\ UNCHANGED up
=============================================================================
