--------------------------------- MODULE Hub ---------------------------------
(***************************************************************************)
(* The live channel (internal/ws/hub.go): a device holds one WebSocket,    *)
(* the hub keeps it under the topics it hears and gives it a queue of      *)
(* bounded length.  Send never waits: it appends to the queue of every     *)
(* socket of the topic, and closes a socket whose queue is full.  What is  *)
(* still queued when a socket ends is lost; what arrives, arrives in the   *)
(* order of the queue.                                                     *)
(***************************************************************************)
EXTENDS Integers, Sequences

CONSTANTS
  Device,     \* devices that may hold a socket
  Topic,      \* keys of the hub
  Hears,      \* Hears[d]: the topics the subscription of d carries
  OutBuffer   \* outBuffer: how many events wait for one socket

ASSUME HubAssumption == /\ Hears \in [Device -> SUBSET Topic]
                        /\ OutBuffer \in Nat \ {0}

(* A socket is off, rising (the device takes itself for connected while    *)
(* the server has not registered it), open at both ends, stopped by the    *)
(* hub (done is closed, the writer has not ended yet), or gone: the device *)
(* has left, the server has not noticed.                                   *)
VARIABLES socket, out

hubVars == <<socket, out>>

(* A request nobody waits for.                                             *)
Idle == [pc |-> "idle"]

(* The device believes it is connected.                                    *)
Connected(d) == socket[d] \in {"rising", "open", "stopped"}

(* Hub.Online: a socket is registered under the topic, alive or not.       *)
Online(topic) == \E d \in Device : topic \in Hears[d] /\ socket[d] \notin {"off", "rising"}

HubInit == /\ socket = [d \in Device |-> "off"]
           /\ out = [d \in Device |-> <<>>]

(* The events of `told`, one at most for a device, are put in its queue.   *)
EventFor(d, told) == LET topics == Hears[d] \cap DOMAIN told
                     IN IF topics = {} THEN <<>> ELSE <<told[CHOOSE x \in topics : TRUE]>>

Full(d) == Len(out[d]) = OutBuffer

(* Mutant: a full queue makes room by dropping the event.                  *)
SendOrDrop(told) ==
  /\ out' = [d \in Device |-> IF socket[d] = "open" /\ ~Full(d)
                              THEN out[d] \o EventFor(d, told) ELSE out[d]]
  /\ UNCHANGED socket

Send(told) ==
  /\ out' = [d \in Device |-> IF socket[d] = "open" /\ ~Full(d)
                              THEN out[d] \o EventFor(d, told) ELSE out[d]]
  /\ socket' = [d \in Device |-> IF socket[d] = "open" /\ Full(d) /\ EventFor(d, told) # <<>>
                                 THEN "stopped" ELSE socket[d]]

(* writeLoop hands the head of the queue to the device; after a stop it    *)
(* may still do so before it ends.                                         *)
Write(d) == /\ socket[d] \in {"open", "stopped"} /\ out[d] # <<>>
            /\ out' = [out EXCEPT ![d] = Tail(@)]
            /\ UNCHANGED socket

(* WsClient.connect announces the connection before the handshake; an old  *)
(* socket the server still believes in is no longer of interest.           *)
Connect(d) == /\ ~Connected(d)
              /\ socket' = [socket EXCEPT ![d] = "rising"]
              /\ out' = [out EXCEPT ![d] = <<>>]

(* Serve: the handshake, and the socket is put under its topics.           *)
Register(d) == /\ socket[d] = "rising"
               /\ socket' = [socket EXCEPT ![d] = "open"]
               /\ UNCHANGED out

(* The writer sees done, says goodbye and closes the connection.           *)
Close(d) == /\ socket[d] = "stopped"
            /\ socket' = [socket EXCEPT ![d] = "off"]
            /\ out' = [out EXCEPT ![d] = <<>>]

(* The network drops the socket; the device knows, the server does not.    *)
Cut(d) == /\ Connected(d)
          /\ socket' = [socket EXCEPT ![d] = IF @ = "rising" THEN "off" ELSE "gone"]
          /\ out' = [out EXCEPT ![d] = <<>>]

(* No pong within pongWait, or a failed write: Serve unregisters.          *)
Unregister(d) == /\ socket[d] = "gone"
                 /\ socket' = [socket EXCEPT ![d] = "off"]
                 /\ UNCHANGED out
=============================================================================
