---- MODULE MCNegotiation ----
(***************************************************************************)
(* Over sockets that stay up: two failures of the media and a change of    *)
(* devices; a device that is on early and a failure.  A lost socket.  And  *)
(* a failure of the media with a lost socket.                              *)
(***************************************************************************)
EXTENDS Negotiation

Bounds(drop, network, change, early) ==
    [b \in Bounded |-> CASE b = "drop" -> drop [] b = "network" -> network
                         [] b = "change" -> change [] OTHER -> early]

AnyTrouble == {Bounds(0, 2, 1, 0), Bounds(0, 1, 0, 1), Bounds(1, 0, 0, 0)}

FailureAndDrop == {Bounds(1, 1, 0, 0)}
====
