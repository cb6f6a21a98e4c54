---- MODULE MCRemoteControl ----
(***************************************************************************)
(* Instances of RemoteControl for TLC.                                     *)
(***************************************************************************)
EXTENDS RemoteControl, TLC

Events(drops, restarts, requests, strokes, timeouts, ends, faults) ==
    ("drop" :> drops) @@ ("restart" :> restarts) @@ ("request" :> requests)
        @@ ("stroke" :> strokes) @@ ("timeout" :> timeouts) @@ ("end" :> ends)
        @@ ("fault" :> faults)

\* Over connections that hold: two requests with a timeout, two with keys and the
\* end of the attendance, and keys that Windows refuses.  Then a connection lost
\* under a control, two lost without one, and an application that starts again.
AnyTrouble == {Events(0, 0, 2, 0, 1, 0, 0), Events(0, 0, 2, 2, 0, 1, 0),
               Events(0, 0, 1, 3, 0, 0, 2),
               Events(1, 0, 1, 1, 0, 0, 0), Events(2, 0, 0, 0, 0, 1, 0),
               Events(1, 1, 0, 0, 0, 1, 0), Events(0, 1, 1, 0, 0, 0, 0)}

Connections3 == 1 .. 3
====
