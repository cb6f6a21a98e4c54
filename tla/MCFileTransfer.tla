---- MODULE MCFileTransfer ----
(***************************************************************************)
(* Instances of FileTransfer for TLC.                                      *)
(***************************************************************************)
EXTENDS FileTransfer, TLC

Events(drops, faults, edits, clicks, closes, restarts) ==
    ("drop" :> drops) @@ ("fault" :> faults) @@ ("edit" :> edits)
        @@ ("click" :> clicks) @@ ("close" :> closes) @@ ("restart" :> restarts)

\* A lost channel with a disk fault, or with a click or a closed entry and a restart
\* of the receiver; an edit that is undone, with a click; clicks alone; and clicks
\* with a fault, where a retry crosses the end of what it retries, and the receiver
\* closes its entry or not.
AnyTrouble == {Events(1, 1, 0, 0, 0, 0), Events(1, 0, 0, 1, 0, 1), Events(1, 0, 0, 0, 1, 1),
               Events(0, 0, 2, 1, 0, 0), Events(0, 0, 0, 3, 0, 0), Events(0, 1, 0, 2, 1, 0)}

\* The channel stays, and one other kind of thing goes wrong.
SteadyChannel == {Events(0, 2, 0, 0, 0, 0), Events(0, 0, 1, 0, 0, 0),
                  Events(0, 0, 0, 1, 0, 0), Events(0, 0, 0, 0, 1, 0)}

Together == AnyTrouble \cup SteadyChannel

Places == 1 .. 3
====
