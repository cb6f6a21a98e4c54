---- MODULE MCFirstRun ----
(***************************************************************************)
(* Instances of FirstRun for TLC.                                          *)
(***************************************************************************)
EXTENDS FirstRun, TLC

CONSTANTS
    w1, w2, w3,     \* windows
    ana, bia        \* accounts

\* Ana has opened the panel on two computers.
AccountOf == (w1 :> ana) @@ (w2 :> ana) @@ (w3 :> bia)

Events(fault, loss, reload, logout) ==
    ("fault" :> fault) @@ ("loss" :> loss) @@ ("reload" :> reload) @@ ("logout" :> logout)

\* Failures and lost answers; a window loaded again at any time.
FewEvents == {Events(1, 1, 0, 0), Events(0, 1, 1, 0), Events(0, 0, 1, 1)}
====
