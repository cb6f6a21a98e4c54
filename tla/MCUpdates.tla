---- MODULE MCUpdates ----
(***************************************************************************)
(* Instances of Updates for TLC.                                           *)
(***************************************************************************)
EXTENDS Updates, TLC

CONSTANTS v1, v2, v3

\* Versions are only compared with one another.
Renamings == Permutations({v1, v2, v3})

Events(publish, check, fault, attendance, save) ==
    ("publish" :> publish) @@ ("check" :> check) @@ ("fault" :> fault)
        @@ ("attendance" :> attendance) @@ ("save" :> save)

\* Two updates one after the other, or one that is taken back, and a third change of
\* the feed; and one update with attendances, failures and new settings.
AnyHistory == {Events(3, 3, 0, 0, 0), Events(1, 3, 1, 1, 1), Events(1, 2, 0, 2, 1)}

\* One update and one attendance.
OneAttendance == {Events(1, 1, 0, 1, 0)}
====
