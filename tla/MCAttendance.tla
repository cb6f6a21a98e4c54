---------------------------- MODULE MCAttendance ----------------------------
(***************************************************************************)
(* Instances of Attendance for TLC.  The user ids and the sockets are      *)
(* model values, chosen by each .cfg; OwnerOf is the function a .cfg       *)
(* cannot write.                                                           *)
(***************************************************************************)
EXTENDS Attendance

CONSTANTS
    carlos, dora,   \* professors
    ana, bia,       \* students
    c1, c2, d1,     \* sockets of the professors
    a1, a2, b1      \* sockets of the students

OwnerOf ==
    [s \in Sockets |->
        CASE s \in {c1, c2} -> carlos
          [] s = d1 -> dora
          [] s \in {a1, a2} -> ana
          [] s = b1 -> bia]

\* Swaps two users together with their sockets.  Only safety is checked with
\* it: symmetry is unsound for liveness.
Swap(x, y, s, z) == (x :> y @@ y :> x @@ s :> z @@ z :> s)

TwoStudentsSymmetry == {Swap(ana, bia, a1, b1), Swap(ana, ana, a1, a1)}

\* Everyone is connected and present, nobody has asked for anything.
CrowdedInit ==
    /\ server = [professors |-> [t \in Teachers |->
                                    SelectSeq(<<c1, d1>>, LAMBDA s : Owner[s] = t)],
                 availability |-> [s \in Sockets |->
                     IF s \in TeacherSockets THEN "available" ELSE "offline"],
                 student |-> [x \in Students |->
                     [socket |-> CHOOSE s \in StudentSockets : Owner[s] = x,
                      status |-> "online"]],
                 request |-> NoRequests, expiry |-> {}, clock |-> 0,
                 session |-> NoSessions, recovery |-> {}]
    /\ connected = Sockets
    /\ up = TRUE

CrowdedSpec == CrowdedInit /\ [][Next]_vars

\* Behaviours are followed up to the first restart, the only event that
\* disconnects a steady socket.
UntilRestart == Steady \subseteq connected
=============================================================================
