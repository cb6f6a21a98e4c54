------------------------------ MODULE Booking ------------------------------
(***************************************************************************)
(* What the attendance core promises, without sockets, presence, queues or *)
(* timers: a request goes through a fixed life, an attendance starts at    *)
(* the moment its request is answered or never, a finished one does not    *)
(* come back, and nobody is in two attendances or waits twice.             *)
(*                                                                         *)
(*     unused -> waiting -> closed      rejected, cancelled or expired     *)
(*                       -> attended -> done                               *)
(*                       -> stranded    accepted, but no session started   *)
(***************************************************************************)
CONSTANTS Requests, Unused

VARIABLES
    phase,   \* the phase of every request
    student, \* who asked
    teacher  \* who was asked

bookingVars == <<phase, student, teacher>>

Edges ==
    {<<"unused", "waiting">>, <<"waiting", "closed">>,
     <<"waiting", "attended">>, <<"waiting", "stranded">>,
     <<"attended", "done">>}

\* Nobody attends, or is attended, twice at a time; nobody waits twice.
Exclusive(ph, st, te) ==
    \A p, q \in Requests : p # q =>
        /\ ph[p] = "attended" /\ ph[q] = "attended"
              => te[p] # te[q] /\ st[p] # st[q]
        /\ ph[p] = "waiting" /\ ph[q] = "waiting" => st[p] # st[q]

Init ==
    /\ phase = [r \in Requests |-> "unused"]
    /\ student = [r \in Requests |-> Unused]
    /\ teacher = [r \in Requests |-> Unused]

Next ==
    /\ \A r \in Requests :
          \/ phase'[r] = phase[r]
          \/ <<phase[r], phase'[r]>> \in Edges
    /\ \A r \in Requests : phase[r] # "unused" =>
          student'[r] = student[r] /\ teacher'[r] = teacher[r]
    /\ Exclusive(phase', student', teacher')

Spec == Init /\ [][Next]_bookingVars
=============================================================================
