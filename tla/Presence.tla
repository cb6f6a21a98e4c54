------------------------------ MODULE Presence ------------------------------
(***************************************************************************)
(* Professor and student presence, as the two in-memory managers of the    *)
(* websocket server keep it (presence.manager.ts, student-presence.        *)
(* manager.ts).  The operators of this module, and of the modules that     *)
(* extend it, are methods of those managers: each takes the memory of the  *)
(* server process, w, and returns the memory after the call.  A handler of *)
(* the server is a sequence of such calls run without interruption by the  *)
(* event loop, so Attendance composes them into one step.                  *)
(*                                                                         *)
(* The parts of w this module owns:                                        *)
(*   w.professors[t]    the sockets registered for professor t, in the     *)
(*                      insertion order of professorsBySocketId;           *)
(*   w.availability[s]  the availability stored in the entry of socket s,  *)
(*                      "offline" when s has no entry;                     *)
(*   w.student[x]       the entry of student x (at most one: registering a *)
(*                      second socket of x deletes the first).             *)
(***************************************************************************)
EXTENDS Naturals, Sequences, SequencesExt

CONSTANTS
    Teachers,   \* professor profile ids
    Students,   \* student profile ids
    Sockets,    \* transport connections
    Owner,      \* the authenticated identity of each socket
    None        \* JavaScript's undefined

ASSUME PresenceAssumption ==
    /\ Teachers \cap Students = {}
    /\ Owner \in [Sockets -> Teachers \cup Students]
    /\ None \notin Sockets

Availabilities == {"available", "unavailable", "busy"}

TeacherSockets == {s \in Sockets : Owner[s] \in Teachers}
StudentSockets == {s \in Sockets : Owner[s] \in Students}

AbsentStudent == [socket |-> None, status |-> "offline"]

StudentEntries ==
    [socket : StudentSockets, status : {"online", "reconnecting"}]
        \cup {AbsentStudent}

NoProfessors == [t \in Teachers |-> <<>>]
NoAvailability == [s \in Sockets |-> "offline"]
NoStudents == [x \in Students |-> AbsentStudent]

-----------------------------------------------------------------------------
(* Professors *)

\* findProfessorById returns the first entry of the map with that id: with
\* two sockets of one professor, the older one answers for the professor.
FindProfessor(w, t) ==
    IF w.professors[t] = <<>> THEN None ELSE Head(w.professors[t])

ProfessorOnline(w, t) == FindProfessor(w, t) # None

AvailabilityOf(w, t) ==
    IF ProfessorOnline(w, t) THEN w.availability[FindProfessor(w, t)]
                             ELSE "offline"

IsRegistered(w, s) == w.availability[s] # "offline"

\* Map.delete: the other entries keep their insertion order.
Without(entries, s) ==
    IF \E i \in DOMAIN entries : entries[i] = s
    THEN RemoveAt(entries, CHOOSE i \in DOMAIN entries : entries[i] = s)
    ELSE entries

RemoveProfessor(w, s) ==
    [w EXCEPT !.professors[Owner[s]] = Without(@, s),
              !.availability[s] = "offline"]

\* Mutant of RegisterProfessor: the stale entry of the socket is kept.
RegisterProfessor_KeepsEntry(w, s) ==
    [w EXCEPT !.professors[Owner[s]] = Append(@, s),
              !.availability[s] = "available"]

\* The 'professor:online' listener: the entry of this socket, if any, is
\* removed and a new one is appended, always "available".  Entries of the
\* professor's other sockets stay.
RegisterProfessor(w, s) ==
    [RemoveProfessor(w, s) EXCEPT !.professors[Owner[s]] = Append(@, s),
                                  !.availability[s] = "available"]

SetAvailability(w, s, a) == [w EXCEPT !.availability[s] = a]

\* setAvailabilityByProfessorId: only the first entry, nothing when offline.
SetAvailabilityOf(w, t, a) ==
    IF ProfessorOnline(w, t)
    THEN SetAvailability(w, FindProfessor(w, t), a)
    ELSE w

-----------------------------------------------------------------------------
(* Students *)

\* findStudentById sees only entries whose transport is up.
StudentOnline(w, x) == w.student[x].status = "online"

\* findStudentBySocketId
TracksStudent(w, s) == w.student[Owner[s]].socket = s

RegisterStudent(w, s) ==
    [w EXCEPT !.student[Owner[s]] = [socket |-> s, status |-> "online"]]

RemoveStudent(w, s) ==
    IF TracksStudent(w, s) THEN [w EXCEPT !.student[Owner[s]] = AbsentStudent]
                           ELSE w

\* Mutant of MarkReconnecting: a lost transport leaves the student "online".
MarkReconnecting_Ignored(w, s) == w

MarkReconnecting(w, s) ==
    IF TracksStudent(w, s)
    THEN [w EXCEPT !.student[Owner[s]].status = "reconnecting"]
    ELSE w
=============================================================================
