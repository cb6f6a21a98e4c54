------------------------------ MODULE Sessions ------------------------------
(***************************************************************************)
(* Attendance sessions and their recovery: SessionManager (session.        *)
(* manager.ts) and the timers of RecoveryCoordinator (recovery-            *)
(* coordinator.ts).  A session is created for one accepted request and     *)
(* createSession refuses a second one, so the id of the request stands for *)
(* the id of the session.  Adds to the server's memory                     *)
(*   w.session[r]  the session of request r;                               *)
(*   w.recovery    the sessions with a live recovery timer.                *)
(* Recovery deadlines are compared only with the clock: a deadline is      *)
(* "ahead", "reached" (equal to the clock) or "passed".  Recovery tokens   *)
(* are not modelled: a participant presents its current token.             *)
(***************************************************************************)
EXTENDS Requests

NoSession ==
    [state |-> "none", teacherSocket |-> None, studentSocket |-> None,
     deadline |-> "none"]

ActiveStates == {"CONNECTED", "RECONNECTING", "RECOVERING"}

SessionRecords ==
    [state : ActiveStates \cup {"none", "FINISHED"},
     teacherSocket : TeacherSockets \cup {None},
     studentSocket : StudentSockets \cup {None},
     deadline : {"none", "ahead", "reached", "passed"}]

NoSessions == [r \in Requests |-> NoSession]

\* The memory of the server process.
Memory ==
    [professors : [Teachers -> Seq(TeacherSockets)],
     availability : [Sockets -> Availabilities \cup {"offline"}],
     student : [Students -> StudentEntries],
     request : [Requests -> RequestRecords],
     expiry : SUBSET Requests,
     clock : Nat,
     session : [Requests -> SessionRecords],
     recovery : SUBSET Requests]

IsActive(w, r) == w.session[r].state \in ActiveStates

TeacherOf(w, r) == w.request[r].teacher
StudentOf(w, r) == w.request[r].student

\* hasActiveSessionForProfessor
TeacherEngaged(w, t) == \E r \in Requests : IsActive(w, r) /\ TeacherOf(w, r) = t
StudentEngaged(w, x) == \E r \in Requests : IsActive(w, r) /\ StudentOf(w, r) = x

-----------------------------------------------------------------------------
\* Mutant of MayStart: the student's other sessions are not looked at.
MayStart_StudentUnchecked(w, r) ==
    /\ w.session[r].state = "none"
    /\ ~TeacherEngaged(w, TeacherOf(w, r))
    /\ ProfessorOnline(w, TeacherOf(w, r))
    /\ StudentOnline(w, StudentOf(w, r))

\* The errors createSession raises, negated.
MayStart(w, r) ==
    /\ w.request[r].status = "accepted"
    /\ w.session[r].state = "none"
    /\ ~TeacherEngaged(w, TeacherOf(w, r))
    /\ ~StudentEngaged(w, StudentOf(w, r))
    /\ ProfessorOnline(w, TeacherOf(w, r))
    /\ StudentOnline(w, StudentOf(w, r))

\* createSession
CreateSession(w, r) ==
    SetAvailabilityOf(
        [w EXCEPT !.session[r] =
            [state |-> "CONNECTED",
             teacherSocket |-> FindProfessor(w, TeacherOf(w, r)),
             studentSocket |-> w.student[StudentOf(w, r)].socket,
             deadline |-> "none"]],
        TeacherOf(w, r), "busy")

\* finishSession up to its listeners: whatever availability the professor chose
\* during the session, it becomes "available".
FinishSession(w, r) ==
    SetAvailabilityOf(
        [w EXCEPT !.session[r] = [NoSession EXCEPT !.state = "FINISHED"]],
        TeacherOf(w, r), "available")

HasParticipant(w, r, s) ==
    s \in {w.session[r].teacherSocket, w.session[r].studentSocket}

\* Mutant of DropSocket: only the professor's connection is watched.
DropSocket_TeacherOnly(w, s) ==
    LET hit == {r \in Requests : IsActive(w, r) /\ w.session[r].teacherSocket = s}
    IN  [w EXCEPT
            !.session = [r \in Requests |-> IF r \in hit
                THEN [@[r] EXCEPT !.state = "RECONNECTING", !.deadline = "ahead",
                                  !.teacherSocket = None]
                ELSE @[r]],
            !.recovery = @ \cup hit]

\* What the loss of socket s makes of a session.
Interrupted(session, s) ==
    LET Vacated(socket) == IF socket = s THEN None ELSE socket
    IN  [state |-> "RECONNECTING", deadline |-> "ahead",
         teacherSocket |-> Vacated(session.teacherSocket),
         studentSocket |-> Vacated(session.studentSocket)]

\* markParticipantDisconnected for every active session of the socket, and the
\* timer the gateway then schedules.
DropSocket(w, s) ==
    LET hit == {r \in Requests : IsActive(w, r) /\ HasParticipant(w, r, s)}
    IN  [w EXCEPT
            !.session = [r \in Requests |-> IF r \in hit
                THEN Interrupted(w.session[r], s) ELSE w.session[r]],
            !.recovery = @ \cup hit]

\* recoverSession's errors, negated: an active session of which the socket's
\* identity is a participant, its deadline not yet passed.
MayRecover(w, r, s) ==
    /\ IsActive(w, r)
    /\ Owner[s] \in {TeacherOf(w, r), StudentOf(w, r)}
    /\ w.session[r].deadline # "passed"

\* fullyRecovered
Rejoined(session) == session.teacherSocket # None /\ session.studentSocket # None

\* Mutant of RecoverSession: the first participant back clears the timer.
RecoverSession_ClearsTimer(w, r, s) ==
    LET seated == IF Owner[s] \in Teachers
                  THEN [w.session[r] EXCEPT !.teacherSocket = s]
                  ELSE [w.session[r] EXCEPT !.studentSocket = s]
    IN  SetAvailabilityOf(
            [w EXCEPT !.session[r] =
                        IF Rejoined(seated)
                        THEN [seated EXCEPT !.state = "CONNECTED", !.deadline = "none"]
                        ELSE [seated EXCEPT !.state = "RECOVERING"],
                      !.recovery = @ \ {r}],
            TeacherOf(w, r), "busy")

\* recoverSession, and the gateway's clear or reschedule of the timer.
RecoverSession(w, r, s) ==
    LET seated == IF Owner[s] \in Teachers
                  THEN [w.session[r] EXCEPT !.teacherSocket = s]
                  ELSE [w.session[r] EXCEPT !.studentSocket = s]
        recovered == IF Rejoined(seated)
                     THEN [seated EXCEPT !.state = "CONNECTED", !.deadline = "none"]
                     ELSE [seated EXCEPT !.state = "RECOVERING"]
    IN  SetAvailabilityOf(
            [w EXCEPT !.session[r] = recovered,
                      !.recovery = IF recovered.deadline = "none"
                                   THEN @ \ {r} ELSE @ \cup {r}],
            TeacherOf(w, r), "busy")

\* expireRecovery ends the session only at or after its deadline.
RecoveryIsOver(w, r) ==
    IsActive(w, r) /\ w.session[r].deadline \in {"reached", "passed"}
=============================================================================
