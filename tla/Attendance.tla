----------------------------- MODULE Attendance -----------------------------
(***************************************************************************)
(* The attendance core of the websocket server: professor presence,        *)
(* student presence, the request queue and the active sessions, composed   *)
(* by their Socket.IO gateways.  One action per client event, transport    *)
(* event and timer.  The event loop runs a handler, the listeners it       *)
(* notifies and the microtasks it queues without interleaving any other    *)
(* client's events, so each is one step; interleaving is the order of the  *)
(* steps.  An exception that reaches the event loop from a timer or a      *)
(* microtask ends the process (no handler for it is installed): the writes *)
(* of that step die in the asynchronous persistence queue, and the next    *)
(* process starts from the database.                                       *)
(***************************************************************************)
EXTENDS Sessions

CONSTANTS
    Steady,         \* sockets that stay up and present: a bound of an instance
    EarlyTimers,    \* whether setTimeout may fire before the wall clock
                    \* reaches the deadline it was computed from
    SameMillisecond \* whether two requests may be created in one millisecond

ASSUME AttendanceAssumption ==
    /\ Steady \subseteq Sockets
    /\ EarlyTimers \in BOOLEAN
    /\ SameMillisecond \in BOOLEAN

VARIABLES
    server,     \* the memory of the managers
    connected,  \* the authenticated sockets
    up          \* whether the process is running

vars == <<server, connected, up>>

Init ==
    /\ server = [professors |-> NoProfessors, availability |-> NoAvailability,
                 student |-> NoStudents, request |-> NoRequests, expiry |-> {},
                 clock |-> 0, session |-> NoSessions, recovery |-> {}]
    /\ connected = {}
    /\ up = TRUE

-----------------------------------------------------------------------------
(* session-request.gateway.ts: calling the next student *)

\* promoteNext calls a student who cannot start a session: startSession throws.
PromotionThrows(w, t) ==
    CanCallNext(w, t) /\ ~MayStart(AcceptNext(w, t), NextReachable(w, t))

\* promoteNext
PromoteNext(w, t) ==
    IF CanCallNext(w, t)
    THEN LET called == AcceptNext(w, t)
             r == NextReachable(w, t)
         IN  IF MayStart(called, r) THEN CreateSession(called, r) ELSE called
    ELSE LET left == IF AvailabilityOf(w, t) \in {"available", "busy"}
                     THEN ExpireQueue(w, t) ELSE w
         IN  IF TeacherEngaged(left, t) THEN left ELSE ReleaseIfQueueEmpty(left, t)

\* promoteQueuedIfIdle
PromoteQueuedIfIdle(w, t) ==
    IF TeacherEngaged(w, t) THEN w
    ELSE IF HeadIsQueued(w, t) THEN PromoteNext(w, t)
    ELSE ReleaseIfQueueEmpty(w, t)

IdlePromotionThrows(w, t) ==
    ~TeacherEngaged(w, t) /\ HeadIsQueued(w, t) /\ PromotionThrows(w, t)

\* synchronizeProfessorQueue, then the promotion of the microtask that follows
\* 'professor:online'.
Synchronize(w, t) ==
    IF Queue(w, t) = {} THEN w ELSE SetAvailabilityOf(w, t, "busy")

ResumeQueue(w, t) ==
    LET synced == Synchronize(w, t)
    IN  IF ~TeacherEngaged(w, t) /\ HeadIsQueued(w, t)
        THEN PromoteNext(synced, t) ELSE synced

ResumeThrows(w, t) == IdlePromotionThrows(Synchronize(w, t), t)

\* Mutant of EndAndPromote: nobody listens for the end of a session.
EndAndPromote_Unheard(w, r) == [FinishSession(w, r) EXCEPT !.recovery = @ \ {r}]

\* finishSession with its listeners: the queue's listener promotes the next
\* student.  When that throws, the caller's finishSessionDelivery is skipped
\* and the session's recovery timer stays armed.
EndAndPromote(w, r) ==
    LET finished == FinishSession(w, r)
        t == TeacherOf(w, r)
        promoted == PromoteNext(finished, t)
    IN  IF PromotionThrows(finished, t)
        THEN promoted
        ELSE [promoted EXCEPT !.recovery = @ \ {r}]

-----------------------------------------------------------------------------
(* Transport *)

\* A client connects; the handshake fixes the identity of the socket.
Connect(s) ==
    /\ up
    /\ s \notin connected
    /\ connected' = connected \cup {s}
    /\ UNCHANGED <<server, up>>

\* The 'disconnect' listeners of a professor's socket, in registration order:
\* presence, then sessions.
TeacherDisconnects(s) ==
    /\ up
    /\ s \in (connected \cap TeacherSockets) \ Steady
    /\ connected' = connected \ {s}
    /\ server' = DropSocket(RemoveProfessor(server, s), s)
    /\ UNCHANGED up

\* The same for a student's socket: leaving the namespace deletes the entry, a
\* lost transport keeps it as "reconnecting".
StudentDisconnects(s) ==
    /\ up
    /\ s \in (connected \cap StudentSockets) \ Steady
    /\ connected' = connected \ {s}
    /\ \/ server' = DropSocket(RemoveStudent(server, s), s)
       \/ server' = DropSocket(MarkReconnecting(server, s), s)
    /\ UNCHANGED up

-----------------------------------------------------------------------------
(* Presence events and timers *)

\* 'professor:online', and the microtask of the session-request gateway.
ProfessorComesOnline(s) ==
    /\ up
    /\ s \in connected \cap TeacherSockets
    /\ LET t == Owner[s]
           w == RegisterProfessor(server, s)
       IN  IF ResumeThrows(w, t)
           THEN up' = FALSE /\ UNCHANGED server
           ELSE server' = ResumeQueue(w, t) /\ UNCHANGED up
    /\ UNCHANGED connected

\* 'professor:availability:set'
ProfessorSetsAvailability(s) ==
    /\ up
    /\ s \in connected \cap TeacherSockets
    /\ IsRegistered(server, s)
    /\ \E a \in {"available", "unavailable"} : server' = SetAvailability(server, s, a)
    /\ UNCHANGED <<connected, up>>

\* removeExpiredProfessors: an entry without heartbeat, its transport still up.
ProfessorHeartbeatExpires(s) ==
    /\ up
    /\ s \in TeacherSockets \ Steady
    /\ IsRegistered(server, s)
    /\ server' = RemoveProfessor(server, s)
    /\ UNCHANGED <<connected, up>>

\* 'student:register'
StudentRegisters(s) ==
    /\ up
    /\ s \in connected \cap StudentSockets
    /\ server' = RegisterStudent(server, s)
    /\ UNCHANGED <<connected, up>>

\* 'student:disconnect', a goodbye over a transport that stays up, and
\* removeExpiredStudents, which also drops students still reconnecting.
StudentEntryRemoved(x) ==
    /\ up
    /\ server.student[x] # AbsentStudent
    /\ server.student[x].socket \notin Steady
    /\ server' = RemoveStudent(server, server.student[x].socket)
    /\ UNCHANGED <<connected, up>>

-----------------------------------------------------------------------------
(* Request events and timers *)

Unused == {r \in Requests : server.request[r].status = "none"}

\* 'request:session'.  Ids matter only between requests of one millisecond;
\* otherwise they are taken in order.
RequestSession(s, t) ==
    /\ up
    /\ s \in connected \cap StudentSockets
    /\ MayRequest(server, s, t)
    /\ \E r \in Unused, tick \in BOOLEAN :
          /\ SameMillisecond \/ (tick /\ \A q \in Unused : r <= q)
          /\ server' = CreateRequest(server, s, t, r, tick)
    /\ UNCHANGED <<connected, up>>

\* 'session:accept': the gateway refuses while the professor is engaged; the
\* request is accepted before the session is created, and stays accepted when
\* createSession throws.
Accept(s, r) ==
    /\ up
    /\ s \in connected \cap TeacherSockets
    /\ ~TeacherEngaged(server, Owner[s])
    /\ MayAnswer(server, s, r, "accepted")
    /\ LET w == CompleteRequest(server, r, "accepted")
       IN  server' = IF MayStart(w, r) THEN CreateSession(w, r) ELSE w
    /\ UNCHANGED <<connected, up>>

\* 'session:reject'
Reject(s, r) ==
    /\ up
    /\ s \in connected \cap TeacherSockets
    /\ MayAnswer(server, s, r, "rejected")
    /\ server' = CompleteRequest(server, r, "rejected")
    /\ UNCHANGED <<connected, up>>

\* 'session:cancel': an exception of the promotion is caught and logged.
Cancel(s, r) ==
    /\ up
    /\ s \in connected \cap StudentSockets
    /\ IsPending(server, r)
    /\ TracksStudent(server, s)
    /\ Owner[s] = StudentOf(server, r)
    /\ server' = PromoteQueuedIfIdle(
                    TransitionWithoutActor(server, r, "cancelled"),
                    TeacherOf(server, r))
    /\ UNCHANGED <<connected, up>>

\* The expiration timer of a direct request.
RequestExpires(r) ==
    /\ up
    /\ r \in server.expiry
    /\ IsPending(server, r)
    /\ LET w == TransitionWithoutActor(server, r, "expired")
           t == TeacherOf(server, r)
       IN  IF IdlePromotionThrows(w, t)
           THEN up' = FALSE /\ UNCHANGED server
           ELSE server' = PromoteQueuedIfIdle(w, t) /\ UNCHANGED up
    /\ UNCHANGED connected

-----------------------------------------------------------------------------
(* Session events and timers *)

\* 'session:end' from a socket of the session, or from any socket of a
\* participant that presents its recovery token.
EndSession(s, r) ==
    /\ up
    /\ s \in connected
    /\ IsActive(server, r)
    /\ \/ HasParticipant(server, r, s)
       \/ Owner[s] \in {TeacherOf(server, r), StudentOf(server, r)}
    /\ server' = EndAndPromote(server, r)
    /\ UNCHANGED <<connected, up>>

\* 'session:recover'
Recover(s, r) ==
    /\ up
    /\ s \in connected
    /\ MayRecover(server, r, s)
    /\ server' = RecoverSession(server, r, s)
    /\ UNCHANGED <<connected, up>>

\* The wall clock advances past a recovery deadline.
Elapse(r) ==
    /\ server.session[r].deadline \in {"ahead", "reached"}
    /\ server' = [server EXCEPT !.session[r].deadline =
                    IF @ = "ahead" THEN "reached" ELSE "passed"]
    /\ UNCHANGED <<connected, up>>

\* The recovery timer of a session that is due.
RecoveryTimerFires(r) ==
    /\ up
    /\ r \in server.recovery
    /\ RecoveryIsOver(server, r)
    /\ IF PromotionThrows(FinishSession(server, r), TeacherOf(server, r))
       THEN up' = FALSE /\ UNCHANGED server
       ELSE server' = EndAndPromote(server, r) /\ UNCHANGED up
    /\ UNCHANGED connected

\* A recovery timer that finds nothing to end: its session is over already, or
\* it fired early.  Nothing arms it again.
RecoveryTimerIdle(r) ==
    /\ up
    /\ r \in server.recovery
    /\ ~RecoveryIsOver(server, r)
    /\ IsActive(server, r) => EarlyTimers
    /\ server' = [server EXCEPT !.recovery = @ \ {r}]
    /\ UNCHANGED <<connected, up>>

-----------------------------------------------------------------------------
\* Mutant of Restarted: recovering sessions start without a timer.
Restarted_NoTimers(w) ==
    [w EXCEPT !.professors = NoProfessors, !.availability = NoAvailability,
              !.student = NoStudents, !.expiry = {},
              !.request = [r \in Requests |-> IF IsPending(w, r)
                             THEN Settled(@[r], "expired") ELSE @[r]],
              !.session = [r \in Requests |-> IF IsActive(w, r)
                             THEN [NoSession EXCEPT !.state = "RECOVERING",
                                                    !.deadline = "ahead"]
                             ELSE w.session[r]],
              !.recovery = {}]

\* Mutant of Restarted: sessions are not read back from the database.
Restarted_ForgetsSessions(w) ==
    [professors |-> NoProfessors, availability |-> NoAvailability,
     student |-> NoStudents, expiry |-> {}, clock |-> w.clock,
     session |-> NoSessions, recovery |-> {},
     request |-> [r \in Requests |-> IF IsPending(w, r)
                    THEN Settled(w.request[r], "expired") ELSE w.request[r]]]

(* server.ts: a new process.  recoverAfterRestart expires every pending    *)
(* request and puts unfinished sessions back into recovery with a new      *)
(* deadline; the managers are rebuilt from what it leaves.                 *)
Restarted(w) ==
    [professors |-> NoProfessors,
     availability |-> NoAvailability,
     student |-> NoStudents,
     request |-> [r \in Requests |-> IF IsPending(w, r)
                    THEN Settled(w.request[r], "expired")
                    ELSE w.request[r]],
     expiry |-> {},
     clock |-> w.clock,
     session |-> [r \in Requests |-> IF IsActive(w, r)
                    THEN [NoSession EXCEPT !.state = "RECOVERING",
                                           !.deadline = "ahead"]
                    ELSE w.session[r]],
     recovery |-> {r \in Requests : IsActive(w, r)}]

\* After a crash, or a shutdown that drained the persistence queue.
Restart ==
    /\ server' = Restarted(server)
    /\ connected' = {}
    /\ up' = TRUE

-----------------------------------------------------------------------------
TransportEvent ==
    \E s \in Sockets : Connect(s) \/ TeacherDisconnects(s) \/ StudentDisconnects(s)

PresenceEvent ==
    \/ \E s \in Sockets :
          \/ ProfessorComesOnline(s)
          \/ ProfessorSetsAvailability(s)
          \/ ProfessorHeartbeatExpires(s)
          \/ StudentRegisters(s)
    \/ \E x \in Students : StudentEntryRemoved(x)

RequestEvent ==
    \/ \E s \in Sockets, t \in Teachers : RequestSession(s, t)
    \/ \E s \in Sockets, r \in Requests : Accept(s, r) \/ Reject(s, r) \/ Cancel(s, r)
    \/ \E r \in Requests : RequestExpires(r)

SessionEvent ==
    \/ \E s \in Sockets, r \in Requests : EndSession(s, r) \/ Recover(s, r)
    \/ \E r \in Requests : Elapse(r) \/ RecoveryTimerFires(r) \/ RecoveryTimerIdle(r)

Next == TransportEvent \/ PresenceEvent \/ RequestEvent \/ SessionEvent \/ Restart

Spec == Init /\ [][Next]_vars
-----------------------------------------------------------------------------
(* Invariants *)

\* Type invariant of the memory of presence.manager.ts, session-request.
\* manager.ts and session.manager.ts; a professor's entries are keyed by socket,
\* so a socket is registered at most once.
TypeOK ==
    /\ up \in BOOLEAN
    /\ connected \subseteq Sockets
    /\ server \in Memory
    /\ \A t \in Teachers : IsInjective(server.professors[t])

\* Every user is in at most one active session, whatever mixture of manual
\* accepts, automatic promotions, recoveries and restarts created them
\* (createSession's checks; the partial unique index on professors).
OneAttendanceEach ==
    \A p, q \in Requests : p # q /\ IsActive(server, p) /\ IsActive(server, q) =>
        /\ TeacherOf(server, p) # TeacherOf(server, q)
        /\ StudentOf(server, p) # StudentOf(server, q)

\* A student has at most one pending request (createRequest's check; the
\* partial unique index on students).
OnePendingPerStudent ==
    \A p, q \in Requests : p # q /\ IsPending(server, p) /\ IsPending(server, q) =>
        StudentOf(server, p) # StudentOf(server, q)

\* No ghost presence: the entry that answers for a professor, and every student
\* shown online, is a live connection of that very user.
PresenceIsLive ==
    /\ \A t \in Teachers : ProfessorOnline(server, t) =>
          /\ FindProfessor(server, t) \in connected
          /\ Owner[FindProfessor(server, t)] = t
    /\ \A x \in Students : StudentOnline(server, x) =>
          /\ server.student[x].socket \in connected
          /\ Owner[server.student[x].socket] = x

\* A session routes signaling only to live connections of its own two
\* participants: a lost socket is never left in a session.
SeatsAreLive ==
    \A r \in Requests : IsActive(server, r) =>
        /\ server.session[r].teacherSocket # None =>
              /\ server.session[r].teacherSocket \in connected
              /\ Owner[server.session[r].teacherSocket] = TeacherOf(server, r)
        /\ server.session[r].studentSocket # None =>
              /\ server.session[r].studentSocket \in connected
              /\ Owner[server.session[r].studentSocket] = StudentOf(server, r)

\* A session that lacks a participant has a deadline and, unless a timer has
\* fired early, a live timer that will end it; one that lacks nobody has
\* neither, so it is not ended under its participants.
RecoveryArmed ==
    \A r \in Requests : IsActive(server, r) =>
        /\ Rejoined(server.session[r]) <=> server.session[r].state = "CONNECTED"
        /\ Rejoined(server.session[r]) <=> server.session[r].deadline = "none"
        /\ Rejoined(server.session[r]) => r \notin server.recovery
        /\ ~Rejoined(server.session[r]) => r \in server.recovery \/ EarlyTimers

\* "busy" always has a reason that will end: a queue, an active session, or
\* the one known leak, a request accepted for a student who could not start a
\* session (Accept and PromoteNext leave the professor busy behind it).
BusyHasReason ==
    \A t \in Teachers : AvailabilityOf(server, t) = "busy" =>
        \/ TeacherEngaged(server, t)
        \/ Queue(server, t) # {}
        \/ \E r \in Requests : /\ TeacherOf(server, r) = t
                              /\ server.request[r].status = "accepted"
                              /\ server.session[r].state = "none"

-----------------------------------------------------------------------------
(* Action properties *)

\* First come, first served: a request is accepted only when every older
\* pending request to the same professor is settled in the same step, without
\* being accepted: withdrawn by its student, expired by its own timer, or passed
\* over because its student was not online (completeRequest, acceptNextRequest).
ServedInOrder ==
    [][\A r, q \in Requests :
        /\ IsPending(server, r) /\ server'.request[r].status = "accepted"
        /\ IsPending(server, q) /\ TeacherOf(server, q) = TeacherOf(server, r)
        /\ Before(server, q, r)
        => /\ server'.request[q].status \in {"cancelled", "expired"}
           /\ server'.request[q].status = "cancelled"
                  \/ q \in server.expiry
                  \/ ~StudentOnline(server, StudentOf(server, q))]_vars

\* The end of an attendance is handed over at once: if the professor is still
\* online, either a student of the queue is now in a new session, or no online
\* student is left waiting, or the one called was in another session.
EndHandsOver ==
    [][\A r \in Requests :
        /\ IsActive(server, r) /\ server'.session[r].state = "FINISHED"
        /\ ProfessorOnline(server', TeacherOf(server, r))
        => LET t == TeacherOf(server, r)
           IN  \/ TeacherEngaged(server', t)
               \/ Reachable(server', t) = {}
               \/ \E q \in Requests :
                     /\ IsPending(server, q) /\ TeacherOf(server, q) = t
                     /\ server'.request[q].status = "accepted"
                     /\ StudentEngaged(server, StudentOf(server, q))]_vars

-----------------------------------------------------------------------------
(* The abstract specification *)

PhaseOf(w, r) ==
    CASE w.request[r].status = "none" -> "unused"
      [] w.request[r].status = "pending" -> "waiting"
      [] IsActive(w, r) -> "attended"
      [] w.session[r].state = "FINISHED" -> "done"
      [] w.request[r].status = "accepted" /\ w.session[r].state = "none" -> "stranded"
      [] OTHER -> "closed"

Abstract == INSTANCE Booking WITH
    Unused <- None,
    phase <- [r \in Requests |-> PhaseOf(server, r)],
    student <- [r \in Requests |-> server.request[r].student],
    teacher <- [r \in Requests |-> server.request[r].teacher]

\* The core implements Booking: requests and sessions only move along its
\* edges, a session starts in the very step that accepts its request, and
\* nobody is ever double-booked.
ImplementsBooking == Abstract!Spec

-----------------------------------------------------------------------------
(* Liveness.  Timers fire and clocks advance; clients owe nothing. *)

Fairness ==
    /\ \A r \in Requests :
          /\ WF_vars(Elapse(r))
          /\ WF_vars(RecoveryTimerFires(r))
          /\ WF_vars(RequestExpires(r))
    /\ WF_vars(~up /\ Restart)

FairSpec == Spec /\ Fairness

\* A connection is lost, or the process ends.
Disruption ==
    \/ \E s \in Sockets : TeacherDisconnects(s) \/ StudentDisconnects(s)
    \/ Restart

\* Unless connections are lost for ever, a session that lacks a participant is
\* rejoined by both or ended: it does not keep its professor for ever.
InterruptedResolves ==
    \A r \in Requests :
        \/ []<><<Disruption>>_vars
        \/ (IsActive(server, r) /\ ~Rejoined(server.session[r]))
              ~> (~IsActive(server, r) \/ Rejoined(server.session[r]))

\* A direct request is answered, withdrawn or expired.
DirectRequestResolves ==
    \A r \in Requests :
        (IsPending(server, r) /\ ~server.request[r].queued) ~> ~IsPending(server, r)

=============================================================================
