----------------------------- MODULE SeatsProofs -----------------------------
(***************************************************************************)
(* Presence and sessions refer to live connections only, interrupted       *)
(* sessions have a timer, and a busy professor has a reason to be.         *)
(*                                                                         *)
(* The calls of the queue are quiet: they change requests, timers of       *)
(* requests and availabilities, and neither presence nor sessions.         *)
(***************************************************************************)
EXTENDS AttendanceProofs

Quiet(w, v) ==
    /\ Calm(w, v)
    /\ v.professors = w.professors /\ v.student = w.student
    /\ v.session = w.session /\ v.recovery = w.recovery

\* Quiet changes compose, and no change is quiet.
LEMMA QuietTransitive ==
    ASSUME NEW w, NEW v, NEW u, Quiet(w, v), Quiet(v, u)
    PROVE  Quiet(w, u)
BY CalmTransitive DEF Quiet

\* A step that changes nothing is quiet.
LEMMA QuietReflexive ==
    ASSUME NEW w \in Memory
    PROVE  Quiet(w, w)
BY CalmReflexive DEF Quiet

\* setAvailability and setAvailabilityByProfessorId
LEMMA SetAvailabilityIsQuiet ==
    ASSUME NEW w \in Memory, NEW s, NEW t, NEW a \in Availabilities
    PROVE  /\ Quiet(w, SetAvailability(w, s, a))
           /\ Quiet(w, SetAvailabilityOf(w, t, a))
<1>1. \A z : LET v == SetAvailability(w, z, a)
             IN  /\ v.professors = w.professors /\ v.student = w.student
                 /\ v.session = w.session /\ v.recovery = w.recovery
  BY DEF SetAvailability, Memory
<1>2. \A z : Quiet(w, SetAvailability(w, z, a))
  BY <1>1, SetAvailabilityIsCalm DEF Quiet
<1> QED BY <1>2, QuietReflexive DEF SetAvailabilityOf

\* releaseProfessorIfQueueEmpty
LEMMA ReleaseIsQuiet ==
    ASSUME NEW w \in Memory, NEW t
    PROVE  Quiet(w, ReleaseIfQueueEmpty(w, t))
BY SetAvailabilityIsQuiet, QuietReflexive DEF ReleaseIfQueueEmpty, Availabilities

\* clearPendingRequest and the history entry
LEMMA SettleRequestIsQuiet ==
    ASSUME NEW w \in Memory, NEW r \in Requests, IsPending(w, r),
           NEW status \in Statuses \ {"none", "pending"}
    PROVE  Quiet(w, SettleRequest(w, r, status))
<1>1. LET v == SettleRequest(w, r, status)
      IN  /\ v.professors = w.professors /\ v.student = w.student
          /\ v.session = w.session /\ v.recovery = w.recovery
  BY DEF SettleRequest, Memory
<1> QED BY <1>1, SettleRequestIsCalm DEF Quiet

\* The same, and the release of the professor.
LEMMA SettleAndReleaseIsQuiet ==
    ASSUME NEW w \in Memory, NEW r \in Requests, IsPending(w, r),
           NEW status \in Statuses \ {"none", "pending"}, NEW t
    PROVE  Quiet(w, ReleaseIfQueueEmpty(SettleRequest(w, r, status), t))
<1> DEFINE v == SettleRequest(w, r, status)
<1>1. Quiet(w, v)
  BY SettleRequestIsQuiet
<1> HIDE DEF v
<1>2. Quiet(v, ReleaseIfQueueEmpty(v, t))
  BY <1>1, ReleaseIsQuiet DEF Quiet, Calm
<1> QED BY <1>1, <1>2, QuietTransitive DEF v

\* completeRequest and transitionWithoutActor
LEMMA AnswerIsQuiet ==
    ASSUME NEW w \in Memory, NEW r \in Requests, IsPending(w, r)
    PROVE  /\ \A status \in {"accepted", "rejected"} : Quiet(w, CompleteRequest(w, r, status))
           /\ \A status \in {"cancelled", "expired"} :
                 Quiet(w, TransitionWithoutActor(w, r, status))
<1>1. {"accepted", "rejected", "cancelled", "expired"} \subseteq Statuses \ {"none", "pending"}
  BY DEF Statuses
<1>2. \A status \in {"accepted", "rejected"} : Quiet(w, CompleteRequest(w, r, status))
  BY <1>1, SettleRequestIsQuiet, SettleAndReleaseIsQuiet DEF CompleteRequest
<1>3. \A status \in {"cancelled", "expired"} : Quiet(w, TransitionWithoutActor(w, r, status))
  BY <1>1, SettleRequestIsQuiet, SettleAndReleaseIsQuiet DEF TransitionWithoutActor
<1> QED BY <1>2, <1>3

\* The loop of acceptNextRequest up to the student it calls.
LEMMA ExpireSkippedIsQuiet ==
    ASSUME NEW w \in Memory, NEW t
    PROVE  Quiet(w, ExpireSkipped(w, t))
<1>1. LET v == ExpireSkipped(w, t)
      IN  /\ v.professors = w.professors /\ v.student = w.student
          /\ v.session = w.session /\ v.recovery = w.recovery
  BY DEF ExpireSkipped, Memory
<1> QED BY <1>1, ExpireSkippedIsCalm DEF Quiet

\* acceptNextRequest
LEMMA AcceptNextIsQuiet ==
    ASSUME NEW w \in Memory, NEW t, CanCallNext(w, t)
    PROVE  Quiet(w, AcceptNext(w, t))
<1> DEFINE left == ExpireSkipped(w, t)
           next == NextReachable(w, t)
<1>1. next \in Requests \ Skipped(w, t) /\ IsPending(w, next)
  BY NextReachableLemma
<1>2. Quiet(w, left) /\ \A r \in Requests \ Skipped(w, t) :
                           left.request[r] = w.request[r]
  BY ExpireSkippedIsQuiet, ExpireSkippedIsCalm
<1> HIDE DEF left, next
<1>3. left \in Memory /\ IsPending(left, next)
  BY <1>1, <1>2 DEF Quiet, Calm, IsPending
<1>4. Quiet(left, CompleteRequest(left, next, "accepted"))
  BY <1>1, <1>3, AnswerIsQuiet
<1> QED BY <1>2, <1>4, QuietTransitive DEF AcceptNext, left, next

\* acceptNextRequest when no student of the queue is online.
LEMMA ExpireQueueIsQuiet ==
    ASSUME NEW w \in Memory, NEW t
    PROVE  Quiet(w, ExpireQueue(w, t))
<1> DEFINE left == ExpireSkipped(w, t)
<1>1. Quiet(w, left)
  BY ExpireSkippedIsQuiet
<1> HIDE DEF left
<1>2. Quiet(left, SetAvailabilityOf(left, t, "available"))
  BY <1>1, SetAvailabilityIsQuiet DEF Quiet, Calm, Availabilities
<1>3. Quiet(w, SetAvailabilityOf(left, t, "available"))
  BY <1>1, <1>2, QuietTransitive
<1> QED BY <1>1, <1>3 DEF ExpireQueue, left

-----------------------------------------------------------------------------
(* The inductive invariant, on a memory and the open connections *)

\* Every entry, not only the one that answers, is a connection of its user.
EntriesAreLive(w, open) ==
    /\ \A t \in Teachers : \A i \in DOMAIN w.professors[t] :
          /\ w.professors[t][i] \in open
          /\ Owner[w.professors[t][i]] = t
    /\ \A x \in Students : w.student[x] # AbsentStudent =>
          /\ Owner[w.student[x].socket] = x
          /\ StudentOnline(w, x) => w.student[x].socket \in open

SeatsLive(w, open) ==
    \A r \in Requests : IsActive(w, r) =>
        /\ w.session[r].teacherSocket # None =>
              /\ w.session[r].teacherSocket \in open
              /\ Owner[w.session[r].teacherSocket] = TeacherOf(w, r)
        /\ w.session[r].studentSocket # None =>
              /\ w.session[r].studentSocket \in open
              /\ Owner[w.session[r].studentSocket] = StudentOf(w, r)

\* A timer that outlives its session belongs to a finished one, so it cannot
\* end a later session.
Armed(w) ==
    \A r \in Requests :
        /\ r \in w.recovery => w.session[r].state # "none"
        /\ IsActive(w, r) =>
              /\ Rejoined(w.session[r]) <=> w.session[r].state = "CONNECTED"
              /\ Rejoined(w.session[r]) <=> w.session[r].deadline = "none"
              /\ Rejoined(w.session[r]) => r \notin w.recovery
              /\ ~Rejoined(w.session[r]) => r \in w.recovery \/ EarlyTimers

Live(w, open) == EntriesAreLive(w, open) /\ SeatsLive(w, open) /\ Armed(w)

\* A quiet call keeps it.
LEMMA QuietKeepsLive ==
    ASSUME NEW w, NEW v, NEW open, Quiet(w, v), Live(w, open)
    PROVE  Live(v, open)
<1>1. \A r \in Requests : IsActive(v, r) <=> IsActive(w, r)
  BY DEF Quiet, IsActive
<1>2. EntriesAreLive(v, open)
  BY DEF Quiet, Live, EntriesAreLive, StudentOnline
<1>3. SeatsLive(v, open)
  BY <1>1 DEF Quiet, Calm, Live, SeatsLive
<1>4. Armed(v)
  BY <1>1 DEF Quiet, Live, Armed
<1> QED BY <1>2, <1>3, <1>4 DEF Live

\* Of a session that is over nothing is said.
LEMMA EndedKeepsLive ==
    ASSUME NEW w \in Memory, NEW v, NEW open, Live(w, open), NEW r \in Requests,
           v.request = w.request, v.professors = w.professors, v.student = w.student,
           \A q \in Requests \ {r} : v.session[q] = w.session[q],
           v.session[r].state = "FINISHED", v.recovery \subseteq w.recovery,
           \A q \in Requests \ {r} : q \in v.recovery <=> q \in w.recovery
    PROVE  Live(v, open)
<1>1. ~IsActive(v, r) /\ \A q \in Requests \ {r} : IsActive(v, q) <=> IsActive(w, q)
  BY DEF IsActive, ActiveStates
<1>2. EntriesAreLive(v, open)
  BY DEF Live, EntriesAreLive, StudentOnline
<1>3. SeatsLive(v, open)
  BY <1>1 DEF Live, SeatsLive, TeacherOf, StudentOf
<1>4. Armed(v)
  BY <1>1 DEF Live, Armed
<1> QED BY <1>2, <1>3, <1>4 DEF Live

\* finishSession
LEMMA FinishSessionKeepsLive ==
    ASSUME NEW w \in Memory, NEW open, Live(w, open), NEW r \in Requests, IsActive(w, r)
    PROVE  Live(FinishSession(w, r), open)
<1> DEFINE over == [w EXCEPT !.session[r] = [NoSession EXCEPT !.state = "FINISHED"]]
<1>1. /\ over.request = w.request /\ over.professors = w.professors
      /\ over.student = w.student /\ over.recovery = w.recovery /\ over \in Memory
      /\ \A q \in Requests \ {r} : over.session[q] = w.session[q]
      /\ over.session[r].state = "FINISHED"
  BY DEF Memory, NoSession, SessionRecords
<1> HIDE DEF over
<1>2. Live(over, open)
  BY <1>1, EndedKeepsLive
<1>3. Quiet(over, SetAvailabilityOf(over, TeacherOf(w, r), "available"))
  BY <1>1, SetAvailabilityIsQuiet DEF Availabilities
<1> QED BY <1>2, <1>3, QuietKeepsLive DEF FinishSession, over

\* createSession seats two live connections.
LEMMA CreateSessionKeepsLive ==
    ASSUME NEW w, Sound(w), NEW open, Live(w, open), NEW r \in Requests, MayStart(w, r)
    PROVE  Live(CreateSession(w, r), open)
<1> DEFINE t == TeacherOf(w, r)
           x == StudentOf(w, r)
           session == [state |-> "CONNECTED", teacherSocket |-> FindProfessor(w, t),
                       studentSocket |-> w.student[x].socket, deadline |-> "none"]
           v == [w EXCEPT !.session[r] = session]
<1>1. w \in Memory /\ w.request[r].status = "accepted" /\ w.session[r].state = "none"
  BY DEF Sound, MayStart
<1>2. t \in Teachers /\ x \in Students
  BY <1>1 DEF Memory, RequestRecords, NoRequest, TeacherOf, StudentOf
<1>3. /\ FindProfessor(w, t) \in TeacherSockets /\ FindProfessor(w, t) # None
      /\ FindProfessor(w, t) \in open /\ Owner[FindProfessor(w, t)] = t
  <2>1. FindProfessor(w, t) \in TeacherSockets /\ FindProfessor(w, t) # None
    BY <1>1, <1>2, FindProfessorLemma DEF MayStart, ProfessorOnline
  <2>2. FindProfessor(w, t) = w.professors[t][1] /\ 1 \in DOMAIN w.professors[t]
    <3>1. w.professors[t] \in Seq(TeacherSockets) /\ w.professors[t] # <<>>
      BY <1>1, <1>2, <2>1 DEF Memory, FindProfessor
    <3> QED BY <3>1 DEF FindProfessor
  <2> QED BY <1>2, <2>1, <2>2 DEF Live, EntriesAreLive
<1>4. /\ w.student[x].socket # None /\ w.student[x].socket \in StudentSockets
      /\ w.student[x].socket \in open /\ Owner[w.student[x].socket] = x
  <2>1. w.student[x].status = "online" /\ w.student[x] \in StudentEntries
    BY <1>1, <1>2 DEF MayStart, StudentOnline, Memory
  <2>2. w.student[x] # AbsentStudent /\ w.student[x].socket \in StudentSockets
    BY <2>1 DEF StudentEntries, AbsentStudent
  <2> QED BY <1>2, <2>1, <2>2, OwnerType, PresenceAssumption
          DEF Live, EntriesAreLive, StudentOnline
<1>5. Rejoined(session) /\ session.state = "CONNECTED" /\ session.deadline = "none"
  BY <1>3, <1>4 DEF Rejoined
<1>6. session \in SessionRecords
  BY <1>3, <1>4 DEF SessionRecords, ActiveStates
<1>7. /\ v \in Memory /\ v.request = w.request /\ v.professors = w.professors
      /\ v.student = w.student /\ v.recovery = w.recovery
      /\ \A q \in Requests : v.session[q] = IF q = r THEN session ELSE w.session[q]
  BY <1>1, <1>6 DEF Memory
<1>8. session.teacherSocket = FindProfessor(w, t) /\ session.studentSocket = w.student[x].socket
  OBVIOUS
<1>9. CreateSession(w, r) = SetAvailabilityOf(v, t, "busy")
  BY DEF CreateSession
<1> HIDE DEF session, v
<1>10. \A q \in Requests \ {r} : IsActive(v, q) <=> IsActive(w, q)
  BY <1>7 DEF IsActive
<1>11. EntriesAreLive(v, open)
  BY <1>7 DEF Live, EntriesAreLive, StudentOnline
<1>12. SeatsLive(v, open)
  BY <1>3, <1>4, <1>7, <1>8, <1>10 DEF Live, SeatsLive, TeacherOf, StudentOf
<1>13. Armed(v)
  <2>1. r \notin w.recovery
    BY <1>1 DEF Live, Armed
  <2> QED BY <1>5, <1>7, <1>10, <2>1 DEF Live, Armed
<1>14. Live(v, open)
  BY <1>11, <1>12, <1>13 DEF Live
<1>15. Quiet(v, SetAvailabilityOf(v, t, "busy"))
  BY <1>7, SetAvailabilityIsQuiet DEF Availabilities
<1> QED BY <1>9, <1>14, <1>15, QuietKeepsLive

-----------------------------------------------------------------------------
(* Handlers that call the next student *)

\* promoteNext starts a session for a request that has none, and leaves the
\* other sessions and every timer alone.
LEMMA PromoteNextKeepsSessions ==
    ASSUME NEW w, Sound(w), NEW t, NEW q \in Requests, w.session[q].state # "none"
    PROVE  PromoteNext(w, t).session[q] = w.session[q]
<1>1. w \in Memory
  BY DEF Sound
<1>2. CASE CanCallNext(w, t)
  <2> DEFINE called == AcceptNext(w, t)
             r == NextReachable(w, t)
             opened == [called EXCEPT !.session[r] =
                 [state |-> "CONNECTED",
                  teacherSocket |-> FindProfessor(called, TeacherOf(called, r)),
                  studentSocket |-> called.student[StudentOf(called, r)].socket,
                  deadline |-> "none"]]
  <2>1. Quiet(w, called) /\ called \in Memory /\ called.session = w.session
    BY <1>1, <1>2, AcceptNextIsQuiet DEF Quiet, Calm
  <2> HIDE DEF called
  <2>2. MayStart(called, r) => r # q
    BY <2>1 DEF MayStart
  <2>3. r # q => opened.session[q] = w.session[q]
    BY <2>1 DEF Memory
  <2>4. CreateSession(called, r) = SetAvailabilityOf(opened, TeacherOf(called, r), "busy")
    BY DEF CreateSession
  <2>5. DOMAIN opened = DOMAIN called
    OBVIOUS
  <2> HIDE DEF opened, r
  <2>6. \A z, a : SetAvailabilityOf(opened, z, a).session = opened.session
    BY <2>1, <2>5 DEF SetAvailabilityOf, SetAvailability, Memory
  <2>7. PromoteNext(w, t) = IF MayStart(called, r) THEN CreateSession(called, r) ELSE called
    BY <1>2 DEF PromoteNext, called, r
  <2> QED BY <2>1, <2>2, <2>3, <2>4, <2>6, <2>7
<1>3. CASE ~CanCallNext(w, t)
  <2> DEFINE left == IF AvailabilityOf(w, t) \in {"available", "busy"}
                     THEN ExpireQueue(w, t) ELSE w
  <2>1. Quiet(w, left)
    BY <1>1, ExpireQueueIsQuiet, QuietReflexive
  <2>2. PromoteNext(w, t) \in {left, ReleaseIfQueueEmpty(left, t)}
    BY <1>3 DEF PromoteNext
  <2> HIDE DEF left
  <2>3. Quiet(left, ReleaseIfQueueEmpty(left, t))
    BY <2>1, ReleaseIsQuiet DEF Quiet, Calm
  <2> QED BY <2>1, <2>2, <2>3 DEF Quiet
<1> QED BY <1>2, <1>3

\* promoteNext
LEMMA PromoteNextKeepsLive ==
    ASSUME NEW w, Sound(w), NEW open, Live(w, open), NEW t
    PROVE  Live(PromoteNext(w, t), open)
<1>1. w \in Memory
  BY DEF Sound
<1>2. CASE CanCallNext(w, t)
  <2> DEFINE called == AcceptNext(w, t)
             r == NextReachable(w, t)
  <2>1. r \in Requests /\ Quiet(w, called)
    BY <1>1, <1>2, NextReachableLemma, AcceptNextIsQuiet
  <2>2. Sound(called) /\ Live(called, open)
    BY <2>1, CalmKeepsSound, QuietKeepsLive DEF Quiet
  <2>3. MayStart(called, r) => Live(CreateSession(called, r), open)
    BY <2>1, <2>2, CreateSessionKeepsLive
  <2> QED BY <1>2, <2>2, <2>3 DEF PromoteNext
<1>3. CASE ~CanCallNext(w, t)
  <2> DEFINE left == IF AvailabilityOf(w, t) \in {"available", "busy"}
                     THEN ExpireQueue(w, t) ELSE w
  <2>1. Quiet(w, left)
    BY <1>1, ExpireQueueIsQuiet, QuietReflexive
  <2>2. PromoteNext(w, t) \in {left, ReleaseIfQueueEmpty(left, t)}
    BY <1>3 DEF PromoteNext
  <2> HIDE DEF left
  <2>3. Quiet(left, ReleaseIfQueueEmpty(left, t))
    BY <2>1, ReleaseIsQuiet DEF Quiet, Calm
  <2>4. Quiet(w, PromoteNext(w, t))
    BY <2>1, <2>2, <2>3, QuietTransitive
  <2> QED BY <2>4, QuietKeepsLive
<1> QED BY <1>2, <1>3

\* promoteQueuedIfIdle
LEMMA PromoteQueuedIfIdleKeepsLive ==
    ASSUME NEW w, Sound(w), NEW open, Live(w, open), NEW t
    PROVE  Live(PromoteQueuedIfIdle(w, t), open)
<1>1. Quiet(w, ReleaseIfQueueEmpty(w, t))
  BY ReleaseIsQuiet DEF Sound
<1> QED BY <1>1, QuietKeepsLive, PromoteNextKeepsLive DEF PromoteQueuedIfIdle

\* The queue's reaction to 'professor:online'.
LEMMA ResumeQueueKeepsLive ==
    ASSUME NEW w, Sound(w), NEW open, Live(w, open), NEW t
    PROVE  Live(ResumeQueue(w, t), open)
<1>1. Quiet(w, Synchronize(w, t))
  BY SetAvailabilityIsQuiet, QuietReflexive DEF Synchronize, Sound, Availabilities
<1>2. Sound(Synchronize(w, t)) /\ Live(Synchronize(w, t), open)
  BY <1>1, CalmKeepsSound, QuietKeepsLive DEF Quiet
<1> QED BY <1>2, PromoteNextKeepsLive DEF ResumeQueue

\* The end of a session, with the promotion that its listeners make.
LEMMA EndAndPromoteKeepsLive ==
    ASSUME NEW w, Sound(w), NEW open, Live(w, open), NEW r \in Requests, IsActive(w, r)
    PROVE  Live(EndAndPromote(w, r), open)
<1> DEFINE finished == FinishSession(w, r)
           promoted == PromoteNext(finished, TeacherOf(w, r))
           disarmed == [promoted EXCEPT !.recovery = @ \ {r}]
<1>1. Sound(finished) /\ Live(finished, open)
  BY FinishSessionIsCalm, CalmKeepsSound, FinishSessionKeepsLive DEF Sound
<1>2. finished.session[r].state = "FINISHED"
  <2> DEFINE over == [w EXCEPT !.session[r] = [NoSession EXCEPT !.state = "FINISHED"]]
  <2>1. over \in Memory /\ over.session[r].state = "FINISHED"
    BY DEF Sound, Memory, NoSession, SessionRecords
  <2> HIDE DEF over
  <2>2. \A t, a : SetAvailabilityOf(over, t, a).session = over.session
    BY <2>1, SetAvailabilityOfKeeps
  <2> QED BY <2>1, <2>2 DEF FinishSession, over
<1>3. EndAndPromote(w, r) \in {promoted, disarmed}
  BY DEF EndAndPromote
<1> HIDE DEF finished
<1>4. Sound(promoted) /\ Live(promoted, open) /\ promoted.session[r].state = "FINISHED"
  BY <1>1, <1>2, PromoteNextIsSound, PromoteNextKeepsLive, PromoteNextKeepsSessions
<1> HIDE DEF promoted
<1>5. /\ disarmed.request = promoted.request /\ disarmed.professors = promoted.professors
      /\ disarmed.student = promoted.student /\ disarmed.session = promoted.session
      /\ disarmed.recovery = promoted.recovery \ {r} /\ promoted \in Memory
  BY <1>4 DEF Sound, Memory
<1> HIDE DEF disarmed
<1>6. Live(disarmed, open)
  BY <1>4, <1>5, EndedKeepsLive
<1> QED BY <1>3, <1>4, <1>6

-----------------------------------------------------------------------------
(* Presence *)

\* Only entries changed, and each is a live connection of its user.
LEMMA EntriesChangeKeepsLive ==
    ASSUME NEW w, NEW v, NEW open, Live(w, open), EntriesAreLive(v, open),
           v.request = w.request, v.session = w.session, v.recovery = w.recovery
    PROVE  Live(v, open)
<1>1. SeatsLive(v, open)
  BY DEF Live, SeatsLive, IsActive, TeacherOf, StudentOf
<1>2. Armed(v)
  BY DEF Live, Armed, IsActive
<1> QED BY <1>1, <1>2 DEF Live

\* removeProfessor leaves no entry of the socket.
LEMMA RemoveProfessorLeaves ==
    ASSUME NEW w, Sound(w), NEW open, EntriesAreLive(w, open), NEW s \in TeacherSockets
    PROVE  LET v == RemoveProfessor(w, s)
           IN  /\ v.request = w.request /\ v.session = w.session
               /\ v.recovery = w.recovery /\ v.student = w.student
               /\ EntriesAreLive(v, open \ {s})
<1> DEFINE t == Owner[s]
           v == RemoveProfessor(w, s)
           left == Without(w.professors[t], s)
<1>1. s \in Sockets /\ t \in Teachers /\ t \notin Students /\ w \in Memory
  BY OwnerType, PresenceAssumption DEF Sound
<1>2. w.professors[t] \in Seq(TeacherSockets) /\ IsInjective(w.professors[t])
  BY <1>1 DEF Memory, Sound, EntriesDistinct
<1>3. \A i \in DOMAIN left : /\ left[i] # s
                             /\ \E j \in DOMAIN w.professors[t] : w.professors[t][j] = left[i]
  BY <1>2, WithoutLemma
<1>4. /\ v.request = w.request /\ v.session = w.session
      /\ v.recovery = w.recovery /\ v.student = w.student
      /\ \A z \in Teachers : v.professors[z] = IF z = t THEN left ELSE w.professors[z]
  <2> HIDE DEF left
  <2>1. v = [w EXCEPT !.professors[t] = left, !.availability[s] = "offline"]
    BY <1>1 DEF RemoveProfessor, Memory, left
  <2> QED BY <1>1, <2>1 DEF Memory
<1> HIDE DEF v, left
<1>5. \A z \in Teachers : \A i \in DOMAIN v.professors[z] :
         v.professors[z][i] \in open \ {s} /\ Owner[v.professors[z][i]] = z
  <2> SUFFICES ASSUME NEW z \in Teachers, NEW i \in DOMAIN v.professors[z]
               PROVE  v.professors[z][i] \in open \ {s} /\ Owner[v.professors[z][i]] = z
    OBVIOUS
  <2>1. CASE z = t
    BY <1>3, <1>4, <2>1 DEF EntriesAreLive
  <2>2. CASE z # t
    BY <1>4, <2>2 DEF EntriesAreLive
  <2> QED BY <2>1, <2>2
<1>6. EntriesAreLive(v, open \ {s})
  BY <1>1, <1>4, <1>5 DEF EntriesAreLive, StudentOnline
<1> QED BY <1>4, <1>6 DEF v

\* registerProfessor lists a socket that is connected.
LEMMA RegisterProfessorKeepsLive ==
    ASSUME NEW w, Sound(w), NEW open, Live(w, open), NEW s \in TeacherSockets, s \in open
    PROVE  Live(RegisterProfessor(w, s), open)
<1> DEFINE t == Owner[s]
           u == RemoveProfessor(w, s)
           v == RegisterProfessor(w, s)
           longer == Append(u.professors[t], s)
<1>1. s \in Sockets /\ t \in Teachers
  BY OwnerType
<1>2. /\ u.request = w.request /\ u.session = w.session
      /\ u.recovery = w.recovery /\ u.student = w.student
      /\ EntriesAreLive(u, open \ {s})
  BY RemoveProfessorLeaves DEF Live
<1>3. u \in Memory
  BY RemoveProfessorIsCalm DEF Sound, Calm
<1>4. v = [u EXCEPT !.professors[t] = longer, !.availability[s] = "available"]
  BY DEF RegisterProfessor
<1> HIDE DEF u, v
<1>5. \A i \in DOMAIN longer : longer[i] = s \/ \E j \in DOMAIN u.professors[t] :
                                                   u.professors[t][j] = longer[i]
  <2>1. u.professors[t] \in Seq(TeacherSockets)
    BY <1>1, <1>3 DEF Memory
  <2> HIDE DEF t
  <2>2. /\ DOMAIN longer = 1..(Len(u.professors[t]) + 1)
        /\ \A i \in 1..Len(u.professors[t]) : longer[i] = u.professors[t][i]
        /\ longer[Len(u.professors[t]) + 1] = s
        /\ Len(u.professors[t]) \in Nat
        /\ DOMAIN u.professors[t] = 1..Len(u.professors[t])
    BY <2>1, AppendProperties, LenProperties
  <2> HIDE DEF longer
  <2> QED BY <2>2
<1> HIDE DEF longer
<1>6. /\ v.request = w.request /\ v.session = w.session
      /\ v.recovery = w.recovery /\ v.student = w.student
      /\ \A z \in Teachers : v.professors[z] = IF z = t THEN longer ELSE u.professors[z]
  BY <1>1, <1>2, <1>3, <1>4 DEF Memory
<1>7. \A z \in Teachers : \A i \in DOMAIN v.professors[z] :
         v.professors[z][i] \in open /\ Owner[v.professors[z][i]] = z
  <2> SUFFICES ASSUME NEW z \in Teachers, NEW i \in DOMAIN v.professors[z]
               PROVE  v.professors[z][i] \in open /\ Owner[v.professors[z][i]] = z
    OBVIOUS
  <2>1. CASE z = t
    BY <1>1, <1>2, <1>5, <1>6, <2>1 DEF EntriesAreLive
  <2>2. CASE z # t
    BY <1>2, <1>6, <2>2 DEF EntriesAreLive
  <2> QED BY <2>1, <2>2
<1>8. EntriesAreLive(v, open)
  BY <1>6, <1>7 DEF Live, EntriesAreLive, StudentOnline
<1> QED BY <1>6, <1>8, EntriesChangeKeepsLive DEF v

\* What becomes of the one entry of a student whose socket is s.
LEMMA StudentEntryKeepsLive ==
    ASSUME NEW w \in Memory, NEW open, EntriesAreLive(w, open), NEW x \in Students,
           NEW entry, NEW left, left \subseteq open,
           entry # AbsentStudent => /\ Owner[entry.socket] = x
                                    /\ entry.status = "online" => entry.socket \in left,
           \A s \in open \ left : s \in Sockets /\ Owner[s] = x
    PROVE  LET v == [w EXCEPT !.student[x] = entry]
           IN  /\ v.request = w.request /\ v.session = w.session
               /\ v.recovery = w.recovery /\ v.professors = w.professors
               /\ EntriesAreLive(v, left)
<1> DEFINE v == [w EXCEPT !.student[x] = entry]
<1>1. /\ v.request = w.request /\ v.session = w.session
      /\ v.recovery = w.recovery /\ v.professors = w.professors
      /\ \A y \in Students : v.student[y] = IF y = x THEN entry ELSE w.student[y]
  BY DEF Memory
<1> HIDE DEF v
<1>2. x \notin Teachers
  BY PresenceAssumption
<1>3. \A t \in Teachers : \A i \in DOMAIN v.professors[t] :
         v.professors[t][i] \in left /\ Owner[v.professors[t][i]] = t
  BY <1>1, <1>2 DEF EntriesAreLive
<1>4. \A y \in Students : v.student[y] # AbsentStudent =>
         /\ Owner[v.student[y].socket] = y
         /\ StudentOnline(v, y) => v.student[y].socket \in left
  <2> SUFFICES ASSUME NEW y \in Students, v.student[y] # AbsentStudent
               PROVE  /\ Owner[v.student[y].socket] = y
                      /\ StudentOnline(v, y) => v.student[y].socket \in left
    OBVIOUS
  <2>1. CASE y = x
    BY <1>1, <2>1 DEF StudentOnline
  <2>2. CASE y # x
    BY <1>1, <2>2 DEF StudentOnline, EntriesAreLive
  <2> QED BY <2>1, <2>2
<1>5. EntriesAreLive(v, left)
  BY <1>3, <1>4 DEF EntriesAreLive
<1> QED BY <1>1, <1>5 DEF v

\* The operations of StudentPresenceManager; after a lost transport or a
\* goodbye no student is online over the socket.
LEMMA StudentPresenceLeaves ==
    ASSUME NEW w \in Memory, NEW open, EntriesAreLive(w, open), NEW s \in StudentSockets
    PROVE  LET Keeps(v, left) == /\ v.request = w.request /\ v.session = w.session
                                 /\ v.recovery = w.recovery /\ v.professors = w.professors
                                 /\ EntriesAreLive(v, left)
           IN  /\ s \in open => Keeps(RegisterStudent(w, s), open)
               /\ Keeps(RemoveStudent(w, s), open \ {s})
               /\ Keeps(MarkReconnecting(w, s), open \ {s})
               /\ Keeps(RemoveStudent(w, s), open)
<1> DEFINE x == Owner[s]
           marked == [w.student[x] EXCEPT !.status = "reconnecting"]
           Keeps(v, left) == /\ v.request = w.request /\ v.session = w.session
                             /\ v.recovery = w.recovery /\ v.professors = w.professors
                             /\ EntriesAreLive(v, left)
<1>1. s \in Sockets /\ x \in Students /\ x \notin Teachers
  BY OwnerType, PresenceAssumption
<1>2. \A z \in open \ (open \ {s}) : z \in Sockets /\ Owner[z] = x
  BY <1>1
<1>3. s \in open => Keeps(RegisterStudent(w, s), open)
  <2> DEFINE entry == [socket |-> s, status |-> "online"]
  <2>1. entry.socket = s
    OBVIOUS
  <2> HIDE DEF entry
  <2>2. s \in open => Keeps([w EXCEPT !.student[x] = entry], open)
    BY <1>1, <2>1, StudentEntryKeepsLive
  <2> QED BY <2>2 DEF RegisterStudent, entry
<1>4. Keeps([w EXCEPT !.student[x] = AbsentStudent], open \ {s})
  BY <1>1, <1>2, StudentEntryKeepsLive
<1>5. ~TracksStudent(w, s) => EntriesAreLive(w, open \ {s})
  <2> SUFFICES ASSUME ~TracksStudent(w, s) PROVE EntriesAreLive(w, open \ {s})
    OBVIOUS
  <2>1. \A t \in Teachers : \A i \in DOMAIN w.professors[t] :
           w.professors[t][i] \in open \ {s} /\ Owner[w.professors[t][i]] = t
    BY <1>1 DEF EntriesAreLive
  <2>2. \A y \in Students : w.student[y] # AbsentStudent =>
           /\ Owner[w.student[y].socket] = y
           /\ w.student[y].socket # s
           /\ StudentOnline(w, y) => w.student[y].socket \in open
    BY DEF EntriesAreLive, TracksStudent
  <2> QED BY <2>1, <2>2 DEF EntriesAreLive
<1>6. Keeps(RemoveStudent(w, s), open \ {s})
  BY <1>4, <1>5 DEF RemoveStudent
<1>7. TracksStudent(w, s) => Keeps([w EXCEPT !.student[x] = marked], open \ {s})
  <2> SUFFICES ASSUME TracksStudent(w, s)
               PROVE  Keeps([w EXCEPT !.student[x] = marked], open \ {s})
    OBVIOUS
  <2>1. w.student[x].socket = s /\ s # None /\ w.student[x] \in StudentEntries
    BY <1>1, PresenceAssumption DEF Memory, TracksStudent
  <2>2. marked.socket = s /\ marked.status = "reconnecting"
    BY <2>1 DEF StudentEntries, AbsentStudent
  <2> HIDE DEF marked
  <2>3. marked.status # "online" /\ Owner[marked.socket] = x
    BY <2>2
  <2> HIDE DEF x
  <2> QED BY <1>1, <1>2, <2>3, StudentEntryKeepsLive
<1>8. Keeps(MarkReconnecting(w, s), open \ {s})
  <2>1. CASE TracksStudent(w, s)
    <3>1. MarkReconnecting(w, s) = [w EXCEPT !.student[x] = marked]
      BY <1>1, <2>1 DEF MarkReconnecting, Memory
    <3> QED BY <1>7, <2>1, <3>1
  <2>2. CASE ~TracksStudent(w, s)
    BY <1>5, <2>2 DEF MarkReconnecting
  <2> QED BY <2>1, <2>2
<1>9. \A v : Keeps(v, open \ {s}) => Keeps(v, open)
  BY DEF EntriesAreLive
<1> QED BY <1>3, <1>6, <1>8, <1>9

-----------------------------------------------------------------------------
(* Sessions *)

\* The loss of a socket vacates its seats and arms a timer for each.
LEMMA DropSocketKeepsLive ==
    ASSUME NEW w \in Memory, NEW open, NEW s \in Sockets,
           EntriesAreLive(w, open \ {s}), SeatsLive(w, open), Armed(w)
    PROVE  Live(DropSocket(w, s), open \ {s})
<1> DEFINE v == DropSocket(w, s)
           Hit(r) == IsActive(w, r) /\ HasParticipant(w, r, s)
<1>1. /\ v.request = w.request /\ v.professors = w.professors /\ v.student = w.student
      /\ \A r \in Requests : v.session[r] = IF Hit(r) THEN Interrupted(w.session[r], s)
                                            ELSE w.session[r]
      /\ \A r \in Requests : r \in v.recovery <=> r \in w.recovery \/ Hit(r)
  BY DEF DropSocket, Memory
<1>2. s # None
  BY PresenceAssumption
<1>3. \A r \in Requests :
         LET i == Interrupted(w.session[r], s)
         IN  /\ i.state = "RECONNECTING" /\ i.deadline = "ahead"
             /\ i.teacherSocket = IF w.session[r].teacherSocket = s THEN None
                                  ELSE w.session[r].teacherSocket
             /\ i.studentSocket = IF w.session[r].studentSocket = s THEN None
                                  ELSE w.session[r].studentSocket
             /\ Hit(r) => ~Rejoined(i)
  BY DEF Interrupted, Rejoined, HasParticipant
<1> HIDE DEF v
<1>4. \A r \in Requests : IsActive(v, r) <=> IsActive(w, r)
  BY <1>1, <1>3 DEF IsActive, ActiveStates
<1>5. \A r \in Requests : IsActive(w, r) =>
         /\ v.session[r].teacherSocket \in {None, w.session[r].teacherSocket} \ {s}
         /\ v.session[r].studentSocket \in {None, w.session[r].studentSocket} \ {s}
  BY <1>1, <1>2, <1>3 DEF HasParticipant
<1>6. SeatsLive(v, open \ {s})
  BY <1>1, <1>4, <1>5 DEF SeatsLive, TeacherOf, StudentOf
<1>7. Armed(v)
  <2> SUFFICES ASSUME NEW r \in Requests
               PROVE  /\ r \in v.recovery => v.session[r].state # "none"
                      /\ IsActive(v, r) =>
                            /\ Rejoined(v.session[r]) <=> v.session[r].state = "CONNECTED"
                            /\ Rejoined(v.session[r]) <=> v.session[r].deadline = "none"
                            /\ Rejoined(v.session[r]) => r \notin v.recovery
                            /\ ~Rejoined(v.session[r]) => r \in v.recovery \/ EarlyTimers
    BY DEF Armed
  <2>1. CASE Hit(r)
    <3>1. /\ v.session[r].state = "RECONNECTING" /\ v.session[r].deadline = "ahead"
          /\ ~Rejoined(v.session[r]) /\ r \in v.recovery
      BY <1>1, <1>3, <2>1
    <3> QED BY <3>1
  <2>2. CASE ~Hit(r)
    <3>1. v.session[r] = w.session[r] /\ (r \in v.recovery <=> r \in w.recovery)
      BY <1>1, <2>2
    <3> HIDE DEF Hit
    <3> QED BY <1>4, <3>1 DEF Armed
  <2> QED BY <2>1, <2>2
<1>8. EntriesAreLive(v, open \ {s})
  BY <1>1 DEF EntriesAreLive, StudentOnline
<1> QED BY <1>6, <1>7, <1>8 DEF Live, v

\* recoverSession seats a connected socket; with both back the timer is
\* cleared, with one still missing it is armed.
LEMMA RecoverSessionKeepsLive ==
    ASSUME NEW w, Sound(w), NEW open, Live(w, open), NEW r \in Requests,
           NEW s \in Sockets, s \in open, MayRecover(w, r, s)
    PROVE  Live(RecoverSession(w, r, s), open)
<1> DEFINE seated == IF Owner[s] \in Teachers
                     THEN [w.session[r] EXCEPT !.teacherSocket = s]
                     ELSE [w.session[r] EXCEPT !.studentSocket = s]
           recovered == IF Rejoined(seated)
                        THEN [seated EXCEPT !.state = "CONNECTED", !.deadline = "none"]
                        ELSE [seated EXCEPT !.state = "RECOVERING"]
           timers == IF recovered.deadline = "none"
                     THEN w.recovery \ {r} ELSE w.recovery \cup {r}
           v == [w EXCEPT !.session[r] = recovered, !.recovery = timers]
<1>0. w \in Memory
  BY DEF Sound
<1>1. /\ w.session[r] \in SessionRecords /\ s # None /\ IsActive(w, r)
      /\ Teachers \cap Students = {} /\ Owner[s] \in {TeacherOf(w, r), StudentOf(w, r)}
  BY <1>0, PresenceAssumption DEF Memory, MayRecover
<1>2. TeacherOf(w, r) \in Teachers /\ StudentOf(w, r) \in Students
  <2>1. w.request[r].status = "accepted" /\ w.request[r] \in RequestRecords
    BY <1>0, <1>1 DEF Sound, SessionIsAccepted, IsActive, ActiveStates, Memory
  <2> QED BY <2>1 DEF RequestRecords, NoRequest, TeacherOf, StudentOf
<1>3. Owner[s] \in Teachers \cup Students
  BY PresenceAssumption
<1>4. /\ Owner[s] \in Teachers => /\ seated.teacherSocket = s
                                  /\ seated.studentSocket = w.session[r].studentSocket
      /\ Owner[s] \notin Teachers => /\ seated.studentSocket = s
                                     /\ seated.teacherSocket = w.session[r].teacherSocket
      /\ seated.deadline = w.session[r].deadline
      /\ DOMAIN seated = DOMAIN w.session[r] /\ seated \in SessionRecords
  <2>1. s \in TeacherSockets \/ (Owner[s] \notin Teachers /\ s \in StudentSockets)
    BY <1>3 DEF TeacherSockets, StudentSockets
  <2> QED BY <1>1, <2>1 DEF SessionRecords, TeacherSockets
<1> HIDE DEF seated
<1>5. /\ recovered.teacherSocket = seated.teacherSocket
      /\ recovered.studentSocket = seated.studentSocket
      /\ Rejoined(recovered) <=> Rejoined(seated)
      /\ Rejoined(seated) => recovered.state = "CONNECTED" /\ recovered.deadline = "none"
      /\ ~Rejoined(seated) => recovered.state = "RECOVERING"
                              /\ recovered.deadline = w.session[r].deadline
      /\ recovered \in SessionRecords
  BY <1>4 DEF SessionRecords, Rejoined, ActiveStates
<1>6. /\ v.request = w.request /\ v.professors = w.professors /\ v.student = w.student
      /\ \A q \in Requests : v.session[q] = IF q = r THEN recovered ELSE w.session[q]
      /\ v.recovery = timers /\ v \in Memory
  <2>1. timers \in SUBSET Requests
    BY <1>0 DEF Memory
  <2> HIDE DEF timers, recovered
  <2> QED BY <1>0, <1>5, <2>1 DEF Memory
<1>7. RecoverSession(w, r, s) = SetAvailabilityOf(v, TeacherOf(w, r), "busy")
  BY DEF RecoverSession, seated, recovered, timers
<1> HIDE DEF v, recovered
<1>8. IsActive(v, r) /\ \A q \in Requests : IsActive(v, q) <=> IsActive(w, q)
  BY <1>1, <1>5, <1>6 DEF IsActive, ActiveStates
<1>9. ~Rejoined(seated) => w.session[r].deadline # "none"
  <2>1. Rejoined(w.session[r]) => Rejoined(seated)
    BY <1>1, <1>4 DEF Rejoined
  <2> QED BY <1>1, <2>1 DEF Live, Armed
<1>10. SeatsLive(v, open)
  <2>1. recovered.teacherSocket # None =>
           /\ recovered.teacherSocket \in open
           /\ Owner[recovered.teacherSocket] = TeacherOf(w, r)
    <3>1. CASE Owner[s] \in Teachers
      <4>1. Owner[s] = TeacherOf(w, r)
        BY <1>1, <1>2, <3>1
      <4> QED BY <1>4, <1>5, <3>1, <4>1
    <3>2. CASE Owner[s] \notin Teachers
      BY <1>1, <1>4, <1>5, <3>2 DEF Live, SeatsLive
    <3> QED BY <3>1, <3>2
  <2>2. recovered.studentSocket # None =>
           /\ recovered.studentSocket \in open
           /\ Owner[recovered.studentSocket] = StudentOf(w, r)
    <3>1. CASE Owner[s] \in Teachers
      BY <1>1, <1>4, <1>5, <3>1 DEF Live, SeatsLive
    <3>2. CASE Owner[s] \notin Teachers
      <4>1. Owner[s] = StudentOf(w, r)
        BY <1>1, <1>2, <1>3, <3>2
      <4> QED BY <1>4, <1>5, <3>2, <4>1
    <3> QED BY <3>1, <3>2
  <2> QED BY <1>6, <1>8, <2>1, <2>2 DEF Live, SeatsLive, TeacherOf, StudentOf
<1>11. Armed(v)
  BY <1>1, <1>5, <1>6, <1>8, <1>9 DEF Live, Armed, IsActive, ActiveStates
<1>12. EntriesAreLive(v, open)
  BY <1>6 DEF Live, EntriesAreLive, StudentOnline
<1>13. Live(v, open)
  BY <1>10, <1>11, <1>12 DEF Live
<1>14. Quiet(v, SetAvailabilityOf(v, TeacherOf(w, r), "busy"))
  BY <1>6, SetAvailabilityIsQuiet DEF Availabilities
<1> QED BY <1>7, <1>13, <1>14, QuietKeepsLive

-----------------------------------------------------------------------------
(* What is left *)

\* createRequest: the request is new, so no session is looked at differently.
LEMMA CreateRequestKeepsLive ==
    ASSUME NEW w, Sound(w), NEW open, Live(w, open),
           NEW s, NEW t, NEW r \in Requests, w.request[r].status = "none", NEW tick
    PROVE  Live(CreateRequest(w, s, t, r, tick), open)
<1> DEFINE u == SetAvailabilityOf(w, t, "busy")
           v == CreateRequest(w, s, t, r, tick)
<1>1. Quiet(w, u)
  BY SetAvailabilityIsQuiet DEF Sound, Availabilities
<1>2. u \in Memory
  BY <1>1 DEF Quiet, Calm
<1>3. Sound(u) /\ Live(u, open)
  BY <1>1, QuietKeepsLive, CalmKeepsSound DEF Quiet
<1>4. w.session[r].state = "none"
  BY DEF Sound, SessionIsAccepted
<1> HIDE DEF u
<1>5. /\ v.session = u.session /\ v.recovery = u.recovery
      /\ v.professors = u.professors /\ v.student = u.student
      /\ \A q \in Requests \ {r} : v.request[q] = u.request[q]
  BY <1>2 DEF CreateRequest, Memory, u
<1>6. \A q \in Requests : IsActive(v, q) => q # r /\ IsActive(u, q)
  BY <1>1, <1>4, <1>5 DEF IsActive, ActiveStates, Quiet
<1> HIDE DEF v
<1>7. EntriesAreLive(v, open)
  BY <1>3, <1>5 DEF Live, EntriesAreLive, StudentOnline
<1>8. SeatsLive(v, open)
  BY <1>3, <1>5, <1>6 DEF Live, SeatsLive, TeacherOf, StudentOf
<1>9. Armed(v)
  BY <1>3, <1>5, <1>6 DEF Live, Armed
<1> QED BY <1>7, <1>8, <1>9 DEF Live, v

\* Time passes for a session that lacks a participant, or a timer that found
\* nothing to do is gone.
LEMMA TimersKeepLive ==
    ASSUME server \in Memory, Live(server, connected), NEW r \in Requests,
           Elapse(r) \/ RecoveryTimerIdle(r)
    PROVE  Live(server', connected)
<1>1. CASE Elapse(r)
  <2> DEFINE later == IF server.session[r].deadline = "ahead" THEN "reached" ELSE "passed"
             session == [server.session[r] EXCEPT !.deadline = later]
  <2>1. /\ session.state = server.session[r].state
        /\ session.teacherSocket = server.session[r].teacherSocket
        /\ session.studentSocket = server.session[r].studentSocket
        /\ session.deadline # "none" /\ server.session[r].deadline # "none"
    BY <1>1 DEF Memory, SessionRecords, Elapse
  <2>2. server' = [server EXCEPT !.session[r] = session]
    BY <1>1 DEF Elapse, Memory
  <2> HIDE DEF session
  <2>3. /\ server'.request = server.request /\ server'.professors = server.professors
        /\ server'.student = server.student /\ server'.recovery = server.recovery
        /\ \A q \in Requests : server'.session[q] = IF q = r THEN session
                                                    ELSE server.session[q]
    BY <2>2 DEF Memory
  <2>4. \A q \in Requests : IsActive(server', q) <=> IsActive(server, q)
    BY <2>1, <2>3 DEF IsActive
  <2>5. EntriesAreLive(server', connected)
    BY <2>3 DEF Live, EntriesAreLive, StudentOnline
  <2>6. SeatsLive(server', connected)
    BY <2>1, <2>3, <2>4 DEF Live, SeatsLive, TeacherOf, StudentOf
  <2>7. Armed(server')
    BY <2>1, <2>3, <2>4 DEF Live, Armed, Rejoined
  <2> QED BY <2>5, <2>6, <2>7 DEF Live
<1>2. CASE RecoveryTimerIdle(r)
  <2>1. /\ server'.request = server.request /\ server'.professors = server.professors
        /\ server'.student = server.student /\ server'.session = server.session
        /\ server'.recovery = server.recovery \ {r}
    BY <1>2 DEF RecoveryTimerIdle, Memory
  <2>2. \A q \in Requests : IsActive(server', q) <=> IsActive(server, q)
    BY <2>1 DEF IsActive
  <2>3. EntriesAreLive(server', connected)
    BY <2>1 DEF Live, EntriesAreLive, StudentOnline
  <2>4. SeatsLive(server', connected)
    BY <2>1, <2>2 DEF Live, SeatsLive, TeacherOf, StudentOf
  <2>5. Armed(server')
    BY <1>2, <2>1, <2>2 DEF Live, Armed, RecoveryTimerIdle
  <2> QED BY <2>3, <2>4, <2>5 DEF Live
<1> QED BY <1>1, <1>2

\* A restart leaves nobody connected and nobody seated, and every session that
\* was active with a deadline and a timer.
LEMMA RestartedIsLive ==
    ASSUME NEW w \in Memory, Armed(w)
    PROVE  Live(Restarted(w), {})
<1> DEFINE v == Restarted(w)
           back == [NoSession EXCEPT !.state = "RECOVERING", !.deadline = "ahead"]
<1>1. /\ back.state = "RECOVERING" /\ back.deadline = "ahead"
      /\ back.teacherSocket = None /\ back.studentSocket = None
  BY DEF NoSession
<1>2. /\ v.professors = NoProfessors /\ v.student = NoStudents
      /\ \A r \in Requests : v.session[r] = IF IsActive(w, r) THEN back ELSE w.session[r]
      /\ v.recovery = {r \in Requests : IsActive(w, r)}
  BY DEF Restarted
<1> HIDE DEF v, back
<1>3. \A r \in Requests : IsActive(v, r) <=> IsActive(w, r)
  BY <1>1, <1>2 DEF IsActive, ActiveStates
<1>4. EntriesAreLive(v, {})
  <2>1. \A t \in Teachers : DOMAIN v.professors[t] = {}
    BY <1>2 DEF NoProfessors
  <2> QED BY <1>2, <2>1 DEF EntriesAreLive, NoStudents
<1>5. SeatsLive(v, {})
  BY <1>1, <1>2, <1>3 DEF SeatsLive
<1>6. Armed(v)
  BY <1>1, <1>2, <1>3 DEF Armed, Rejoined, IsActive, ActiveStates
<1> QED BY <1>4, <1>5, <1>6 DEF Live, v

-----------------------------------------------------------------------------
(* The invariance *)

\* Nobody is registered at first.
LEMMA InitLive == Init => Live(server, connected)
<1> SUFFICES ASSUME Init PROVE Live(server, connected)
  OBVIOUS
<1>1. /\ \A t \in Teachers : DOMAIN server.professors[t] = {}
      /\ \A x \in Students : server.student[x] = AbsentStudent
      /\ \A r \in Requests : ~IsActive(server, r)
      /\ server.recovery = {}
  BY DEF Init, NoProfessors, NoStudents, NoSessions, NoSession, IsActive, ActiveStates
<1> QED BY <1>1 DEF Live, EntriesAreLive, SeatsLive, Armed

\* Every step of Next keeps it.
LEMMA NextLive ==
    ASSUME Inv, Live(server, connected), [Next]_vars
    PROVE  Live(server', connected')
<1>0. /\ server \in Memory /\ EntriesDistinct(server) /\ Sound(server)
      /\ EntriesAreLive(server, connected) /\ SeatsLive(server, connected) /\ Armed(server)
  BY DEF Inv, Sound, Live
<1>a. ASSUME Quiet(server, server'), connected' = connected
      PROVE  Live(server', connected')
  BY <1>a, QuietKeepsLive
<1>1. ASSUME NEW s \in Sockets, Connect(s) PROVE Live(server', connected')
  <2>1. server' = server /\ connected \subseteq connected'
    BY <1>1 DEF Connect
  <2>2. EntriesAreLive(server', connected')
    BY <1>0, <2>1 DEF EntriesAreLive
  <2>3. SeatsLive(server', connected')
    BY <1>0, <2>1 DEF SeatsLive
  <2> QED BY <1>0, <2>1, <2>2, <2>3 DEF Live
<1>2. ASSUME NEW s \in Sockets, TeacherDisconnects(s) PROVE Live(server', connected')
  <2> DEFINE gone == RemoveProfessor(server, s)
  <2>1. s \in TeacherSockets
    BY <1>2 DEF TeacherDisconnects
  <2>2. gone \in Memory
    BY <1>0, <2>1, RemoveProfessorIsCalm DEF Calm
  <2>3. /\ gone.request = server.request /\ gone.session = server.session
        /\ gone.recovery = server.recovery
        /\ EntriesAreLive(gone, connected \ {s})
    BY <1>0, <2>1, RemoveProfessorLeaves
  <2> HIDE DEF gone
  <2>4. SeatsLive(gone, connected) /\ Armed(gone)
    BY <1>0, <2>3 DEF SeatsLive, Armed, IsActive, TeacherOf, StudentOf
  <2>5. Live(DropSocket(gone, s), connected \ {s})
    BY <2>2, <2>3, <2>4, DropSocketKeepsLive
  <2> QED BY <1>2, <2>5 DEF TeacherDisconnects, gone
<1>3. ASSUME NEW s \in Sockets, StudentDisconnects(s) PROVE Live(server', connected')
  <2>1. s \in StudentSockets
    BY <1>3 DEF StudentDisconnects
  <2>2. ASSUME NEW gone, Calm(server, gone), gone.request = server.request,
               gone.session = server.session, gone.recovery = server.recovery,
               EntriesAreLive(gone, connected \ {s})
        PROVE  Live(DropSocket(gone, s), connected \ {s})
    <3>1. SeatsLive(gone, connected) /\ Armed(gone)
      BY <1>0, <2>2 DEF SeatsLive, Armed, IsActive, TeacherOf, StudentOf
    <3> QED BY <2>2, <3>1, DropSocketKeepsLive DEF Calm
  <2>3. Live(DropSocket(RemoveStudent(server, s), s), connected \ {s})
    BY <1>0, <2>1, <2>2, StudentPresenceIsCalm, StudentPresenceLeaves
  <2>4. Live(DropSocket(MarkReconnecting(server, s), s), connected \ {s})
    BY <1>0, <2>1, <2>2, StudentPresenceIsCalm, StudentPresenceLeaves
  <2> QED BY <1>3, <2>3, <2>4 DEF StudentDisconnects
<1>4. ASSUME NEW s \in Sockets, ProfessorComesOnline(s) PROVE Live(server', connected')
  <2> DEFINE w == RegisterProfessor(server, s)
  <2>1. Calm(server, w) /\ Live(w, connected)
    BY <1>0, <1>4, RegisterProfessorIsCalm, RegisterProfessorKeepsLive
    DEF ProfessorComesOnline
  <2>2. Live(ResumeQueue(w, Owner[s]), connected)
    BY <1>0, <2>1, CalmKeepsSound, ResumeQueueKeepsLive
  <2> QED BY <1>4, <2>2 DEF ProfessorComesOnline
<1>5. ASSUME NEW s \in Sockets, ProfessorSetsAvailability(s) PROVE Live(server', connected')
  <2>1. Quiet(server, server')
    BY <1>0, <1>5, SetAvailabilityIsQuiet DEF ProfessorSetsAvailability, Availabilities
  <2> QED BY <1>5, <1>a, <2>1 DEF ProfessorSetsAvailability
<1>6. ASSUME NEW s \in Sockets, ProfessorHeartbeatExpires(s) PROVE Live(server', connected')
  <2>1. /\ server'.request = server.request /\ server'.session = server.session
        /\ server'.recovery = server.recovery
        /\ EntriesAreLive(server', connected \ {s})
    BY <1>0, <1>6, RemoveProfessorLeaves DEF ProfessorHeartbeatExpires
  <2>2. EntriesAreLive(server', connected)
    BY <2>1 DEF EntriesAreLive
  <2> QED BY <1>6, <2>1, <2>2, EntriesChangeKeepsLive DEF ProfessorHeartbeatExpires
<1>7. ASSUME NEW s \in Sockets, StudentRegisters(s) PROVE Live(server', connected')
  <2>1. s \in StudentSockets /\ s \in connected /\ connected' = connected
        /\ server' = RegisterStudent(server, s)
    BY <1>7 DEF StudentRegisters
  <2> DEFINE v == RegisterStudent(server, s)
  <2>2. /\ v.request = server.request /\ v.session = server.session
        /\ v.recovery = server.recovery /\ EntriesAreLive(v, connected)
    BY <1>0, <2>1, StudentPresenceLeaves
  <2> HIDE DEF v
  <2>3. Live(v, connected)
    BY <2>2, EntriesChangeKeepsLive
  <2> QED BY <2>1, <2>3 DEF v
<1>8. ASSUME NEW x \in Students, StudentEntryRemoved(x) PROVE Live(server', connected')
  <2> DEFINE s == server.student[x].socket
  <2>1. /\ s \in StudentSockets /\ connected' = connected
        /\ server' = RemoveStudent(server, s)
    BY <1>0, <1>8 DEF StudentEntryRemoved, Memory, StudentEntries
  <2> HIDE DEF s
  <2> QED BY <1>0, <2>1, StudentPresenceLeaves, EntriesChangeKeepsLive
<1>9. ASSUME NEW s \in Sockets, NEW t \in Teachers, RequestSession(s, t)
      PROVE  Live(server', connected')
  <2>1. PICK r \in Requests, tick \in BOOLEAN :
           /\ server.request[r].status = "none"
           /\ server' = CreateRequest(server, s, t, r, tick)
    BY <1>9 DEF RequestSession, Unused
  <2> QED BY <1>0, <1>9, <2>1, CreateRequestKeepsLive DEF RequestSession
<1>10. ASSUME NEW s \in Sockets, NEW r \in Requests, Accept(s, r)
       PROVE  Live(server', connected')
  <2> DEFINE w == CompleteRequest(server, r, "accepted")
  <2>1. Quiet(server, w)
    BY <1>0, <1>10, AnswerIsQuiet DEF Accept, MayAnswer
  <2>2. Sound(w) /\ Live(w, connected)
    BY <1>0, <2>1, CalmKeepsSound, QuietKeepsLive DEF Quiet
  <2>3. MayStart(w, r) => Live(CreateSession(w, r), connected)
    BY <2>2, CreateSessionKeepsLive
  <2> QED BY <1>10, <2>2, <2>3 DEF Accept
<1>11. ASSUME NEW s \in Sockets, NEW r \in Requests, Reject(s, r)
       PROVE  Live(server', connected')
  <2>1. Quiet(server, server')
    BY <1>0, <1>11, AnswerIsQuiet DEF Reject, MayAnswer
  <2> QED BY <1>11, <1>a, <2>1 DEF Reject
<1>12. ASSUME NEW s \in Sockets, NEW r \in Requests, Cancel(s, r)
       PROVE  Live(server', connected')
  <2> DEFINE w == TransitionWithoutActor(server, r, "cancelled")
  <2>1. Quiet(server, w)
    BY <1>0, <1>12, AnswerIsQuiet DEF Cancel
  <2>2. Live(PromoteQueuedIfIdle(w, TeacherOf(server, r)), connected)
    BY <1>0, <2>1, CalmKeepsSound, QuietKeepsLive, PromoteQueuedIfIdleKeepsLive DEF Quiet
  <2> QED BY <1>12, <2>2 DEF Cancel
<1>13. ASSUME NEW r \in Requests, RequestExpires(r) PROVE Live(server', connected')
  <2> DEFINE w == TransitionWithoutActor(server, r, "expired")
  <2>1. Quiet(server, w)
    BY <1>0, <1>13, AnswerIsQuiet DEF RequestExpires
  <2>2. Live(PromoteQueuedIfIdle(w, TeacherOf(server, r)), connected)
    BY <1>0, <2>1, CalmKeepsSound, QuietKeepsLive, PromoteQueuedIfIdleKeepsLive DEF Quiet
  <2> QED BY <1>13, <2>2 DEF RequestExpires
<1>14. ASSUME NEW s \in Sockets, NEW r \in Requests, EndSession(s, r)
       PROVE  Live(server', connected')
  BY <1>0, <1>14, EndAndPromoteKeepsLive DEF EndSession
<1>15. ASSUME NEW s \in Sockets, NEW r \in Requests, Recover(s, r)
       PROVE  Live(server', connected')
  BY <1>0, <1>15, RecoverSessionKeepsLive DEF Recover
<1>16. ASSUME NEW r \in Requests, Elapse(r) PROVE Live(server', connected')
  BY <1>0, <1>16, TimersKeepLive DEF Elapse
<1>17. ASSUME NEW r \in Requests, RecoveryTimerFires(r) PROVE Live(server', connected')
  BY <1>0, <1>17, EndAndPromoteKeepsLive DEF RecoveryTimerFires, RecoveryIsOver
<1>18. ASSUME NEW r \in Requests, RecoveryTimerIdle(r) PROVE Live(server', connected')
  BY <1>0, <1>18, TimersKeepLive DEF RecoveryTimerIdle
<1>19. ASSUME Restart PROVE Live(server', connected')
  BY <1>0, <1>19, RestartedIsLive DEF Restart
<1>20. CASE UNCHANGED vars
  BY <1>20 DEF vars
<1>21. TransportEvent => Live(server', connected')
  BY <1>1, <1>2, <1>3 DEF TransportEvent
<1>22. PresenceEvent => Live(server', connected')
  BY <1>4, <1>5, <1>6, <1>7, <1>8 DEF PresenceEvent
<1>23. RequestEvent => Live(server', connected')
  BY <1>9, <1>10, <1>11, <1>12, <1>13 DEF RequestEvent
<1>24. SessionEvent => Live(server', connected')
  BY <1>14, <1>15, <1>16, <1>17, <1>18 DEF SessionEvent
<1> QED BY <1>19, <1>20, <1>21, <1>22, <1>23, <1>24 DEF Next

\* Entries, seats and timers of every reachable state.
THEOREM LiveInvariance == Spec => []Live(server, connected)
<1>1. Inv /\ Live(server, connected) /\ [Next]_vars => Live(server, connected)'
  BY NextLive
<1> QED BY <1>1, Invariance, InitLive, PTL DEF Spec

\* No ghost presence: whoever is shown online is connected, whatever sockets
\* are lost, doubled or timed out (presence.manager.ts, student-presence.
\* manager.ts).  Of a professor's entries only the first answers, but any of
\* them may become the first: the induction is about all of them.
THEOREM PresenceStaysLive == Spec => []PresenceIsLive
<1>1. Inv /\ Live(server, connected) => PresenceIsLive
  <2> SUFFICES ASSUME Inv, Live(server, connected) PROVE PresenceIsLive
    OBVIOUS
  <2>1. ASSUME NEW t \in Teachers, ProfessorOnline(server, t)
        PROVE  FindProfessor(server, t) \in connected /\ Owner[FindProfessor(server, t)] = t
    <3>1. server.professors[t] \in Seq(TeacherSockets) /\ server.professors[t] # <<>>
      BY <2>1 DEF Inv, Sound, Memory, ProfessorOnline, FindProfessor
    <3>2. /\ 1 \in DOMAIN server.professors[t]
          /\ FindProfessor(server, t) = server.professors[t][1]
      BY <3>1 DEF FindProfessor
    <3> QED BY <3>2 DEF Live, EntriesAreLive
  <2>2. ASSUME NEW x \in Students, StudentOnline(server, x)
        PROVE  /\ server.student[x].socket \in connected
               /\ Owner[server.student[x].socket] = x
    <3>1. server.student[x] # AbsentStudent
      BY <2>2 DEF StudentOnline, AbsentStudent
    <3> QED BY <2>2, <3>1 DEF Live, EntriesAreLive
  <2> QED BY <2>1, <2>2 DEF PresenceIsLive
<1> QED BY <1>1, Invariance, LiveInvariance, PTL

\* A lost socket is never left in a session, and nobody but its two
\* participants is seated (markParticipantDisconnected, recoverSession).
THEOREM SeatsStayLive == Spec => []SeatsAreLive
<1>1. Live(server, connected) => SeatsAreLive
  BY DEF Live, SeatsLive, SeatsAreLive
<1> QED BY <1>1, LiveInvariance, PTL

\* A session that lacks a participant has a timer that will end it, and one that
\* lacks nobody has none (session.gateway.ts, recovery-coordinator.ts).
THEOREM RecoveryStaysArmed == Spec => []RecoveryArmed
<1>1. Live(server, connected) => RecoveryArmed
  BY DEF Live, Armed, RecoveryArmed
<1> QED BY <1>1, LiveInvariance, PTL

-----------------------------------------------------------------------------
(* A busy professor has a reason to be.  Only the first entry of a         *)
(* professor answers, so only the first is ever made busy; and what a call *)
(* does for one professor is Local: it disturbs neither the availability   *)
(* nor the reasons of another.                                             *)

Stranded(w, r) == w.request[r].status = "accepted" /\ w.session[r].state = "none"

Reason(w, t) ==
    \/ TeacherEngaged(w, t)
    \/ Queue(w, t) # {}
    \/ \E r \in Requests : TeacherOf(w, r) = t /\ Stranded(w, r)

Excused(w, t) == AvailabilityOf(w, t) = "busy" => Reason(w, t)

OnlyFirstBusy(w) ==
    \A t \in Teachers : \A i \in DOMAIN w.professors[t] :
        i > 1 => w.availability[w.professors[t][i]] # "busy"

Backed(w) == OnlyFirstBusy(w) /\ \A t \in Teachers : Excused(w, t)

Local(w, v, t) ==
    /\ v.professors = w.professors
    /\ \A s \in Sockets : v.availability[s] = w.availability[s] \/ s = FindProfessor(w, t)
    /\ \A z \in Teachers \ {t} : Reason(w, z) => Reason(v, z)

\* Local changes for one professor compose, and no change is local.
LEMMA LocalTransitive ==
    ASSUME NEW w, NEW v, NEW u, NEW t, Local(w, v, t), Local(v, u, t)
    PROVE  Local(w, u, t)
BY DEF Local, FindProfessor

\* A step that changes nothing is local.
LEMMA LocalReflexive ==
    ASSUME NEW w, NEW t
    PROVE  Local(w, w, t)
BY DEF Local

\* The reasons of a professor are the requests to that professor and their
\* sessions.
LEMMA ReasonKept ==
    ASSUME NEW w, NEW v, NEW z, Reason(w, z),
           \A r \in Requests : TeacherOf(w, r) = z =>
              /\ TeacherOf(v, r) = z
              /\ v.request[r].status = w.request[r].status
              /\ \/ v.session[r].state = w.session[r].state
                 \/ IsActive(w, r) /\ IsActive(v, r)
    PROVE  Reason(v, z)
<1>1. TeacherEngaged(w, z) => TeacherEngaged(v, z)
  BY DEF TeacherEngaged, IsActive
<1>2. Queue(w, z) # {} => Queue(v, z) # {}
  BY DEF Queue, IsPending, TeacherOf
<1>3. ASSUME NEW r \in Requests, TeacherOf(w, r) = z, Stranded(w, r)
      PROVE  TeacherOf(v, r) = z /\ Stranded(v, r)
  BY <1>3 DEF Stranded, IsActive, ActiveStates
<1> QED BY <1>1, <1>2, <1>3 DEF Reason

\* The entries of different professors are different, and so are the entries of
\* one: a local change keeps the others as they are.
LEMMA LocalKeepsBacked ==
    ASSUME NEW w, Sound(w), NEW open, EntriesAreLive(w, open), Backed(w),
           NEW v, NEW t \in Teachers, Local(w, v, t), Excused(v, t)
    PROVE  Backed(v)
<1>1. \A z \in Teachers : /\ w.professors[z] \in Seq(TeacherSockets)
                          /\ IsInjective(w.professors[z])
                          /\ \A i \in DOMAIN w.professors[z] :
                                /\ Owner[w.professors[z][i]] = z
                                /\ w.professors[z][i] \in Sockets
  BY OwnerType, ElementOfSeq, LenProperties
  DEF Sound, Memory, EntriesDistinct, EntriesAreLive
<1>2. \A z \in Teachers : ProfessorOnline(w, z) =>
         /\ 1 \in DOMAIN w.professors[z]
         /\ FindProfessor(w, z) = w.professors[z][1]
  BY <1>1 DEF ProfessorOnline, FindProfessor
<1>3. None \notin Sockets
  BY PresenceAssumption
<1>4. ASSUME NEW z \in Teachers, NEW i \in DOMAIN w.professors[z], i > 1 \/ z # t
      PROVE  v.availability[w.professors[z][i]] = w.availability[w.professors[z][i]]
  <2>1. w.professors[z][i] # FindProfessor(w, t)
    <3>1. CASE ~ProfessorOnline(w, t)
      BY <1>1, <1>3, <3>1 DEF ProfessorOnline
    <3>2. CASE ProfessorOnline(w, t)
      BY <1>1, <1>2, <1>4, <3>2 DEF IsInjective
    <3> QED BY <3>1, <3>2
  <2> QED BY <1>1, <2>1 DEF Local
<1>5. v.professors = w.professors
  BY DEF Local
<1>6. OnlyFirstBusy(v)
  BY <1>4, <1>5 DEF Backed, OnlyFirstBusy
<1>7. ASSUME NEW z \in Teachers, z # t PROVE Excused(v, z)
  <2>1. AvailabilityOf(v, z) = AvailabilityOf(w, z)
    BY <1>2, <1>4, <1>5, <1>7 DEF AvailabilityOf, ProfessorOnline, FindProfessor
  <2> QED BY <1>7, <2>1 DEF Excused, Backed, Local
<1> QED BY <1>6, <1>7 DEF Backed

\* Changes that make nobody busy and take no reason away.
LEMMA QuietlyBacked ==
    ASSUME NEW w, Sound(w), Backed(w), NEW v, v.professors = w.professors,
           \A s \in Sockets : v.availability[s] = "busy" => w.availability[s] = "busy",
           \A z \in Teachers : Reason(w, z) => Reason(v, z)
    PROVE  Backed(v)
<1>1. \A z \in Teachers : /\ w.professors[z] \in Seq(TeacherSockets)
                          /\ \A i \in DOMAIN w.professors[z] : w.professors[z][i] \in Sockets
  BY OwnerType, ElementOfSeq, LenProperties DEF Sound, Memory
<1>2. OnlyFirstBusy(v)
  BY <1>1 DEF Backed, OnlyFirstBusy
<1>3. ASSUME NEW z \in Teachers, AvailabilityOf(v, z) = "busy" PROVE Reason(v, z)
  <2>1. /\ ProfessorOnline(w, z) /\ FindProfessor(v, z) = FindProfessor(w, z)
        /\ v.availability[FindProfessor(w, z)] = "busy"
    BY <1>3 DEF AvailabilityOf, ProfessorOnline, FindProfessor
  <2>2. FindProfessor(w, z) \in Sockets
    BY <2>1, FindProfessorLemma, OwnerType DEF Sound
  <2>3. AvailabilityOf(w, z) = "busy"
    BY <2>1, <2>2 DEF AvailabilityOf
  <2> QED BY <2>3 DEF Backed, Excused
<1> QED BY <1>2, <1>3 DEF Backed, Excused

-----------------------------------------------------------------------------
(* The calls that are local *)

\* setAvailabilityByProfessorId touches the first entry of that professor.
LEMMA SetAvailabilityOfIsLocal ==
    ASSUME NEW w \in Memory, NEW t, NEW a
    PROVE  Local(w, SetAvailabilityOf(w, t, a), t)
<1> DEFINE v == SetAvailabilityOf(w, t, a)
<1>1. /\ v.request = w.request /\ v.session = w.session /\ v.professors = w.professors
      /\ \A s \in Sockets : v.availability[s] = w.availability[s] \/ s = FindProfessor(w, t)
  BY DEF SetAvailabilityOf, SetAvailability, Memory
<1> HIDE DEF v
<1>2. \A z \in Teachers : Reason(w, z) => Reason(v, z)
  BY <1>1, ReasonKept DEF TeacherOf
<1> QED BY <1>1, <1>2 DEF Local, v

\* A professor who is released with an empty queue is not busy.
LEMMA ReleaseIsLocal ==
    ASSUME NEW w \in Memory, NEW t \in Teachers
    PROVE  /\ Local(w, ReleaseIfQueueEmpty(w, t), t)
           /\ Excused(ReleaseIfQueueEmpty(w, t), t)
<1> DEFINE v == SetAvailabilityOf(w, t, "available")
<1>1. Local(w, ReleaseIfQueueEmpty(w, t), t)
  BY SetAvailabilityOfIsLocal, LocalReflexive DEF ReleaseIfQueueEmpty
<1>2. AvailabilityOf(v, t) # "busy"
  <2>1. CASE ProfessorOnline(w, t)
    <3>1. FindProfessor(w, t) \in Sockets
      BY <2>1, FindProfessorLemma, OwnerType
    <3>2. v = [w EXCEPT !.availability[FindProfessor(w, t)] = "available"]
      BY <2>1 DEF SetAvailabilityOf, SetAvailability
    <3>3. /\ v.professors = w.professors
          /\ v.availability[FindProfessor(w, t)] = "available"
      BY <3>1, <3>2 DEF Memory
    <3> HIDE DEF v
    <3> QED BY <2>1, <3>3 DEF AvailabilityOf, ProfessorOnline, FindProfessor
  <2>2. CASE ~ProfessorOnline(w, t)
    BY <2>2 DEF SetAvailabilityOf, AvailabilityOf
  <2> QED BY <2>1, <2>2
<1>3. Queue(w, t) # {} => Excused(w, t)
  BY DEF Excused, Reason
<1> QED BY <1>1, <1>2, <1>3 DEF ReleaseIfQueueEmpty, Excused

\* A request that is answered or expires is one of its own professor.
LEMMA SettleRequestIsLocal ==
    ASSUME NEW w \in Memory, NEW r \in Requests, IsPending(w, r),
           NEW status \in Statuses \ {"none", "pending"}
    PROVE  /\ Local(w, SettleRequest(w, r, status), TeacherOf(w, r))
           /\ SettleRequest(w, r, status).request[r].status = status
<1> DEFINE v == SettleRequest(w, r, status)
           settled == Settled(w.request[r], status)
<1>1. settled.status = status /\ settled.teacher = w.request[r].teacher
  BY PendingLemma DEF Settled
<1>2. /\ v.session = w.session /\ v.professors = w.professors
      /\ v.availability = w.availability
      /\ \A q \in Requests : v.request[q] = IF q = r THEN settled ELSE w.request[q]
  BY DEF SettleRequest, Memory
<1> HIDE DEF v, settled
<1>3. \A z \in Teachers \ {TeacherOf(w, r)} : Reason(w, z) => Reason(v, z)
  BY <1>1, <1>2, ReasonKept DEF TeacherOf
<1> QED BY <1>1, <1>2, <1>3 DEF Local, v

\* The requests a promotion skips are of the professor it serves.
LEMMA ExpireSkippedIsLocal ==
    ASSUME NEW w \in Memory, NEW t
    PROVE  Local(w, ExpireSkipped(w, t), t)
<1> DEFINE v == ExpireSkipped(w, t)
<1>1. /\ v.session = w.session /\ v.professors = w.professors
      /\ v.availability = w.availability
  BY DEF ExpireSkipped, Memory
<1>2. \A r \in Requests \ Skipped(w, t) : v.request[r] = w.request[r]
  BY ExpireSkippedIsCalm
<1>3. \A r \in Skipped(w, t) : TeacherOf(w, r) = t
  BY DEF Skipped, Queue, TeacherOf
<1> HIDE DEF v
<1>4. \A z \in Teachers \ {t} : Reason(w, z) => Reason(v, z)
  BY <1>1, <1>2, <1>3, ReasonKept DEF TeacherOf
<1> QED BY <1>1, <1>4 DEF Local, v

\* expireQueuedForProfessor
LEMMA ExpireQueueIsLocal ==
    ASSUME NEW w \in Memory, NEW t
    PROVE  Local(w, ExpireQueue(w, t), t)
<1> DEFINE left == ExpireSkipped(w, t)
<1>1. Local(w, left, t) /\ left \in Memory
  BY ExpireSkippedIsLocal, ExpireSkippedIsCalm DEF Calm
<1> HIDE DEF left
<1>2. Local(left, SetAvailabilityOf(left, t, "available"), t)
  BY <1>1, SetAvailabilityOfIsLocal
<1>3. Local(w, SetAvailabilityOf(left, t, "available"), t)
  BY <1>1, <1>2, LocalTransitive
<1> QED BY <1>1, <1>3 DEF ExpireQueue, left

\* acceptNextRequest; the request it accepts is one of the professor's.
LEMMA AcceptNextIsLocal ==
    ASSUME NEW w \in Memory, NEW t, CanCallNext(w, t)
    PROVE  LET called == AcceptNext(w, t)
               r == NextReachable(w, t)
           IN  /\ Local(w, called, t)
               /\ TeacherOf(called, r) = t
               /\ called.request[r].status = "accepted"
<1> DEFINE left == ExpireSkipped(w, t)
           next == NextReachable(w, t)
           called == AcceptNext(w, t)
<1>1. next \in Requests \ Skipped(w, t) /\ IsPending(w, next) /\ TeacherOf(w, next) = t
  BY NextReachableLemma DEF Queue, TeacherOf
<1>2. /\ Calm(w, left) /\ Local(w, left, t)
      /\ \A r \in Requests \ Skipped(w, t) : left.request[r] = w.request[r]
  BY ExpireSkippedIsLocal, ExpireSkippedIsCalm
<1>3. called = SettleRequest(left, next, "accepted")
  BY DEF AcceptNext, CompleteRequest
<1> HIDE DEF left, next, called
<1>4. left \in Memory /\ IsPending(left, next) /\ TeacherOf(left, next) = t
  BY <1>1, <1>2 DEF Calm, IsPending, TeacherOf
<1>5. Local(left, called, t) /\ called.request[next].status = "accepted"
  BY <1>1, <1>3, <1>4, SettleRequestIsLocal DEF Statuses
<1>6. TeacherOf(called, next) = t
  <2>1. Calm(left, SettleRequest(left, next, "accepted"))
    BY <1>1, <1>4, SettleRequestIsCalm DEF Statuses
  <2> QED BY <1>1, <1>3, <1>4, <2>1 DEF Calm
<1> QED BY <1>2, <1>5, <1>6, LocalTransitive DEF called, next

\* Replacing the session of a request to t.
LEMMA SessionChangeIsLocal ==
    ASSUME NEW w \in Memory, NEW r \in Requests, NEW session
    PROVE  Local(w, [w EXCEPT !.session[r] = session], TeacherOf(w, r))
<1> DEFINE v == [w EXCEPT !.session[r] = session]
<1>1. /\ v.request = w.request /\ v.professors = w.professors
      /\ v.availability = w.availability
      /\ \A q \in Requests \ {r} : v.session[q] = w.session[q]
  BY DEF Memory
<1> HIDE DEF v
<1>2. \A z \in Teachers \ {TeacherOf(w, r)} : Reason(w, z) => Reason(v, z)
  BY <1>1, ReasonKept DEF TeacherOf
<1> QED BY <1>1, <1>2 DEF Local, v

\* createSession and finishSession
LEMMA SessionCallsAreLocal ==
    ASSUME NEW w, Sound(w), NEW r \in Requests
    PROVE  /\ MayStart(w, r) => /\ Local(w, CreateSession(w, r), TeacherOf(w, r))
                                /\ IsActive(CreateSession(w, r), r)
           /\ IsActive(w, r) => Local(w, FinishSession(w, r), TeacherOf(w, r))
<1> DEFINE t == TeacherOf(w, r)
           x == StudentOf(w, r)
           first == [state |-> "CONNECTED", teacherSocket |-> FindProfessor(w, t),
                     studentSocket |-> w.student[x].socket, deadline |-> "none"]
           opened == [w EXCEPT !.session[r] = first]
           over == [w EXCEPT !.session[r] = [NoSession EXCEPT !.state = "FINISHED"]]
<1>1. w \in Memory
  BY DEF Sound
<1>2. ASSUME MayStart(w, r)
      PROVE  Local(w, CreateSession(w, r), t) /\ IsActive(CreateSession(w, r), r)
  <2>1. opened \in Memory /\ IsActive(opened, r)
    <3>1. t \in Teachers
      BY <1>1, <1>2 DEF Memory, RequestRecords, NoRequest, TeacherOf, MayStart
    <3>2. x \in Students
      BY <1>1, <1>2 DEF Memory, RequestRecords, NoRequest, StudentOf, MayStart
    <3>3. FindProfessor(w, t) \in TeacherSockets
      BY <1>1, <1>2, <3>1, FindProfessorLemma DEF MayStart
    <3>4. w.student[x].socket \in StudentSockets \cup {None}
      BY <1>1, <3>2 DEF Memory, StudentEntries, AbsentStudent
    <3>5. first \in SessionRecords /\ first.state \in ActiveStates
      <4> HIDE DEF t, x
      <4> QED BY <3>3, <3>4 DEF SessionRecords, ActiveStates
    <3> HIDE DEF first
    <3> QED BY <1>1, <3>5 DEF Memory, IsActive
  <2>2. Local(w, opened, t)
    BY <1>1, SessionChangeIsLocal
  <2>3. CreateSession(w, r) = SetAvailabilityOf(opened, t, "busy")
    BY DEF CreateSession
  <2> HIDE DEF opened
  <2>4. /\ Local(opened, CreateSession(w, r), t)
        /\ CreateSession(w, r).session = opened.session
    BY <2>1, <2>3, SetAvailabilityOfIsLocal, SetAvailabilityOfKeeps
  <2> QED BY <2>1, <2>2, <2>4, LocalTransitive DEF IsActive
<1>3. ASSUME IsActive(w, r)
      PROVE  Local(w, FinishSession(w, r), t)
  <2>1. over \in Memory
    BY <1>1 DEF Memory, SessionRecords, NoSession
  <2>2. Local(w, over, t)
    BY <1>1, SessionChangeIsLocal
  <2>3. FinishSession(w, r) = SetAvailabilityOf(over, t, "available")
    BY DEF FinishSession
  <2> HIDE DEF over
  <2>4. Local(over, FinishSession(w, r), t)
    BY <2>1, <2>3, SetAvailabilityOfIsLocal
  <2> QED BY <2>2, <2>4, LocalTransitive
<1> QED BY <1>2, <1>3

\* createSession leaves every request as it is.
LEMMA CreateSessionKeepsRequests ==
    ASSUME NEW w, Sound(w), NEW r \in Requests
    PROVE  CreateSession(w, r).request = w.request
BY DEF CreateSession, SetAvailabilityOf, SetAvailability, Sound, Memory

-----------------------------------------------------------------------------
(* Handlers that call the next student *)

\* promoteNext leaves a busy professor with a session, with a queue, or behind
\* a student who could not start a session.
LEMMA PromoteNextIsLocal ==
    ASSUME NEW w, Sound(w), NEW t \in Teachers
    PROVE  Local(w, PromoteNext(w, t), t) /\ Excused(PromoteNext(w, t), t)
<1>1. w \in Memory
  BY DEF Sound
<1>2. CASE CanCallNext(w, t)
  <2> DEFINE called == AcceptNext(w, t)
             r == NextReachable(w, t)
  <2>1. /\ Local(w, called, t) /\ TeacherOf(called, r) = t
        /\ called.request[r].status = "accepted"
        /\ r \in Requests /\ IsPending(w, r) /\ Calm(w, called)
    BY <1>1, <1>2, NextReachableLemma, AcceptNextIsLocal, AcceptNextIsCalm
  <2>2. PromoteNext(w, t) = IF MayStart(called, r) THEN CreateSession(called, r) ELSE called
    BY <1>2 DEF PromoteNext
  <2> HIDE DEF called, r
  <2>3. Sound(called)
    BY <2>1, CalmKeepsSound
  <2>4. CASE MayStart(called, r)
    <3>1. Sound(CreateSession(called, r)) /\ IsActive(CreateSession(called, r), r)
          /\ Local(called, CreateSession(called, r), t)
      BY <2>1, <2>3, <2>4, SessionCallsAreLocal, CreateSessionIsSound
    <3>2. TeacherOf(CreateSession(called, r), r) = t
      BY <2>1, <2>3, CreateSessionKeepsRequests DEF TeacherOf
    <3>3. Reason(CreateSession(called, r), t)
      BY <2>1, <3>1, <3>2 DEF Reason, TeacherEngaged
    <3> QED BY <2>1, <2>2, <2>4, <3>1, <3>3, LocalTransitive DEF Excused
  <2>5. CASE ~MayStart(called, r)
    <3>1. called.session[r].state = "none"
      <4>1. w.session[r].state = "none"
        BY <2>1 DEF Sound, SessionIsAccepted, IsPending
      <4> QED BY <2>1, <4>1 DEF Calm, IsActive, ActiveStates
    <3>2. Reason(called, t)
      BY <2>1, <3>1 DEF Reason, Stranded
    <3> QED BY <2>1, <2>2, <2>5, <3>2 DEF Excused
  <2> QED BY <2>4, <2>5
<1>3. CASE ~CanCallNext(w, t)
  <2> DEFINE left == IF AvailabilityOf(w, t) \in {"available", "busy"}
                     THEN ExpireQueue(w, t) ELSE w
  <2>1. Local(w, left, t) /\ left \in Memory
    BY <1>1, ExpireQueueIsLocal, ExpireQueueIsCalm, LocalReflexive DEF Calm
  <2>2. PromoteNext(w, t) = IF TeacherEngaged(left, t) THEN left
                            ELSE ReleaseIfQueueEmpty(left, t)
    BY <1>3 DEF PromoteNext
  <2> HIDE DEF left
  <2>3. /\ Local(left, ReleaseIfQueueEmpty(left, t), t)
        /\ Excused(ReleaseIfQueueEmpty(left, t), t)
    BY <2>1, ReleaseIsLocal
  <2>4. TeacherEngaged(left, t) => Excused(left, t)
    BY DEF Excused, Reason
  <2> QED BY <2>1, <2>2, <2>3, <2>4, LocalTransitive
<1> QED BY <1>2, <1>3

\* promoteQueuedIfIdle
LEMMA PromoteQueuedIfIdleIsLocal ==
    ASSUME NEW w, Sound(w), NEW t \in Teachers
    PROVE  Local(w, PromoteQueuedIfIdle(w, t), t) /\ Excused(PromoteQueuedIfIdle(w, t), t)
<1>1. TeacherEngaged(w, t) => Excused(w, t)
  BY DEF Excused, Reason
<1> QED BY <1>1, PromoteNextIsLocal, ReleaseIsLocal, LocalReflexive
        DEF PromoteQueuedIfIdle, Sound

\* The queue's reaction to 'professor:online'.
LEMMA ResumeQueueIsLocal ==
    ASSUME NEW w, Sound(w), NEW t \in Teachers, Excused(w, t)
    PROVE  Local(w, ResumeQueue(w, t), t) /\ Excused(ResumeQueue(w, t), t)
<1> DEFINE synced == Synchronize(w, t)
<1>1. w \in Memory
  BY DEF Sound
<1>2. Local(w, synced, t)
  BY <1>1, SetAvailabilityOfIsLocal, LocalReflexive DEF Synchronize
<1>3. Sound(synced)
  <2>1. Calm(w, synced)
    BY <1>1, SetAvailabilityOfIsCalm, CalmReflexive DEF Synchronize, Availabilities
  <2> QED BY <2>1, CalmKeepsSound
<1>4. Excused(synced, t)
  <2>1. CASE Queue(w, t) = {}
    BY <2>1 DEF Synchronize
  <2>2. CASE Queue(w, t) # {}
    <3>1. synced.request = w.request
      BY <1>1, SetAvailabilityOfKeeps DEF Synchronize
    <3> HIDE DEF synced
    <3> QED BY <2>2, <3>1 DEF Excused, Reason, Queue, IsPending
  <2> QED BY <2>1, <2>2
<1> HIDE DEF synced
<1>5. Local(w, PromoteNext(synced, t), t) /\ Excused(PromoteNext(synced, t), t)
  BY <1>2, <1>3, PromoteNextIsLocal, LocalTransitive
<1> QED BY <1>2, <1>4, <1>5 DEF ResumeQueue, synced

\* The end of a session, with the promotion that its listeners make.
LEMMA EndAndPromoteIsLocal ==
    ASSUME NEW w, Sound(w), NEW r \in Requests, IsActive(w, r), TeacherOf(w, r) \in Teachers
    PROVE  /\ Local(w, EndAndPromote(w, r), TeacherOf(w, r))
           /\ Excused(EndAndPromote(w, r), TeacherOf(w, r))
<1> DEFINE t == TeacherOf(w, r)
           finished == FinishSession(w, r)
           promoted == PromoteNext(finished, t)
           disarmed == [promoted EXCEPT !.recovery = @ \ {r}]
<1>1. Sound(finished) /\ Local(w, finished, t)
  BY FinishSessionIsCalm, CalmKeepsSound, SessionCallsAreLocal DEF Sound
<1>2. EndAndPromote(w, r) \in {promoted, disarmed}
  BY DEF EndAndPromote
<1> HIDE DEF finished, t
<1>3. Sound(promoted) /\ Local(finished, promoted, t) /\ Excused(promoted, t)
  BY <1>1, PromoteNextIsSound, PromoteNextIsLocal DEF t
<1>4. Local(w, promoted, t)
  BY <1>1, <1>3, LocalTransitive
<1> HIDE DEF promoted
<1>5. /\ disarmed.request = promoted.request /\ disarmed.professors = promoted.professors
      /\ disarmed.availability = promoted.availability /\ disarmed.session = promoted.session
  BY <1>3 DEF Sound, Memory
<1> HIDE DEF disarmed
<1>6. \A z : Reason(promoted, z) => Reason(disarmed, z)
  BY <1>5, ReasonKept DEF TeacherOf
<1>7. Local(w, disarmed, t)
  BY <1>4, <1>5, <1>6 DEF Local
<1>8. Excused(disarmed, t)
  BY <1>3, <1>5, <1>6 DEF Excused, AvailabilityOf, ProfessorOnline, FindProfessor
<1> QED BY <1>2, <1>3, <1>4, <1>7, <1>8 DEF t

-----------------------------------------------------------------------------
(* Presence *)

\* removeProfessor may bring an entry forward, but never a busy one.
LEMMA RemoveProfessorIsBacked ==
    ASSUME NEW w, Sound(w), NEW open, EntriesAreLive(w, open), Backed(w),
           NEW s \in TeacherSockets
    PROVE  Backed(RemoveProfessor(w, s))
<1> DEFINE t == Owner[s]
           v == RemoveProfessor(w, s)
           left == Without(w.professors[t], s)
<1>1. s \in Sockets /\ t \in Teachers /\ w \in Memory
  BY OwnerType DEF Sound
<1>2. \A z \in Teachers :
         /\ w.professors[z] \in Seq(TeacherSockets) /\ IsInjective(w.professors[z])
         /\ DOMAIN w.professors[z] \subseteq Nat
         /\ \A i \in DOMAIN w.professors[z] : /\ w.professors[z][i] \in Sockets
                                              /\ Owner[w.professors[z][i]] = z
  BY <1>1, OwnerType, ElementOfSeq, LenProperties
  DEF Memory, Sound, EntriesDistinct, EntriesAreLive
<1>3. /\ left \in Seq(TeacherSockets)
      /\ \A i \in DOMAIN left : /\ left[i] # s
                                /\ \E j \in DOMAIN w.professors[t] :
                                      j >= i /\ w.professors[t][j] = left[i]
  BY <1>1, <1>2, WithoutLemma
<1>4. /\ v.request = w.request /\ v.session = w.session
      /\ \A z \in Teachers : v.professors[z] = IF z = t THEN left ELSE w.professors[z]
      /\ \A z \in Sockets : v.availability[z] = IF z = s THEN "offline" ELSE w.availability[z]
  <2> HIDE DEF left
  <2>1. v = [w EXCEPT !.professors[t] = left, !.availability[s] = "offline"]
    BY <1>1 DEF RemoveProfessor, Memory, left
  <2> QED BY <1>1, <2>1 DEF Memory
<1>5. DOMAIN left \subseteq Nat
  BY <1>3, LenProperties
<1> HIDE DEF v, left
<1>6. \A z : Reason(w, z) => Reason(v, z)
  BY <1>4, ReasonKept DEF TeacherOf
<1>7. ASSUME NEW z \in Teachers, NEW i \in DOMAIN v.professors[z],
             v.availability[v.professors[z][i]] = "busy"
      PROVE  /\ i \in DOMAIN w.professors[z] /\ i = 1
             /\ v.professors[z][i] = w.professors[z][i]
             /\ w.availability[w.professors[z][i]] = "busy"
  <2>1. CASE z = t
    <3>1. PICK j \in DOMAIN w.professors[t] : j >= i /\ w.professors[t][j] = left[i]
      BY <1>3, <1>4, <1>7, <2>1
    <3>2. w.availability[w.professors[t][j]] = "busy"
      BY <1>2, <1>3, <1>4, <1>7, <2>1, <3>1
    <3>3. ~(j > 1)
      BY <1>1, <3>1, <3>2 DEF Backed, OnlyFirstBusy
    <3>4. i \in Nat /\ i # 0 /\ j \in Nat
      BY <1>1, <1>2, <1>3, <1>4, <2>1, <3>1, LenProperties
    <3>5. i = j /\ i = 1
      BY <3>1, <3>3, <3>4
    <3> QED BY <1>4, <2>1, <3>1, <3>2, <3>5
  <2>2. CASE z # t
    <3>1. /\ v.professors[z] = w.professors[z] /\ i \in DOMAIN w.professors[z]
          /\ w.availability[w.professors[z][i]] = "busy"
      BY <1>2, <1>4, <1>7, <2>2
    <3>2. ~(i > 1) /\ i \in Nat /\ i # 0
      BY <1>2, <3>1, LenProperties DEF Backed, OnlyFirstBusy
    <3> QED BY <3>1, <3>2
  <2> QED BY <2>1, <2>2
<1>8. OnlyFirstBusy(v)
  <2> SUFFICES ASSUME NEW z \in Teachers, NEW i \in DOMAIN v.professors[z], i > 1,
                      v.availability[v.professors[z][i]] = "busy"
               PROVE  FALSE
    BY DEF OnlyFirstBusy
  <2> QED BY <1>7
<1>9. ASSUME NEW z \in Teachers, AvailabilityOf(v, z) = "busy" PROVE Reason(v, z)
  <2>1. /\ 1 \in DOMAIN v.professors[z] /\ FindProfessor(v, z) = v.professors[z][1]
        /\ v.availability[v.professors[z][1]] = "busy"
    <3>1. v.professors[z] \in Seq(TeacherSockets)
      BY <1>2, <1>3, <1>4
    <3>2. v.professors[z] # <<>>
      BY <1>9 DEF AvailabilityOf, ProfessorOnline, FindProfessor
    <3> QED BY <1>9, <3>1, <3>2 DEF AvailabilityOf, ProfessorOnline, FindProfessor
  <2>2. /\ 1 \in DOMAIN w.professors[z] /\ w.availability[w.professors[z][1]] = "busy"
    BY <1>7, <2>1
  <2>3. AvailabilityOf(w, z) = "busy"
    <3>1. w.professors[z] \in Seq(TeacherSockets) /\ w.professors[z] # <<>>
      BY <1>2, <2>2, EmptySeq
    <3>2. FindProfessor(w, z) = w.professors[z][1] /\ FindProfessor(w, z) # None
      BY <1>2, <2>2, <3>1, PresenceAssumption DEF FindProfessor
    <3> QED BY <2>2, <3>2 DEF AvailabilityOf, ProfessorOnline
  <2> QED BY <1>6, <2>3 DEF Backed, Excused
<1> QED BY <1>8, <1>9 DEF Backed, Excused, v

\* registerProfessor appends an entry that is "available".
LEMMA RegisterProfessorIsBacked ==
    ASSUME NEW w, Sound(w), NEW open, Live(w, open), Backed(w), NEW s \in TeacherSockets
    PROVE  Backed(RegisterProfessor(w, s))
<1> DEFINE t == Owner[s]
           u == RemoveProfessor(w, s)
           v == RegisterProfessor(w, s)
           longer == Append(u.professors[t], s)
<1>1. s \in Sockets /\ t \in Teachers
  BY OwnerType
<1>2. /\ Backed(u) /\ EntriesAreLive(u, open \ {s}) /\ u \in Memory
      /\ Calm(w, u) /\ \A i \in DOMAIN u.professors[t] : u.professors[t][i] # s
  BY RemoveProfessorIsBacked, RemoveProfessorLeaves, RemoveProfessorIsCalm
  DEF Live, Sound, Calm
<1>3. v = [u EXCEPT !.professors[t] = longer, !.availability[s] = "available"]
  BY DEF RegisterProfessor
<1> HIDE DEF u, v
<1>4. \A z \in Teachers :
         /\ u.professors[z] \in Seq(TeacherSockets)
         /\ \A i \in DOMAIN u.professors[z] : /\ u.professors[z][i] \in Sockets
                                              /\ Owner[u.professors[z][i]] = z
  BY <1>2, OwnerType, ElementOfSeq, LenProperties DEF Memory, EntriesAreLive
<1>5. /\ longer \in Seq(TeacherSockets)
      /\ DOMAIN longer = 1..(Len(u.professors[t]) + 1)
      /\ \A i \in 1..Len(u.professors[t]) : longer[i] = u.professors[t][i]
      /\ longer[Len(u.professors[t]) + 1] = s
      /\ Len(u.professors[t]) \in Nat
      /\ DOMAIN u.professors[t] = 1..Len(u.professors[t])
  <2> HIDE DEF t
  <2> QED BY <1>1, <1>4, AppendProperties, LenProperties
<1> HIDE DEF longer
<1>6. /\ v.request = u.request /\ v.session = u.session
      /\ \A z \in Teachers : v.professors[z] = IF z = t THEN longer ELSE u.professors[z]
      /\ \A z \in Sockets : v.availability[z] = IF z = s THEN "available" ELSE u.availability[z]
  BY <1>1, <1>2, <1>3 DEF Memory
<1>7. \A z : Reason(u, z) => Reason(v, z)
  BY <1>6, ReasonKept DEF TeacherOf
<1>8. ASSUME NEW z \in Teachers, NEW i \in DOMAIN v.professors[z],
             v.availability[v.professors[z][i]] = "busy"
      PROVE  /\ i \in DOMAIN u.professors[z]
             /\ v.professors[z][i] = u.professors[z][i]
             /\ u.availability[u.professors[z][i]] = "busy"
  <2>1. CASE z = t
    <3>1. i # Len(u.professors[t]) + 1
      BY <1>1, <1>5, <1>6, <1>8, <2>1
    <3>2. i \in DOMAIN u.professors[t] /\ longer[i] = u.professors[t][i]
      <4> DEFINE n == Len(u.professors[t])
      <4>1. i \in 1..(n + 1) /\ i # n + 1 /\ n \in Nat
        BY <1>5, <1>6, <2>1, <3>1
      <4> HIDE DEF n
      <4>2. i \in 1..n
        BY <4>1
      <4> QED BY <1>5, <4>2 DEF n
    <3> QED BY <1>2, <1>4, <1>6, <1>8, <2>1, <3>2
  <2>2. CASE z # t
    BY <1>4, <1>6, <1>8, <2>2
  <2> QED BY <2>1, <2>2
<1>9. OnlyFirstBusy(v)
  <2> SUFFICES ASSUME NEW z \in Teachers, NEW i \in DOMAIN v.professors[z], i > 1,
                      v.availability[v.professors[z][i]] = "busy"
               PROVE  FALSE
    BY DEF OnlyFirstBusy
  <2> QED BY <1>2, <1>8 DEF Backed, OnlyFirstBusy
<1>10. ASSUME NEW z \in Teachers, AvailabilityOf(v, z) = "busy" PROVE Reason(v, z)
  <2>1. /\ 1 \in DOMAIN v.professors[z] /\ FindProfessor(v, z) = v.professors[z][1]
        /\ v.availability[v.professors[z][1]] = "busy"
    <3>1. v.professors[z] \in Seq(TeacherSockets)
      BY <1>4, <1>5, <1>6
    <3>2. v.professors[z] # <<>>
      BY <1>10 DEF AvailabilityOf, ProfessorOnline, FindProfessor
    <3> QED BY <1>10, <3>1, <3>2 DEF AvailabilityOf, ProfessorOnline, FindProfessor
  <2>2. 1 \in DOMAIN u.professors[z] /\ u.availability[u.professors[z][1]] = "busy"
    BY <1>8, <2>1
  <2>3. AvailabilityOf(u, z) = "busy"
    <3>1. u.professors[z] \in Seq(TeacherSockets) /\ u.professors[z] # <<>>
      BY <1>4, <2>2, EmptySeq
    <3>2. FindProfessor(u, z) = u.professors[z][1] /\ FindProfessor(u, z) # None
      BY <1>4, <2>2, <3>1, PresenceAssumption DEF FindProfessor
    <3> QED BY <2>2, <3>2 DEF AvailabilityOf, ProfessorOnline
  <2> QED BY <1>2, <1>7, <2>3 DEF Backed, Excused
<1> QED BY <1>9, <1>10 DEF Backed, Excused, v

-----------------------------------------------------------------------------
(* What is left *)

\* createRequest makes the professor busy with the request itself.
LEMMA CreateRequestIsLocal ==
    ASSUME NEW w, Sound(w), NEW s, NEW t, NEW r \in Requests,
           w.request[r].status = "none", NEW tick
    PROVE  /\ Local(w, CreateRequest(w, s, t, r, tick), t)
           /\ Excused(CreateRequest(w, s, t, r, tick), t)
<1> DEFINE u == SetAvailabilityOf(w, t, "busy")
           v == CreateRequest(w, s, t, r, tick)
<1>1. /\ w \in Memory /\ u \in Memory /\ Local(w, u, t)
      /\ u.request = w.request /\ u.session = w.session
  BY SetAvailabilityOfIsLocal, SetAvailabilityOfKeeps, SetAvailabilityOfIsCalm
  DEF Calm, Availabilities, Sound
<1> HIDE DEF u
<1>2. /\ v.session = u.session /\ v.professors = u.professors
      /\ v.availability = u.availability
      /\ v.request[r].status = "pending" /\ v.request[r].teacher = t
      /\ \A q \in Requests \ {r} : v.request[q] = u.request[q]
  BY <1>1 DEF CreateRequest, Memory, u
<1> HIDE DEF v
<1>3. ASSUME NEW z \in Teachers \ {t}, Reason(u, z) PROVE Reason(v, z)
  <2>1. TeacherEngaged(u, z) => TeacherEngaged(v, z)
    <3>1. ~IsActive(u, r)
      BY <1>1 DEF Sound, SessionIsAccepted, IsActive, ActiveStates
    <3> QED BY <1>2, <3>1 DEF TeacherEngaged, IsActive, TeacherOf
  <2>2. Queue(u, z) # {} => Queue(v, z) # {}
    <3>1. r \notin Queue(u, z)
      BY <1>1 DEF Queue, IsPending
    <3> QED BY <1>2, <3>1 DEF Queue, IsPending
  <2>3. ASSUME NEW q \in Requests, TeacherOf(u, q) = z, Stranded(u, q)
        PROVE  TeacherOf(v, q) = z /\ Stranded(v, q)
    <3>1. q # r
      BY <1>1, <2>3 DEF Stranded
    <3> QED BY <1>2, <2>3, <3>1 DEF Stranded, TeacherOf
  <2> QED BY <1>3, <2>1, <2>2, <2>3 DEF Reason
<1>4. Local(u, v, t)
  BY <1>2, <1>3 DEF Local
<1>5. r \in Queue(v, t)
  BY <1>2 DEF Queue, IsPending
<1> QED BY <1>1, <1>4, <1>5, LocalTransitive DEF Excused, Reason, v

\* recoverSession makes the professor busy with the session itself.
LEMMA RecoverSessionIsLocal ==
    ASSUME NEW w \in Memory, NEW r \in Requests, NEW s \in Sockets, MayRecover(w, r, s)
    PROVE  /\ Local(w, RecoverSession(w, r, s), TeacherOf(w, r))
           /\ Excused(RecoverSession(w, r, s), TeacherOf(w, r))
<1> DEFINE seated == IF Owner[s] \in Teachers
                     THEN [w.session[r] EXCEPT !.teacherSocket = s]
                     ELSE [w.session[r] EXCEPT !.studentSocket = s]
           recovered == IF Rejoined(seated)
                        THEN [seated EXCEPT !.state = "CONNECTED", !.deadline = "none"]
                        ELSE [seated EXCEPT !.state = "RECOVERING"]
           timers == IF recovered.deadline = "none"
                     THEN w.recovery \ {r} ELSE w.recovery \cup {r}
           v == [w EXCEPT !.session[r] = recovered, !.recovery = timers]
           t == TeacherOf(w, r)
<1>1. w.session[r] \in SessionRecords /\ IsActive(w, r)
  BY DEF Memory, MayRecover
<1>2. DOMAIN seated = DOMAIN w.session[r]
  OBVIOUS
<1> HIDE DEF seated
<1>3. recovered.state \in ActiveStates
  BY <1>1, <1>2 DEF SessionRecords, ActiveStates
<1> HIDE DEF recovered, timers
<1>4. /\ v.request = w.request /\ v.professors = w.professors
      /\ v.availability = w.availability /\ v.session[r] = recovered
      /\ \A q \in Requests \ {r} : v.session[q] = w.session[q]
      /\ DOMAIN v = DOMAIN w
  BY DEF Memory
<1>5. RecoverSession(w, r, s) = SetAvailabilityOf(v, t, "busy")
  BY DEF RecoverSession, seated, recovered, timers
<1> HIDE DEF v
<1>6. \A z : Reason(w, z) => Reason(v, z)
  BY <1>1, <1>3, <1>4, ReasonKept DEF TeacherOf, IsActive
<1>7. Local(w, v, t)
  BY <1>4, <1>6 DEF Local
<1> DEFINE u == SetAvailabilityOf(v, t, "busy")
<1>8. /\ u.request = v.request /\ u.session = v.session /\ u.professors = v.professors
      /\ \A z \in Sockets : u.availability[z] = v.availability[z] \/ z = FindProfessor(v, t)
  BY <1>4 DEF SetAvailabilityOf, SetAvailability, Memory
<1> HIDE DEF u
<1>9. \A z : Reason(v, z) => Reason(u, z)
  BY <1>8, ReasonKept DEF TeacherOf
<1>10. Local(v, u, t)
  BY <1>8, <1>9 DEF Local
<1>11. IsActive(u, r) /\ TeacherOf(u, r) = t
  BY <1>3, <1>4, <1>8 DEF IsActive, TeacherOf
<1>12. Reason(u, t)
  BY <1>11 DEF Reason, TeacherEngaged
<1> QED BY <1>5, <1>7, <1>10, <1>12, LocalTransitive DEF Excused, u

\* A lost socket leaves its sessions active.
LEMMA DropSocketIsBacked ==
    ASSUME NEW w, Sound(w), Backed(w), NEW s \in Sockets
    PROVE  Backed(DropSocket(w, s))
<1> DEFINE v == DropSocket(w, s)
<1>1. /\ v.request = w.request /\ v.professors = w.professors
      /\ v.availability = w.availability
      /\ \A r \in Requests : \/ v.session[r] = w.session[r]
                             \/ IsActive(w, r) /\ v.session[r].state = "RECONNECTING"
  BY DEF DropSocket, Sound, Memory, Interrupted
<1> HIDE DEF v
<1>2. \A z : Reason(w, z) => Reason(v, z)
  BY <1>1, ReasonKept DEF TeacherOf, IsActive, ActiveStates
<1>3. Backed(v)
  BY <1>1, <1>2, QuietlyBacked
<1> QED BY <1>3 DEF v

\* The presence of students has no say in it.
LEMMA StudentPresenceIsBacked ==
    ASSUME NEW w, Sound(w), Backed(w), NEW s \in Sockets
    PROVE  /\ Backed(RegisterStudent(w, s))
           /\ Backed(RemoveStudent(w, s))
           /\ Backed(MarkReconnecting(w, s))
<1>1. ASSUME NEW v, v.request = w.request, v.professors = w.professors,
             v.availability = w.availability, v.session = w.session
      PROVE  Backed(v)
  <2>1. \A z : Reason(w, z) => Reason(v, z)
    BY <1>1, ReasonKept DEF TeacherOf
  <2> QED BY <1>1, <2>1, QuietlyBacked
<1>2. Backed(RegisterStudent(w, s))
  BY <1>1 DEF RegisterStudent, Sound, Memory
<1>3. Backed(RemoveStudent(w, s))
  BY <1>1 DEF RemoveStudent, Sound, Memory
<1>4. Backed(MarkReconnecting(w, s))
  BY <1>1 DEF MarkReconnecting, Sound, Memory
<1> QED BY <1>2, <1>3, <1>4

\* With no professor registered, none is busy.
LEMMA NobodyIsBacked ==
    ASSUME NEW w, w.professors = NoProfessors
    PROVE  Backed(w)
<1>1. \A t \in Teachers : w.professors[t] = <<>> /\ DOMAIN w.professors[t] = {}
  BY DEF NoProfessors
<1> QED BY <1>1 DEF Backed, OnlyFirstBusy, Excused, AvailabilityOf, ProfessorOnline,
                    FindProfessor

-----------------------------------------------------------------------------
(* The invariance *)

\* Every step of Next keeps it.
LEMMA NextBacked ==
    ASSUME Inv, Live(server, connected), Backed(server), [Next]_vars
    PROVE  Backed(server')
<1>0. /\ server \in Memory /\ EntriesDistinct(server) /\ Sound(server)
      /\ EntriesAreLive(server, connected)
  BY DEF Inv, Sound, Live
<1>a. ASSUME NEW t \in Teachers, Local(server, server', t), Excused(server', t)
      PROVE  Backed(server')
  BY <1>0, <1>a, LocalKeepsBacked
<1>b. ASSUME NEW r \in Requests, IsPending(server, r) PROVE TeacherOf(server, r) \in Teachers
  BY <1>0, <1>b, PendingLemma DEF TeacherOf
<1>c. ASSUME NEW r \in Requests, IsActive(server, r) PROVE TeacherOf(server, r) \in Teachers
  <2>1. server.request[r].status = "accepted"
    BY <1>0, <1>c DEF Sound, SessionIsAccepted, IsActive, ActiveStates
  <2> QED BY <1>0, <2>1 DEF Memory, RequestRecords, NoRequest, TeacherOf
<1>1. ASSUME NEW s \in Sockets, Connect(s) PROVE Backed(server')
  BY <1>1 DEF Connect
<1>2. ASSUME NEW s \in Sockets, TeacherDisconnects(s) PROVE Backed(server')
  <2> DEFINE gone == RemoveProfessor(server, s)
  <2>1. s \in TeacherSockets
    BY <1>2 DEF TeacherDisconnects
  <2>2. Sound(gone) /\ Backed(gone)
    BY <1>0, <2>1, RemoveProfessorIsCalm, CalmKeepsSound, RemoveProfessorIsBacked
  <2> HIDE DEF gone
  <2> QED BY <1>2, <2>2, DropSocketIsBacked DEF TeacherDisconnects, gone
<1>3. ASSUME NEW s \in Sockets, StudentDisconnects(s) PROVE Backed(server')
  <2>1. s \in StudentSockets
    BY <1>3 DEF StudentDisconnects
  <2>2. /\ Sound(RemoveStudent(server, s)) /\ Backed(RemoveStudent(server, s))
        /\ Sound(MarkReconnecting(server, s)) /\ Backed(MarkReconnecting(server, s))
    BY <1>0, <2>1, StudentPresenceIsCalm, CalmKeepsSound, StudentPresenceIsBacked
  <2> QED BY <1>3, <2>2, DropSocketIsBacked DEF StudentDisconnects
<1>4. ASSUME NEW s \in Sockets, ProfessorComesOnline(s) PROVE Backed(server')
  <2> DEFINE w == RegisterProfessor(server, s)
             t == Owner[s]
  <2>1. s \in TeacherSockets /\ s \in connected /\ t \in Teachers
    BY <1>4, OwnerType DEF ProfessorComesOnline
  <2>2. Sound(w) /\ Live(w, connected) /\ Backed(w)
    BY <1>0, <2>1, RegisterProfessorIsCalm, CalmKeepsSound, RegisterProfessorKeepsLive,
       RegisterProfessorIsBacked
  <2>3. server' = server \/ server' = ResumeQueue(w, t)
    BY <1>4 DEF ProfessorComesOnline
  <2> HIDE DEF w, t
  <2>4. Backed(ResumeQueue(w, t))
    BY <2>1, <2>2, ResumeQueueIsLocal, LocalKeepsBacked DEF Live, Backed
  <2> QED BY <2>3, <2>4
<1>5. ASSUME NEW s \in Sockets, ProfessorSetsAvailability(s) PROVE Backed(server')
  <2>1. PICK a \in {"available", "unavailable"} : server' = SetAvailability(server, s, a)
    BY <1>5 DEF ProfessorSetsAvailability
  <2>2. /\ server'.request = server.request /\ server'.session = server.session
        /\ server'.professors = server.professors
        /\ \A z \in Sockets : server'.availability[z] = IF z = s THEN a
                                                       ELSE server.availability[z]
    BY <1>0, <2>1 DEF SetAvailability, Memory
  <2>3. \A z : Reason(server, z) => Reason(server', z)
    BY <2>2, ReasonKept DEF TeacherOf
  <2> QED BY <1>0, <2>2, <2>3, QuietlyBacked
<1>6. ASSUME NEW s \in Sockets, ProfessorHeartbeatExpires(s) PROVE Backed(server')
  BY <1>0, <1>6, RemoveProfessorIsBacked DEF ProfessorHeartbeatExpires
<1>7. ASSUME NEW s \in Sockets, StudentRegisters(s) PROVE Backed(server')
  BY <1>0, <1>7, StudentPresenceIsBacked DEF StudentRegisters
<1>8. ASSUME NEW x \in Students, StudentEntryRemoved(x) PROVE Backed(server')
  <2>1. server.student[x].socket \in Sockets
    BY <1>0, <1>8, OwnerType DEF StudentEntryRemoved, Memory, StudentEntries
  <2> QED BY <1>0, <1>8, <2>1, StudentPresenceIsBacked DEF StudentEntryRemoved
<1>9. ASSUME NEW s \in Sockets, NEW t \in Teachers, RequestSession(s, t)
      PROVE  Backed(server')
  <2>1. PICK r \in Requests, tick \in BOOLEAN :
           /\ server.request[r].status = "none"
           /\ server' = CreateRequest(server, s, t, r, tick)
    BY <1>9 DEF RequestSession, Unused
  <2> QED BY <1>0, <1>a, <2>1, CreateRequestIsLocal
<1>10. ASSUME NEW s \in Sockets, NEW r \in Requests, Accept(s, r) PROVE Backed(server')
  <2> DEFINE w == SettleRequest(server, r, "accepted")
             t == TeacherOf(server, r)
  <2>1. IsPending(server, r) /\ t \in Teachers
    BY <1>10, <1>b DEF Accept, MayAnswer
  <2>2. /\ Calm(server, w) /\ Local(server, w, t) /\ w.request[r].status = "accepted"
        /\ TeacherOf(w, r) = t
    BY <1>0, <2>1, SettleRequestIsCalm, SettleRequestIsLocal DEF Calm, Statuses
  <2>3. server' = IF MayStart(w, r) THEN CreateSession(w, r) ELSE w
    BY <1>10 DEF Accept, CompleteRequest
  <2>4. w.session[r].state = "none"
    BY <1>0, <2>1, <2>2 DEF Sound, SessionIsAccepted, IsPending, Calm, IsActive, ActiveStates
  <2> HIDE DEF w, t
  <2>5. Sound(w)
    BY <1>0, <2>2, CalmKeepsSound
  <2>6. CASE MayStart(w, r)
    <3>1. Local(w, server', t) /\ IsActive(server', r) /\ TeacherOf(server', r) = t
      BY <2>2, <2>3, <2>5, <2>6, SessionCallsAreLocal, CreateSessionKeepsRequests
      DEF TeacherOf
    <3>2. Local(server, server', t) /\ Excused(server', t)
      BY <2>2, <3>1, LocalTransitive DEF Excused, Reason, TeacherEngaged
    <3> QED BY <1>a, <2>1, <3>2
  <2>7. CASE ~MayStart(w, r)
    <3>1. Excused(w, t)
      BY <2>2, <2>4 DEF Excused, Reason, Stranded
    <3> QED BY <1>a, <2>1, <2>2, <2>3, <2>7, <3>1
  <2> QED BY <2>6, <2>7
<1>11. ASSUME NEW s \in Sockets, NEW r \in Requests, Reject(s, r) PROVE Backed(server')
  <2> DEFINE w == SettleRequest(server, r, "rejected")
             t == TeacherOf(server, r)
  <2>1. IsPending(server, r) /\ t \in Teachers
    BY <1>11, <1>b DEF Reject, MayAnswer
  <2>2. w \in Memory /\ Local(server, w, t)
    BY <1>0, <2>1, SettleRequestIsCalm, SettleRequestIsLocal DEF Calm, Statuses
  <2>3. server' = ReleaseIfQueueEmpty(w, t)
    BY <1>11 DEF Reject, CompleteRequest, TeacherOf
  <2> HIDE DEF w, t
  <2>4. Local(server, server', t) /\ Excused(server', t)
    BY <2>1, <2>2, <2>3, ReleaseIsLocal, LocalTransitive
  <2> QED BY <1>a, <2>1, <2>4
<1>12. ASSUME NEW r \in Requests, IsPending(server, r), NEW status \in {"cancelled", "expired"},
              server' = PromoteQueuedIfIdle(TransitionWithoutActor(server, r, status),
                                            TeacherOf(server, r))
       PROVE  Backed(server')
  <2> DEFINE w == SettleRequest(server, r, status)
             v == TransitionWithoutActor(server, r, status)
             t == TeacherOf(server, r)
  <2>1. t \in Teachers
    BY <1>12, <1>b
  <2>2. w \in Memory /\ Local(server, w, t)
    BY <1>0, <1>12, SettleRequestIsCalm, SettleRequestIsLocal DEF Calm, Statuses
  <2>3. v \in {w, ReleaseIfQueueEmpty(w, t)}
    BY DEF TransitionWithoutActor, TeacherOf
  <2>4. Sound(v)
    BY <1>0, <1>12, TransitionWithoutActorIsCalm, CalmKeepsSound
  <2> HIDE DEF w, v, t
  <2>5. Local(server, v, t)
    BY <2>1, <2>2, <2>3, ReleaseIsLocal, LocalTransitive
  <2>6. /\ Local(v, PromoteQueuedIfIdle(v, t), t)
        /\ Excused(PromoteQueuedIfIdle(v, t), t)
    BY <2>1, <2>4, PromoteQueuedIfIdleIsLocal
  <2>7. server' = PromoteQueuedIfIdle(v, t)
    BY <1>12 DEF v, t
  <2> QED BY <1>a, <2>1, <2>5, <2>6, <2>7, LocalTransitive
<1>13. ASSUME NEW s \in Sockets, NEW r \in Requests, Cancel(s, r) PROVE Backed(server')
  BY <1>12, <1>13 DEF Cancel
<1>14. ASSUME NEW r \in Requests, RequestExpires(r) PROVE Backed(server')
  BY <1>12, <1>14 DEF RequestExpires
<1>15. ASSUME NEW s \in Sockets, NEW r \in Requests, EndSession(s, r) PROVE Backed(server')
  BY <1>0, <1>15, <1>a, <1>c, EndAndPromoteIsLocal DEF EndSession
<1>16. ASSUME NEW s \in Sockets, NEW r \in Requests, Recover(s, r) PROVE Backed(server')
  BY <1>0, <1>16, <1>a, <1>c, RecoverSessionIsLocal DEF Recover, MayRecover
<1>17. ASSUME NEW r \in Requests, Elapse(r) PROVE Backed(server')
  <2>1. /\ server'.request = server.request /\ server'.professors = server.professors
        /\ server'.availability = server.availability
        /\ \A q \in Requests : server'.session[q].state = server.session[q].state
    BY <1>0, <1>17 DEF Elapse, Memory, SessionRecords
  <2>2. \A z : Reason(server, z) => Reason(server', z)
    BY <2>1, ReasonKept DEF TeacherOf
  <2> QED BY <1>0, <2>1, <2>2, QuietlyBacked
<1>18. ASSUME NEW r \in Requests, RecoveryTimerFires(r) PROVE Backed(server')
  BY <1>0, <1>18, <1>a, <1>c, EndAndPromoteIsLocal DEF RecoveryTimerFires, RecoveryIsOver
<1>19. ASSUME NEW r \in Requests, RecoveryTimerIdle(r) PROVE Backed(server')
  <2>1. /\ server'.request = server.request /\ server'.professors = server.professors
        /\ server'.availability = server.availability /\ server'.session = server.session
    BY <1>0, <1>19 DEF RecoveryTimerIdle, Memory
  <2>2. \A z : Reason(server, z) => Reason(server', z)
    BY <2>1, ReasonKept DEF TeacherOf
  <2> QED BY <1>0, <2>1, <2>2, QuietlyBacked
<1>20. ASSUME Restart PROVE Backed(server')
  BY <1>20, NobodyIsBacked DEF Restart, Restarted
<1>21. CASE UNCHANGED vars
  BY <1>21 DEF vars
<1>22. TransportEvent => Backed(server')
  BY <1>1, <1>2, <1>3 DEF TransportEvent
<1>23. PresenceEvent => Backed(server')
  BY <1>4, <1>5, <1>6, <1>7, <1>8 DEF PresenceEvent
<1>24. RequestEvent => Backed(server')
  BY <1>9, <1>10, <1>11, <1>13, <1>14 DEF RequestEvent
<1>25. SessionEvent => Backed(server')
  BY <1>15, <1>16, <1>17, <1>18, <1>19 DEF SessionEvent
<1> QED BY <1>20, <1>21, <1>22, <1>23, <1>24, <1>25 DEF Next

\* "busy" always has a reason: an attendance, a queue, or a request accepted for
\* a student who could not start a session (createRequest, completeRequest,
\* finishSession, promoteNext).  The induction needs to know that no entry but
\* the first is ever busy: the loss of the first brings the second forward.
THEOREM BusyStaysExcused == Spec => []BusyHasReason
<1>1. Init => Backed(server)
  BY NobodyIsBacked DEF Init
<1>2. Inv /\ Live(server, connected) /\ Backed(server) /\ [Next]_vars => Backed(server)'
  BY NextBacked
<1>3. Backed(server) => BusyHasReason
  BY DEF Backed, Excused, Reason, Stranded, BusyHasReason
<1> QED BY <1>1, <1>2, <1>3, Invariance, LiveInvariance, PTL DEF Spec

-----------------------------------------------------------------------------
(***************************************************************************)
(* What a handler does to the requests from one state to the next, for any *)
(* number of users, sockets and requests: the queue of a professor is      *)
(* served in order, the end of a session hands the professor over to the   *)
(* next request, and every request goes through the life Booking allows.   *)
(***************************************************************************)

(* Order of the queue                                                      *)

\* No two requests are each before the other.
LEMMA BeforeAsymmetric ==
    ASSUME NEW w \in Memory, NEW p \in Requests, NEW q \in Requests,
           Before(w, p, q), Before(w, q, p)
    PROVE  FALSE
<1>1. w.request[p].createdAt \in Nat /\ w.request[q].createdAt \in Nat
  BY DEF Memory, RequestRecords, NoRequest
<1>2. p \in Nat /\ q \in Nat
  BY RequestsAssumption
<1> QED BY <1>1, <1>2 DEF Before

\* The first of a queue has nobody before it.
LEMMA HeadIsFirst ==
    ASSUME NEW w \in Memory, NEW queue \in SUBSET Requests, NEW q \in queue,
           Before(w, q, HeadOf(w, queue))
    PROVE  FALSE
<1>1. \A r \in Requests : w.request[r].createdAt \in Nat
  BY DEF Memory, RequestRecords, NoRequest
<1>2. /\ HeadOf(w, queue) \in queue
      /\ \A p \in queue \ {HeadOf(w, queue)} : Before(w, HeadOf(w, queue), p)
  BY <1>1, HeadOfLemma
<1>3. HeadOf(w, queue) # q
  <2> SUFFICES ASSUME Before(w, q, q) PROVE FALSE
    OBVIOUS
  <2> QED BY BeforeAsymmetric
<1> QED BY <1>2, <1>3, BeforeAsymmetric

\* The loop of acceptNextRequest expires what is before the request it accepts.
LEMMA ExpireSkippedStatus ==
    ASSUME NEW w \in Memory, NEW t, NEW q \in Requests
    PROVE  ExpireSkipped(w, t).request[q].status =
              IF q \in Skipped(w, t) THEN "expired" ELSE w.request[q].status
<1> DEFINE settled == Settled(w.request[q], "expired")
<1>1. w.request[q] \in RequestRecords
  BY DEF Memory
<1>2. settled.status = "expired"
  BY <1>1 DEF Settled, RequestRecords, NoRequest
<1>3. ExpireSkipped(w, t).request[q] = IF q \in Skipped(w, t) THEN settled ELSE w.request[q]
  BY DEF ExpireSkipped, Memory
<1> HIDE DEF settled
<1> QED BY <1>2, <1>3

\* What acceptNextForTeacher accepts is the first reachable of its queue, and
\* what it skips expires.
LEMMA AcceptNextServes ==
    ASSUME NEW w \in Memory, NEW t, CanCallNext(w, t)
    PROVE  LET called == AcceptNext(w, t)
               next == NextReachable(w, t)
           IN  /\ \A q \in Requests : called.request[q].status =
                     IF q = next THEN "accepted"
                     ELSE IF q \in Skipped(w, t) THEN "expired" ELSE w.request[q].status
               /\ \A q \in Queue(w, t) : Before(w, q, next) =>
                     q \in Skipped(w, t) /\ ~StudentOnline(w, StudentOf(w, q))
<1> DEFINE left == ExpireSkipped(w, t)
           next == NextReachable(w, t)
           called == AcceptNext(w, t)
           settled == Settled(left.request[next], "accepted")
<1>1. next \in Requests \ Skipped(w, t) /\ left \in Memory
  BY NextReachableLemma, ExpireSkippedIsCalm DEF Calm
<1>2. called = SettleRequest(left, next, "accepted")
  BY DEF AcceptNext, CompleteRequest
<1>3. \A q \in Requests : left.request[q].status =
         IF q \in Skipped(w, t) THEN "expired" ELSE w.request[q].status
  BY ExpireSkippedStatus
<1> HIDE DEF left, next, called
<1>4. settled.status = "accepted"
  <2>1. left.request[next] \in RequestRecords
    BY <1>1 DEF Memory
  <2> QED BY <2>1 DEF Settled, RequestRecords, NoRequest
<1>5. \A q \in Requests : called.request[q] = IF q = next THEN settled ELSE left.request[q]
  BY <1>1, <1>2 DEF SettleRequest, Memory
<1> HIDE DEF settled
<1>6. \A q \in Requests : called.request[q].status =
         IF q = next THEN "accepted"
         ELSE IF q \in Skipped(w, t) THEN "expired" ELSE w.request[q].status
  BY <1>3, <1>4, <1>5
<1>7. ASSUME NEW q \in Queue(w, t), Before(w, q, next)
      PROVE  q \in Skipped(w, t) /\ ~StudentOnline(w, StudentOf(w, q))
  <2>1. Reachable(w, t) # {} /\ Reachable(w, t) \in SUBSET Requests
    BY DEF CanCallNext, Reachable, Queue
  <2>2. q \in Skipped(w, t)
    BY <1>7, <2>1 DEF Skipped, next
  <2>3. q \notin Reachable(w, t)
    BY <1>7, <2>1, HeadIsFirst DEF next, NextReachable
  <2> QED BY <2>2, <2>3 DEF Reachable, StudentOf
<1> QED BY <1>6, <1>7 DEF called, next

\* What a step may do to the requests that wait: ServedInOrder, of two memories.
InOrder(w, v) ==
    \A r, q \in Requests :
        /\ IsPending(w, r) /\ v.request[r].status = "accepted"
        /\ IsPending(w, q) /\ TeacherOf(w, q) = TeacherOf(w, r)
        /\ Before(w, q, r)
        => /\ v.request[q].status \in {"cancelled", "expired"}
           /\ v.request[q].status = "cancelled"
                  \/ q \in w.expiry
                  \/ ~StudentOnline(w, StudentOf(w, q))

NobodyAccepted(w, v) ==
    \A r \in Requests : IsPending(w, r) => v.request[r].status # "accepted"

\* From w to u at most one request was withdrawn, or expired by its timer.
Withdrawn(w, u) ==
    /\ u.student = w.student
    /\ \A r \in Requests :
          /\ u.request[r].createdAt = w.request[r].createdAt
          /\ TeacherOf(u, r) = TeacherOf(w, r)
          /\ StudentOf(u, r) = StudentOf(w, r)
          /\ IsPending(u, r) => IsPending(w, r)
          /\ IsPending(w, r) => \/ IsPending(u, r)
                                \/ u.request[r].status = "cancelled"
                                \/ u.request[r].status = "expired" /\ r \in w.expiry

\* promoteNext, whatever it does about sessions.
LEMMA PromoteNextStatus ==
    ASSUME NEW w, Sound(w), NEW t
    PROVE  /\ CanCallNext(w, t) => PromoteNext(w, t).request = AcceptNext(w, t).request
           /\ ~CanCallNext(w, t) => \A q \in Requests :
                 PromoteNext(w, t).request[q].status \in {"expired", w.request[q].status}
           /\ \A q \in Requests : ~IsPending(w, q) =>
                 PromoteNext(w, t).request[q].status = w.request[q].status
<1>1. w \in Memory
  BY DEF Sound
<1>2. CASE CanCallNext(w, t)
  <2> DEFINE called == AcceptNext(w, t)
             r == NextReachable(w, t)
  <2>1. /\ r \in Requests /\ IsPending(w, r) /\ Calm(w, called)
        /\ \A q \in Requests : called.request[q].status =
              IF q = r THEN "accepted"
              ELSE IF q \in Skipped(w, t) THEN "expired" ELSE w.request[q].status
    BY <1>1, <1>2, NextReachableLemma, AcceptNextIsCalm, AcceptNextServes
  <2>2. PromoteNext(w, t) = IF MayStart(called, r) THEN CreateSession(called, r) ELSE called
    BY <1>2 DEF PromoteNext
  <2>3. \A q \in Requests : ~IsPending(w, q) => q # r /\ q \notin Skipped(w, t)
    BY <2>1 DEF Skipped, Queue
  <2> HIDE DEF called, r
  <2>4. PromoteNext(w, t).request = called.request
    BY <2>1, <2>2, CalmKeepsSound, CreateSessionKeepsRequests
  <2> QED BY <1>2, <2>1, <2>3, <2>4 DEF called
<1>3. CASE ~CanCallNext(w, t)
  <2> DEFINE swept == ExpireSkipped(w, t)
             left == IF AvailabilityOf(w, t) \in {"available", "busy"}
                     THEN ExpireQueue(w, t) ELSE w
  <2>1. swept \in Memory /\ \A q \in Requests : swept.request[q].status =
           IF q \in Skipped(w, t) THEN "expired" ELSE w.request[q].status
    BY <1>1, ExpireSkippedIsCalm, ExpireSkippedStatus DEF Calm
  <2>2. \A q \in Requests : ~IsPending(w, q) => q \notin Skipped(w, t)
    BY DEF Skipped, Queue
  <2>3. PromoteNext(w, t) = IF TeacherEngaged(left, t) THEN left
                            ELSE ReleaseIfQueueEmpty(left, t)
    BY <1>3 DEF PromoteNext
  <2>4. left.request \in {swept.request, w.request} /\ left \in Memory
    <3> HIDE DEF swept
    <3>1. \A a : SetAvailabilityOf(swept, t, a).request = swept.request
      BY <2>1, SetAvailabilityOfKeeps
    <3>2. left \in Memory
      BY <1>1, ExpireQueueIsCalm DEF Calm
    <3> QED BY <3>1, <3>2 DEF ExpireQueue, swept
  <2> HIDE DEF left, swept
  <2>5. PromoteNext(w, t).request = left.request
    BY <2>3, <2>4, SetAvailabilityOfKeeps DEF ReleaseIfQueueEmpty
  <2> QED BY <1>3, <2>1, <2>2, <2>4, <2>5
<1> QED BY <1>2, <1>3

\* A withdrawal, and the promotion that follows it.
LEMMA PromoteNextInOrder ==
    ASSUME NEW w, Sound(w), NEW u, Sound(u), Withdrawn(w, u), NEW t
    PROVE  InOrder(w, PromoteNext(u, t))
<1> DEFINE v == PromoteNext(u, t)
           next == NextReachable(u, t)
<1>1. w \in Memory /\ u \in Memory
  BY DEF Sound
<1> SUFFICES ASSUME NEW r \in Requests, NEW q \in Requests,
                    IsPending(w, r), v.request[r].status = "accepted",
                    IsPending(w, q), TeacherOf(w, q) = TeacherOf(w, r), Before(w, q, r)
             PROVE  /\ v.request[q].status \in {"cancelled", "expired"}
                    /\ v.request[q].status = "cancelled"
                         \/ q \in w.expiry
                         \/ ~StudentOnline(w, StudentOf(w, q))
  BY DEF InOrder
<1>2. /\ IsPending(u, r)
  BY PromoteNextStatus DEF Withdrawn, IsPending
<1>3. CanCallNext(u, t)
  BY <1>2, PromoteNextStatus DEF IsPending
<1>4. /\ \A p \in Requests : v.request[p].status =
            IF p = next THEN "accepted"
            ELSE IF p \in Skipped(u, t) THEN "expired" ELSE u.request[p].status
      /\ \A p \in Queue(u, t) : Before(u, p, next) =>
            p \in Skipped(u, t) /\ ~StudentOnline(u, StudentOf(u, p))
      /\ next \in Queue(u, t) \ Skipped(u, t)
  BY <1>1, <1>3, PromoteNextStatus, AcceptNextServes, NextReachableLemma
<1> HIDE DEF v, next
<1>5. r = next
  BY <1>2, <1>4 DEF IsPending
<1>6. TeacherOf(u, q) = t /\ Before(u, q, next)
  BY <1>4, <1>5 DEF Withdrawn, Queue, TeacherOf, Before
<1>7. CASE IsPending(u, q)
  <2>1. q \in Queue(u, t)
    BY <1>6, <1>7 DEF Queue, TeacherOf
  <2>2. q \in Skipped(u, t) /\ ~StudentOnline(u, StudentOf(u, q)) /\ q # next
    BY <1>4, <1>6, <2>1
  <2>3. ~StudentOnline(w, StudentOf(w, q))
    BY <2>2 DEF StudentOnline, Withdrawn
  <2> QED BY <1>4, <2>2, <2>3
<1>8. CASE ~IsPending(u, q)
  <2>1. v.request[q].status = u.request[q].status
    BY <1>8, PromoteNextStatus DEF v
  <2> QED BY <1>8, <2>1 DEF Withdrawn
<1> QED BY <1>7, <1>8

\* Calls that leave requests and students alone.
LEMMA NothingWithdrawn ==
    ASSUME NEW w, NEW u, u.request = w.request, u.student = w.student
    PROVE  Withdrawn(w, u)
BY DEF Withdrawn, TeacherOf, StudentOf, IsPending

\* Withdrawals serve nobody.
LEMMA WithdrawnInOrder ==
    ASSUME NEW w, NEW u, NobodyAccepted(w, u)
    PROVE  InOrder(w, u)
BY DEF InOrder, NobodyAccepted

\* cancelRequest and the expiration timer
LEMMA TransitionWithdraws ==
    ASSUME NEW w \in Memory, NEW r \in Requests, IsPending(w, r), NEW status,
           status = "cancelled" \/ (status = "expired" /\ r \in w.expiry)
    PROVE  Withdrawn(w, TransitionWithoutActor(w, r, status))
<1> DEFINE u == SettleRequest(w, r, status)
           settled == Settled(w.request[r], status)
           v == ReleaseIfQueueEmpty(u, w.request[r].teacher)
<1>1. /\ settled.status = status /\ settled.teacher = w.request[r].teacher
      /\ settled.student = w.request[r].student
      /\ settled.createdAt = w.request[r].createdAt
  BY PendingLemma DEF Settled
<1>2. /\ u.student = w.student
      /\ \A q \in Requests : u.request[q] = IF q = r THEN settled ELSE w.request[q]
  BY DEF SettleRequest, Memory
<1>3. u \in Memory
  BY SettleRequestIsCalm DEF Calm, Statuses
<1> HIDE DEF u, settled
<1>4. Withdrawn(w, u)
  BY <1>1, <1>2 DEF Withdrawn, TeacherOf, StudentOf, IsPending
<1>5. v.request = u.request /\ v.student = u.student
  BY <1>3, ReleaseIsQuiet, SetAvailabilityOfKeeps DEF ReleaseIfQueueEmpty, Quiet
<1> HIDE DEF v
<1>6. Withdrawn(w, v)
  BY <1>4, <1>5 DEF Withdrawn, TeacherOf, StudentOf, IsPending
<1> QED BY <1>4, <1>6 DEF TransitionWithoutActor, u, v

\* promoteQueuedIfIdle
LEMMA PromoteQueuedIfIdleInOrder ==
    ASSUME NEW w, Sound(w), NEW u, Sound(u), Withdrawn(w, u), NEW t
    PROVE  InOrder(w, PromoteQueuedIfIdle(u, t))
<1>1. NobodyAccepted(w, u)
  BY DEF Withdrawn, NobodyAccepted, IsPending
<1>2. ReleaseIfQueueEmpty(u, t).request = u.request
  BY SetAvailabilityOfKeeps DEF ReleaseIfQueueEmpty, Sound
<1>3. NobodyAccepted(w, ReleaseIfQueueEmpty(u, t))
  BY <1>1, <1>2 DEF NobodyAccepted
<1> QED BY <1>1, <1>3, WithdrawnInOrder, PromoteNextInOrder DEF PromoteQueuedIfIdle

\* The queue's reaction to 'professor:online'.
LEMMA ResumeQueueInOrder ==
    ASSUME NEW w, Sound(w), NEW u, Sound(u), u.request = w.request,
           u.student = w.student, NEW t
    PROVE  InOrder(w, ResumeQueue(u, t))
<1> DEFINE synced == Synchronize(u, t)
<1>1. Quiet(u, synced) /\ synced.request = u.request
  BY SetAvailabilityIsQuiet, SetAvailabilityOfKeeps, QuietReflexive
  DEF Synchronize, Sound, Availabilities
<1> HIDE DEF synced
<1>2. Sound(synced) /\ Withdrawn(w, synced)
  BY <1>1, CalmKeepsSound, NothingWithdrawn DEF Quiet
<1>3. NobodyAccepted(w, synced)
  BY <1>1 DEF NobodyAccepted, IsPending
<1> QED BY <1>2, <1>3, WithdrawnInOrder, PromoteNextInOrder DEF ResumeQueue, synced

\* finishSession disturbs no request.
LEMMA FinishSessionKeeps ==
    ASSUME NEW w \in Memory, NEW r \in Requests, IsActive(w, r)
    PROVE  LET v == FinishSession(w, r)
           IN  /\ v.request = w.request /\ v.student = w.student
               /\ v.professors = w.professors
               /\ v.session[r].state = "FINISHED"
               /\ \A q \in Requests \ {r} : v.session[q] = w.session[q]
<1> DEFINE over == [w EXCEPT !.session[r] = [NoSession EXCEPT !.state = "FINISHED"]]
           v == SetAvailabilityOf(over, TeacherOf(w, r), "available")
<1>1. /\ over.request = w.request /\ over.professors = w.professors
      /\ over.student = w.student /\ over \in Memory
      /\ \A q \in Requests \ {r} : over.session[q] = w.session[q]
      /\ over.session[r].state = "FINISHED"
  BY DEF Memory, NoSession, SessionRecords
<1> HIDE DEF over
<1>2. /\ v.request = over.request /\ v.session = over.session
      /\ v.professors = over.professors /\ v.student = over.student
  BY <1>1, SetAvailabilityOfKeeps, SetAvailabilityIsQuiet DEF Quiet, Availabilities
<1> QED BY <1>1, <1>2 DEF FinishSession, over

\* What EndAndPromote leaves is what promoteNext leaves, but for a timer.
LEMMA EndAndPromoteLeaves ==
    ASSUME NEW w, Sound(w), NEW r \in Requests, IsActive(w, r)
    PROVE  LET promoted == PromoteNext(FinishSession(w, r), TeacherOf(w, r))
               v == EndAndPromote(w, r)
           IN  /\ Sound(FinishSession(w, r)) /\ Sound(promoted)
               /\ v.request = promoted.request /\ v.session = promoted.session
               /\ v.student = promoted.student /\ v.professors = promoted.professors
<1> DEFINE promoted == PromoteNext(FinishSession(w, r), TeacherOf(w, r))
           disarmed == [promoted EXCEPT !.recovery = @ \ {r}]
<1>1. Sound(FinishSession(w, r))
  BY FinishSessionIsCalm, CalmKeepsSound DEF Sound
<1>2. Sound(promoted)
  BY <1>1, PromoteNextIsSound
<1>3. EndAndPromote(w, r) \in {promoted, disarmed}
  BY DEF EndAndPromote
<1> HIDE DEF promoted
<1>4. /\ disarmed.request = promoted.request /\ disarmed.session = promoted.session
      /\ disarmed.student = promoted.student /\ disarmed.professors = promoted.professors
  BY <1>2 DEF Sound, Memory
<1> QED BY <1>1, <1>2, <1>3, <1>4 DEF promoted

\* endAndPromote serves the queue of the professor whose session it ended.
LEMMA EndAndPromoteInOrder ==
    ASSUME NEW w, Sound(w), NEW r \in Requests, IsActive(w, r)
    PROVE  InOrder(w, EndAndPromote(w, r))
<1> DEFINE finished == FinishSession(w, r)
           promoted == PromoteNext(finished, TeacherOf(w, r))
<1>1. finished.request = w.request /\ finished.student = w.student
  BY FinishSessionKeeps DEF Sound
<1>2. Sound(finished) /\ EndAndPromote(w, r).request = promoted.request
  BY EndAndPromoteLeaves
<1> HIDE DEF finished
<1>3. InOrder(w, promoted)
  BY <1>1, <1>2, NothingWithdrawn, PromoteNextInOrder
<1> QED BY <1>2, <1>3 DEF InOrder

\* Every step of Next.
LEMMA StepInOrder ==
    ASSUME Inv, [Next]_vars
    PROVE  InOrder(server, server')
<1>0. server \in Memory /\ EntriesDistinct(server) /\ Sound(server)
  BY DEF Inv, Sound
<1>a. ASSUME server'.request = server.request PROVE InOrder(server, server')
  BY <1>a, WithdrawnInOrder DEF NobodyAccepted, IsPending
<1>1. ASSUME NEW s \in Sockets, Connect(s) PROVE InOrder(server, server')
  BY <1>1, <1>a DEF Connect
<1>2. ASSUME NEW s \in Sockets, TeacherDisconnects(s) PROVE InOrder(server, server')
  BY <1>0, <1>2, <1>a DEF TeacherDisconnects, DropSocket, RemoveProfessor, Memory
<1>3. ASSUME NEW s \in Sockets, StudentDisconnects(s) PROVE InOrder(server, server')
  <2>1. ASSUME NEW gone \in Memory PROVE DropSocket(gone, s).request = gone.request
    BY <2>1 DEF DropSocket, Memory
  <2>2. s \in StudentSockets
    BY <1>3 DEF StudentDisconnects
  <2>3. RemoveStudent(server, s) \in Memory /\ MarkReconnecting(server, s) \in Memory
    BY <1>0, <2>2, StudentPresenceIsCalm DEF Calm
  <2>4. /\ RemoveStudent(server, s).request = server.request
        /\ MarkReconnecting(server, s).request = server.request
    BY <1>0 DEF RemoveStudent, MarkReconnecting, Memory
  <2> QED BY <1>3, <1>a, <2>1, <2>3, <2>4 DEF StudentDisconnects
<1>4. ASSUME NEW s \in Sockets, ProfessorComesOnline(s) PROVE InOrder(server, server')
  <2> DEFINE u == RegisterProfessor(server, s)
  <2>1. u.request = server.request /\ u.student = server.student
    BY <1>0 DEF RegisterProfessor, RemoveProfessor, Memory
  <2>2. Sound(u)
    BY <1>0, <1>4, RegisterProfessorIsCalm, CalmKeepsSound DEF ProfessorComesOnline
  <2>3. InOrder(server, ResumeQueue(u, Owner[s]))
    BY <1>0, <2>1, <2>2, ResumeQueueInOrder
  <2> QED BY <1>4, <1>a, <2>3 DEF ProfessorComesOnline
<1>5. ASSUME NEW s \in Sockets, ProfessorSetsAvailability(s) PROVE InOrder(server, server')
  BY <1>0, <1>5, <1>a DEF ProfessorSetsAvailability, SetAvailability, Memory
<1>6. ASSUME NEW s \in Sockets, ProfessorHeartbeatExpires(s) PROVE InOrder(server, server')
  BY <1>0, <1>6, <1>a DEF ProfessorHeartbeatExpires, RemoveProfessor, Memory
<1>7. ASSUME NEW s \in Sockets, StudentRegisters(s) PROVE InOrder(server, server')
  BY <1>0, <1>7, <1>a DEF StudentRegisters, RegisterStudent, Memory
<1>8. ASSUME NEW x \in Students, StudentEntryRemoved(x) PROVE InOrder(server, server')
  BY <1>0, <1>8, <1>a DEF StudentEntryRemoved, RemoveStudent, Memory
<1>9. ASSUME NEW s \in Sockets, NEW t \in Teachers, RequestSession(s, t)
      PROVE  InOrder(server, server')
  <2>1. PICK r \in Requests, tick \in BOOLEAN :
           /\ server.request[r].status = "none"
           /\ server' = CreateRequest(server, s, t, r, tick)
    BY <1>9 DEF RequestSession, Unused
  <2> DEFINE u == SetAvailabilityOf(server, t, "busy")
  <2>2. u \in Memory /\ u.request = server.request
    BY <1>0, SetAvailabilityOfKeeps, SetAvailabilityOfIsCalm DEF Calm, Availabilities
  <2> HIDE DEF u
  <2>3. \A q \in Requests \ {r} : server'.request[q] = server.request[q]
    BY <2>1, <2>2 DEF CreateRequest, Memory, u
  <2>4. NobodyAccepted(server, server')
    BY <2>1, <2>3 DEF NobodyAccepted, IsPending
  <2> QED BY <2>4, WithdrawnInOrder
<1>10. ASSUME NEW s \in Sockets, NEW r \in Requests, Accept(s, r)
       PROVE  InOrder(server, server')
  <2> DEFINE w == SettleRequest(server, r, "accepted")
             queue == Queue(server, Owner[s])
  <2>1. IsPending(server, r) /\ TeacherOf(server, r) = Owner[s] /\ r = HeadOf(server, queue)
    BY <1>10 DEF Accept, MayAnswer, TeacherOf
  <2>2. Calm(server, w) /\ \A q \in Requests \ {r} : w.request[q] = server.request[q]
    BY <1>0, <2>1, SettleRequestIsCalm DEF Statuses, SettleRequest, Memory
  <2>3. server' = IF MayStart(w, r) THEN CreateSession(w, r) ELSE w
    BY <1>10 DEF Accept, CompleteRequest
  <2> HIDE DEF w
  <2>4. server'.request = w.request
    BY <1>0, <2>2, <2>3, CalmKeepsSound, CreateSessionKeepsRequests
  <2>5. \A q \in Requests : IsPending(server, q) /\ server'.request[q].status = "accepted"
                            => q = r
    BY <2>2, <2>4 DEF IsPending
  <2>6. \A q \in queue : ~Before(server, q, r)
    <3>1. queue \in SUBSET Requests
      BY DEF Queue
    <3> HIDE DEF queue
    <3> QED BY <1>0, <2>1, <3>1, HeadIsFirst
  <2>7. \A q \in Requests : IsPending(server, q) /\ TeacherOf(server, q) = TeacherOf(server, r)
                            => ~Before(server, q, r)
    BY <2>1, <2>6 DEF Queue, TeacherOf
  <2> QED BY <2>5, <2>7 DEF InOrder
<1>11. ASSUME NEW s \in Sockets, NEW r \in Requests, Reject(s, r)
       PROVE  InOrder(server, server')
  <2> DEFINE w == SettleRequest(server, r, "rejected")
  <2>1. IsPending(server, r)
    BY <1>11 DEF Reject, MayAnswer
  <2>2. /\ w \in Memory /\ w.request[r].status = "rejected"
        /\ \A q \in Requests \ {r} : w.request[q] = server.request[q]
    <3>1. \A q \in Requests \ {r} : w.request[q] = server.request[q]
      BY <1>0 DEF SettleRequest, Memory
    <3>2. Calm(server, w) /\ w.request[r].status = "rejected"
      BY <1>0, <2>1, SettleRequestIsCalm, SettleRequestIsLocal DEF Statuses
    <3> HIDE DEF w
    <3> QED BY <3>1, <3>2 DEF Calm
  <2>3. server' = ReleaseIfQueueEmpty(w, server.request[r].teacher)
    BY <1>11 DEF Reject, CompleteRequest
  <2> HIDE DEF w
  <2>4. server'.request = w.request
    BY <2>2, <2>3, SetAvailabilityOfKeeps DEF ReleaseIfQueueEmpty
  <2>5. NobodyAccepted(server, server')
    BY <2>2, <2>4 DEF NobodyAccepted, IsPending
  <2> QED BY <2>5, WithdrawnInOrder
<1>12. ASSUME NEW s \in Sockets, NEW r \in Requests, Cancel(s, r)
       PROVE  InOrder(server, server')
  <2> DEFINE u == TransitionWithoutActor(server, r, "cancelled")
  <2>1. Sound(u) /\ Withdrawn(server, u)
    BY <1>0, <1>12, TransitionWithoutActorIsCalm, CalmKeepsSound, TransitionWithdraws
    DEF Cancel
  <2> QED BY <1>0, <1>12, <2>1, PromoteQueuedIfIdleInOrder DEF Cancel
<1>13. ASSUME NEW r \in Requests, RequestExpires(r) PROVE InOrder(server, server')
  <2> DEFINE u == TransitionWithoutActor(server, r, "expired")
  <2>1. Sound(u) /\ Withdrawn(server, u)
    BY <1>0, <1>13, TransitionWithoutActorIsCalm, CalmKeepsSound, TransitionWithdraws
    DEF RequestExpires
  <2>2. InOrder(server, PromoteQueuedIfIdle(u, TeacherOf(server, r)))
    BY <1>0, <2>1, PromoteQueuedIfIdleInOrder
  <2> QED BY <1>13, <1>a, <2>2 DEF RequestExpires
<1>14. ASSUME NEW s \in Sockets, NEW r \in Requests, EndSession(s, r)
       PROVE  InOrder(server, server')
  BY <1>0, <1>14, EndAndPromoteInOrder DEF EndSession
<1>15. ASSUME NEW s \in Sockets, NEW r \in Requests, Recover(s, r)
       PROVE  InOrder(server, server')
  BY <1>0, <1>15, <1>a
  DEF Recover, RecoverSession, SetAvailabilityOf, SetAvailability, Memory
<1>16. ASSUME NEW r \in Requests, Elapse(r) PROVE InOrder(server, server')
  BY <1>0, <1>16, <1>a DEF Elapse, Memory
<1>17. ASSUME NEW r \in Requests, RecoveryTimerFires(r) PROVE InOrder(server, server')
  BY <1>0, <1>17, <1>a, EndAndPromoteInOrder DEF RecoveryTimerFires, RecoveryIsOver
<1>18. ASSUME NEW r \in Requests, RecoveryTimerIdle(r) PROVE InOrder(server, server')
  BY <1>0, <1>18, <1>a DEF RecoveryTimerIdle, Memory
<1>19. ASSUME Restart PROVE InOrder(server, server')
  <2>1. ASSUME NEW r \in Requests, IsPending(server, r)
        PROVE  server'.request[r].status = "expired"
    <3>1. server'.request[r] = Settled(server.request[r], "expired")
      BY <1>19, <2>1 DEF Restart, Restarted
    <3> QED BY <1>0, <2>1, <3>1, PendingLemma DEF Settled
  <2> QED BY <2>1, WithdrawnInOrder DEF NobodyAccepted
<1>20. CASE UNCHANGED vars
  BY <1>20, <1>a DEF vars
<1>21. TransportEvent => InOrder(server, server')
  BY <1>1, <1>2, <1>3 DEF TransportEvent
<1>22. PresenceEvent => InOrder(server, server')
  BY <1>4, <1>5, <1>6, <1>7, <1>8 DEF PresenceEvent
<1>23. RequestEvent => InOrder(server, server')
  BY <1>9, <1>10, <1>11, <1>12, <1>13 DEF RequestEvent
<1>24. SessionEvent => InOrder(server, server')
  BY <1>14, <1>15, <1>16, <1>17, <1>18 DEF SessionEvent
<1> QED BY <1>19, <1>20, <1>21, <1>22, <1>23, <1>24 DEF Next

\* First come, first served, in every step of every behaviour (completeRequest,
\* acceptNextRequest, compareRequests): whoever waited longer was withdrawn,
\* expired, or not online.
THEOREM QueueServedInOrder == Spec => ServedInOrder
<1>1. Inv /\ [Next]_vars => [InOrder(server, server')]_vars
  BY StepInOrder
<1>2. InOrder(server, server') =>
         \A r, q \in Requests :
            /\ IsPending(server, r) /\ server'.request[r].status = "accepted"
            /\ IsPending(server, q) /\ TeacherOf(server, q) = TeacherOf(server, r)
            /\ Before(server, q, r)
            => /\ server'.request[q].status \in {"cancelled", "expired"}
               /\ server'.request[q].status = "cancelled"
                      \/ q \in server.expiry
                      \/ ~StudentOnline(server, StudentOf(server, q))
  BY DEF InOrder
<1> QED BY <1>1, <1>2, Invariance, PTL DEF Spec, ServedInOrder

-----------------------------------------------------------------------------
(* The end of an attendance *)

\* EndHandsOver, of two memories.
HandsOver(w, v) ==
    \A r \in Requests :
        /\ IsActive(w, r) /\ v.session[r].state = "FINISHED"
        /\ ProfessorOnline(v, TeacherOf(w, r))
        => LET t == TeacherOf(w, r)
           IN  \/ TeacherEngaged(v, t)
               \/ Reachable(v, t) = {}
               \/ \E q \in Requests :
                     /\ IsPending(w, q) /\ TeacherOf(w, q) = t
                     /\ v.request[q].status = "accepted"
                     /\ StudentEngaged(w, StudentOf(w, q))

GoesOn(w, v) == \A r \in Requests : IsActive(w, r) => v.session[r].state # "FINISHED"

\* promoteNext changes no session but the one it starts, which belongs to the
\* professor, and nothing of the presence but availabilities.
LEMMA PromoteNextKeeps ==
    ASSUME NEW w, Sound(w), NEW t
    PROVE  LET v == PromoteNext(w, t)
           IN  /\ v.professors = w.professors /\ v.student = w.student
               /\ \A r \in Requests : /\ TeacherOf(v, r) = TeacherOf(w, r)
                                      /\ StudentOf(v, r) = StudentOf(w, r)
                                      /\ IsPending(v, r) => IsPending(w, r)
<1> DEFINE v == PromoteNext(w, t)
<1>1. w \in Memory
  BY DEF Sound
<1>2. ASSUME CanCallNext(w, t)
      PROVE  \E u : /\ Quiet(w, u) /\ v.request = u.request
                    /\ v.professors = u.professors /\ v.student = u.student
  <2> DEFINE called == AcceptNext(w, t)
             r == NextReachable(w, t)
             opened == [called EXCEPT !.session[r] =
                 [state |-> "CONNECTED",
                  teacherSocket |-> FindProfessor(called, TeacherOf(called, r)),
                  studentSocket |-> called.student[StudentOf(called, r)].socket,
                  deadline |-> "none"]]
             started == SetAvailabilityOf(opened, TeacherOf(called, r), "busy")
  <2>1. Quiet(w, called) /\ called \in Memory
    BY <1>1, <1>2, AcceptNextIsQuiet DEF Quiet, Calm
  <2>2. v = IF MayStart(called, r) THEN started ELSE called
    BY <1>2 DEF PromoteNext, CreateSession
  <2> HIDE DEF called, v
  <2>3. /\ opened.request = called.request /\ opened.professors = called.professors
        /\ opened.student = called.student /\ DOMAIN opened = DOMAIN called
    BY <2>1 DEF Memory
  <2> HIDE DEF opened, r
  <2>4. /\ started.request = called.request /\ started.professors = called.professors
        /\ started.student = called.student
    BY <2>1, <2>3 DEF SetAvailabilityOf, SetAvailability, Memory
  <2> QED BY <2>1, <2>2, <2>4
<1>3. ASSUME ~CanCallNext(w, t) PROVE Quiet(w, v)
  <2> DEFINE left == IF AvailabilityOf(w, t) \in {"available", "busy"}
                     THEN ExpireQueue(w, t) ELSE w
  <2>1. Quiet(w, left)
    BY <1>1, ExpireQueueIsQuiet, QuietReflexive
  <2>2. v \in {left, ReleaseIfQueueEmpty(left, t)}
    BY <1>3 DEF PromoteNext
  <2> HIDE DEF left, v
  <2>3. Quiet(left, ReleaseIfQueueEmpty(left, t))
    BY <2>1, ReleaseIsQuiet DEF Quiet, Calm
  <2> QED BY <2>1, <2>2, <2>3, QuietTransitive
<1> HIDE DEF v
<1>4. PICK u : /\ Quiet(w, u) /\ v.request = u.request
               /\ v.professors = u.professors /\ v.student = u.student
  BY <1>2, <1>3
<1> QED BY <1>4 DEF Quiet, Calm, TeacherOf, StudentOf, IsPending, v

\* What finishSession and its listener leave behind: the availability of the
\* professor is "available" when promoteNext looks at it, so only a student who
\* cannot start a session, or none, stops the queue.
LEMMA EndAndPromoteHandsOver ==
    ASSUME NEW w, Sound(w), NEW r \in Requests, IsActive(w, r)
    PROVE  HandsOver(w, EndAndPromote(w, r))
<1> DEFINE t == TeacherOf(w, r)
           finished == FinishSession(w, r)
           promoted == PromoteNext(finished, t)
           v == EndAndPromote(w, r)
<1>1. /\ finished.request = w.request /\ finished.student = w.student
      /\ finished.professors = w.professors /\ finished.session[r].state = "FINISHED"
      /\ \A q \in Requests \ {r} : finished.session[q] = w.session[q]
  BY FinishSessionKeeps DEF Sound
<1>2. /\ Sound(finished) /\ v.request = promoted.request /\ v.session = promoted.session
      /\ v.student = promoted.student /\ v.professors = promoted.professors
  BY EndAndPromoteLeaves
<1>3. t \in Teachers
  <2>1. w.request[r].status = "accepted"
    BY DEF Sound, SessionIsAccepted, IsActive, ActiveStates
  <2> QED BY <2>1 DEF Sound, Memory, RequestRecords, NoRequest, TeacherOf
<1>4. ProfessorOnline(finished, t) => AvailabilityOf(finished, t) = "available"
  <2> DEFINE over == [w EXCEPT !.session[r] = [NoSession EXCEPT !.state = "FINISHED"]]
  <2>1. over \in Memory /\ over.professors = w.professors
    BY DEF Sound, Memory, NoSession, SessionRecords
  <2>2. finished = SetAvailabilityOf(over, t, "available")
    BY DEF FinishSession
  <2> HIDE DEF over, finished, t
  <2>3. CASE ProfessorOnline(over, t)
    <3>1. FindProfessor(over, t) \in Sockets
      BY <1>3, <2>1, <2>3, FindProfessorLemma, OwnerType
    <3>2. finished = [over EXCEPT !.availability[FindProfessor(over, t)] = "available"]
      BY <2>2, <2>3 DEF SetAvailabilityOf, SetAvailability
    <3>3. /\ finished.professors = over.professors
          /\ finished.availability[FindProfessor(over, t)] = "available"
      BY <2>1, <3>1, <3>2 DEF Memory
    <3> QED BY <3>3 DEF AvailabilityOf, ProfessorOnline, FindProfessor
  <2>4. CASE ~ProfessorOnline(over, t)
    BY <2>2, <2>4 DEF SetAvailabilityOf
  <2> QED BY <2>3, <2>4
<1> HIDE DEF finished, v, t
<1>5. /\ v.professors = w.professors /\ v.student = w.student
      /\ \A q \in Requests : /\ TeacherOf(v, q) = TeacherOf(w, q)
                             /\ StudentOf(v, q) = StudentOf(w, q)
                             /\ IsPending(v, q) => IsPending(finished, q)
  BY <1>1, <1>2, PromoteNextKeeps DEF TeacherOf, StudentOf, IsPending
<1>6. \A q \in Requests : IsActive(finished, q) => IsActive(w, q)
  BY <1>1 DEF IsActive, ActiveStates
<1>7. \A q \in Requests : IsActive(w, q) /\ v.session[q].state = "FINISHED" => q = r
  <2> SUFFICES ASSUME NEW q \in Requests, IsActive(w, q), q # r
               PROVE  v.session[q].state # "FINISHED"
    OBVIOUS
  <2>1. finished.session[q] = w.session[q] /\ w.session[q].state \in ActiveStates
    BY <1>1 DEF IsActive
  <2>2. promoted.session[q] = finished.session[q]
    BY <1>2, <2>1, PromoteNextKeepsSessions DEF ActiveStates
  <2> QED BY <1>2, <2>1, <2>2 DEF ActiveStates
<1>8. ASSUME ProfessorOnline(v, t)
      PROVE  \/ TeacherEngaged(v, t)
             \/ Reachable(v, t) = {}
             \/ \E q \in Requests :
                   /\ IsPending(w, q) /\ TeacherOf(w, q) = t
                   /\ v.request[q].status = "accepted"
                   /\ StudentEngaged(w, StudentOf(w, q))
  <2>1. AvailabilityOf(finished, t) = "available"
    BY <1>1, <1>4, <1>5, <1>8 DEF ProfessorOnline, FindProfessor
  <2>2. CASE ~CanCallNext(finished, t)
    <3>1. Reachable(finished, t) = {}
      BY <2>1, <2>2 DEF CanCallNext
    <3> QED BY <1>1, <1>5, <3>1 DEF Reachable, Queue, StudentOnline, TeacherOf, StudentOf
  <2>3. CASE CanCallNext(finished, t)
    <3> DEFINE called == AcceptNext(finished, t)
               q == NextReachable(finished, t)
    <3>1. finished \in Memory
      BY <1>2 DEF Sound
    <3>2. /\ q \in Requests /\ q \in Queue(finished, t) /\ IsPending(finished, q)
          /\ Quiet(finished, called) /\ called.request[q].status = "accepted"
          /\ TeacherOf(called, q) = t
      BY <2>3, <3>1, NextReachableLemma, AcceptNextIsQuiet, AcceptNextIsLocal
    <3>3. StudentOnline(finished, StudentOf(finished, q))
      <4>1. \A p \in Requests : finished.request[p].createdAt \in Nat
        BY <3>1 DEF Memory, RequestRecords, NoRequest
      <4>2. Reachable(finished, t) \in SUBSET Requests /\ Reachable(finished, t) # {}
        BY <2>3 DEF CanCallNext, Reachable, Queue
      <4>3. q \in Reachable(finished, t)
        BY <4>1, <4>2, HeadOfLemma DEF NextReachable
      <4> QED BY <4>3 DEF Reachable, StudentOf
    <3>4. v.request = called.request
      BY <1>2, <2>3, PromoteNextStatus
    <3>5. promoted = IF MayStart(called, q) THEN CreateSession(called, q) ELSE called
      BY <2>3 DEF PromoteNext
    <3> HIDE DEF called, q, promoted
    <3>6. Sound(called) /\ called.session[q].state = "none"
      <4>1. finished.session[q].state = "none"
        BY <1>2, <3>2 DEF Sound, SessionIsAccepted, IsPending
      <4> QED BY <1>2, <3>2, <4>1, CalmKeepsSound DEF Quiet
    <3>7. CASE MayStart(called, q)
      <4>1. IsActive(v, q) /\ TeacherOf(v, q) = t
        BY <1>2, <3>2, <3>4, <3>5, <3>6, <3>7, SessionCallsAreLocal DEF IsActive, TeacherOf
      <4> QED BY <3>2, <4>1 DEF TeacherEngaged
    <3>8. CASE ~MayStart(called, q)
      <4>1. ProfessorOnline(called, t) /\ StudentOnline(called, StudentOf(called, q))
        BY <1>1, <1>5, <1>8, <3>2, <3>3
        DEF Quiet, Calm, ProfessorOnline, FindProfessor, StudentOnline
      <4>2. TeacherEngaged(called, t) \/ StudentEngaged(called, StudentOf(called, q))
        BY <3>2, <3>6, <3>8, <4>1 DEF MayStart
      <4>3. CASE TeacherEngaged(called, t)
        <5>1. v.session = called.session
          BY <1>2, <3>5, <3>8
        <5> QED BY <3>4, <4>3, <5>1 DEF TeacherEngaged, IsActive, TeacherOf
      <4>4. CASE StudentEngaged(called, StudentOf(called, q))
        <5>1. StudentEngaged(w, StudentOf(w, q))
          BY <1>1, <1>6, <3>2, <4>4 DEF StudentEngaged, Quiet, Calm, StudentOf, IsActive
        <5>2. IsPending(w, q) /\ TeacherOf(w, q) = t
          BY <1>1, <3>2 DEF IsPending, TeacherOf, Queue
        <5> QED BY <3>2, <3>4, <5>1, <5>2
      <4> QED BY <4>2, <4>3, <4>4
    <3> QED BY <3>7, <3>8
  <2> QED BY <2>2, <2>3
<1> QED BY <1>7, <1>8 DEF HandsOver, t, v

\* No session ends where sessions only stay or lose a participant.
LEMMA GoingOnHandsOver ==
    ASSUME NEW w, NEW v, GoesOn(w, v)
    PROVE  HandsOver(w, v)
BY DEF HandsOver, GoesOn

\* Handlers that leave the sessions alone finish none.
LEMMA SameSessionsGoOn ==
    ASSUME NEW w, NEW v, v.session = w.session
    PROVE  GoesOn(w, v)
BY DEF GoesOn, IsActive, ActiveStates

\* promoteNext ends nothing.
LEMMA PromoteNextGoesOn ==
    ASSUME NEW w, NEW u, Sound(u), u.session = w.session, NEW t
    PROVE  GoesOn(w, PromoteNext(u, t))
<1> SUFFICES ASSUME NEW r \in Requests, IsActive(w, r)
             PROVE  PromoteNext(u, t).session[r].state # "FINISHED"
  BY DEF GoesOn
<1>1. u.session[r].state \in ActiveStates
  BY DEF IsActive
<1>2. PromoteNext(u, t).session[r] = u.session[r]
  BY <1>1, PromoteNextKeepsSessions DEF ActiveStates
<1> QED BY <1>1, <1>2 DEF ActiveStates

\* promoteQueuedIfIdle
LEMMA PromoteQueuedIfIdleGoesOn ==
    ASSUME NEW w, NEW u, Sound(u), u.session = w.session, NEW t
    PROVE  GoesOn(w, PromoteQueuedIfIdle(u, t))
<1>1. ReleaseIfQueueEmpty(u, t).session = w.session
  BY SetAvailabilityOfKeeps DEF ReleaseIfQueueEmpty, Sound
<1> QED BY <1>1, SameSessionsGoOn, PromoteNextGoesOn DEF PromoteQueuedIfIdle

\* resumeQueue
LEMMA ResumeQueueGoesOn ==
    ASSUME NEW w, NEW u, Sound(u), u.session = w.session, NEW t
    PROVE  GoesOn(w, ResumeQueue(u, t))
<1> DEFINE synced == Synchronize(u, t)
<1>1. Quiet(u, synced)
  BY SetAvailabilityIsQuiet, QuietReflexive DEF Synchronize, Sound, Availabilities
<1> HIDE DEF synced
<1>2. Sound(synced) /\ synced.session = w.session
  BY <1>1, CalmKeepsSound DEF Quiet
<1> QED BY <1>2, SameSessionsGoOn, PromoteNextGoesOn DEF ResumeQueue, synced

\* A lost socket makes its sessions wait.
LEMMA DropSocketGoesOn ==
    ASSUME NEW w, NEW u \in Memory, u.session = w.session, NEW s
    PROVE  GoesOn(w, DropSocket(u, s))
BY DEF DropSocket, Interrupted, GoesOn, Memory, IsActive, ActiveStates

\* Every step of Next.
LEMMA StepHandsOver ==
    ASSUME Inv, [Next]_vars
    PROVE  HandsOver(server, server')
<1>0. server \in Memory /\ EntriesDistinct(server) /\ Sound(server)
  BY DEF Inv, Sound
<1>a. ASSUME server'.session = server.session PROVE HandsOver(server, server')
  BY <1>a, SameSessionsGoOn, GoingOnHandsOver
<1>b. ASSUME Quiet(server, server') PROVE HandsOver(server, server')
  BY <1>a, <1>b DEF Quiet
<1>1. ASSUME NEW s \in Sockets, Connect(s) PROVE HandsOver(server, server')
  BY <1>1, <1>a DEF Connect
<1>2. ASSUME NEW s \in Sockets, TeacherDisconnects(s) PROVE HandsOver(server, server')
  <2> DEFINE gone == RemoveProfessor(server, s)
  <2>1. gone.session = server.session
    BY <1>0 DEF RemoveProfessor, Memory
  <2>2. gone \in Memory
    BY <1>0, <1>2, RemoveProfessorIsCalm DEF TeacherDisconnects, Calm
  <2> HIDE DEF gone
  <2>3. GoesOn(server, DropSocket(gone, s))
    BY <2>1, <2>2, DropSocketGoesOn
  <2> QED BY <1>2, <2>3, GoingOnHandsOver DEF TeacherDisconnects, gone
<1>3. ASSUME NEW s \in Sockets, StudentDisconnects(s) PROVE HandsOver(server, server')
  <2>1. s \in StudentSockets
    BY <1>3 DEF StudentDisconnects
  <2>2. RemoveStudent(server, s) \in Memory /\ MarkReconnecting(server, s) \in Memory
    BY <1>0, <2>1, StudentPresenceIsCalm DEF Calm
  <2>3. /\ RemoveStudent(server, s).session = server.session
        /\ MarkReconnecting(server, s).session = server.session
    BY <1>0 DEF RemoveStudent, MarkReconnecting, Memory
  <2>4. /\ GoesOn(server, DropSocket(RemoveStudent(server, s), s))
        /\ GoesOn(server, DropSocket(MarkReconnecting(server, s), s))
    BY <2>2, <2>3, DropSocketGoesOn
  <2> QED BY <1>3, <2>4, GoingOnHandsOver DEF StudentDisconnects
<1>4. ASSUME NEW s \in Sockets, ProfessorComesOnline(s) PROVE HandsOver(server, server')
  <2> DEFINE u == RegisterProfessor(server, s)
  <2>1. u.session = server.session
    BY <1>0 DEF RegisterProfessor, RemoveProfessor, Memory
  <2>2. Sound(u)
    BY <1>0, <1>4, RegisterProfessorIsCalm, CalmKeepsSound DEF ProfessorComesOnline
  <2>3. HandsOver(server, ResumeQueue(u, Owner[s]))
    BY <2>1, <2>2, ResumeQueueGoesOn, GoingOnHandsOver
  <2> QED BY <1>4, <1>a, <2>3 DEF ProfessorComesOnline
<1>5. ASSUME NEW s \in Sockets, ProfessorSetsAvailability(s) PROVE HandsOver(server, server')
  BY <1>0, <1>5, <1>a DEF ProfessorSetsAvailability, SetAvailability, Memory
<1>6. ASSUME NEW s \in Sockets, ProfessorHeartbeatExpires(s) PROVE HandsOver(server, server')
  BY <1>0, <1>6, <1>a DEF ProfessorHeartbeatExpires, RemoveProfessor, Memory
<1>7. ASSUME NEW s \in Sockets, StudentRegisters(s) PROVE HandsOver(server, server')
  BY <1>0, <1>7, <1>a DEF StudentRegisters, RegisterStudent, Memory
<1>8. ASSUME NEW x \in Students, StudentEntryRemoved(x) PROVE HandsOver(server, server')
  BY <1>0, <1>8, <1>a DEF StudentEntryRemoved, RemoveStudent, Memory
<1>9. ASSUME NEW s \in Sockets, NEW t \in Teachers, RequestSession(s, t)
      PROVE  HandsOver(server, server')
  <2>1. PICK r \in Requests, tick \in BOOLEAN : server' = CreateRequest(server, s, t, r, tick)
    BY <1>9 DEF RequestSession, Unused
  <2> DEFINE u == SetAvailabilityOf(server, t, "busy")
  <2>2. u \in Memory /\ u.session = server.session
    BY <1>0, SetAvailabilityOfKeeps, SetAvailabilityOfIsCalm DEF Calm, Availabilities
  <2> HIDE DEF u
  <2>3. server'.session = server.session
    BY <2>1, <2>2 DEF CreateRequest, Memory, u
  <2> QED BY <1>a, <2>3
<1>10. ASSUME NEW s \in Sockets, NEW r \in Requests, Accept(s, r)
       PROVE  HandsOver(server, server')
  <2> DEFINE w == CompleteRequest(server, r, "accepted")
  <2>1. Quiet(server, w)
    BY <1>0, <1>10, AnswerIsQuiet DEF Accept, MayAnswer
  <2>2. server' = IF MayStart(w, r) THEN CreateSession(w, r) ELSE w
    BY <1>10 DEF Accept
  <2> HIDE DEF w
  <2>3. Sound(w)
    BY <1>0, <2>1, CalmKeepsSound DEF Quiet
  <2>4. CASE ~MayStart(w, r)
    BY <1>b, <2>1, <2>2, <2>4
  <2>5. CASE MayStart(w, r)
    <3>1. IsActive(server', r)
      BY <2>2, <2>3, <2>5, SessionCallsAreLocal
    <3>2. \A q \in Requests \ {r} : server'.session[q] = server.session[q]
      <4> DEFINE first == [state |-> "CONNECTED",
                           teacherSocket |-> FindProfessor(w, TeacherOf(w, r)),
                           studentSocket |-> w.student[StudentOf(w, r)].socket,
                           deadline |-> "none"]
                 opened == [w EXCEPT !.session[r] = first]
      <4>1. /\ \A q \in Requests \ {r} : opened.session[q] = server.session[q]
            /\ DOMAIN opened = DOMAIN w
        BY <2>1, <2>3 DEF Quiet, Sound, Memory
      <4>2. server' = SetAvailabilityOf(opened, TeacherOf(w, r), "busy")
        BY <2>2, <2>5 DEF CreateSession
      <4> HIDE DEF opened
      <4>3. server'.session = opened.session
        BY <2>3, <4>1, <4>2 DEF SetAvailabilityOf, SetAvailability, Sound, Memory
      <4> QED BY <4>1, <4>3
    <3>3. GoesOn(server, server')
      BY <3>1, <3>2 DEF GoesOn, IsActive, ActiveStates
    <3> QED BY <3>3, GoingOnHandsOver
  <2> QED BY <2>4, <2>5
<1>11. ASSUME NEW s \in Sockets, NEW r \in Requests, Reject(s, r)
       PROVE  HandsOver(server, server')
  <2>1. Quiet(server, server')
    BY <1>0, <1>11, AnswerIsQuiet DEF Reject, MayAnswer
  <2> QED BY <1>b, <2>1
<1>12. ASSUME NEW s \in Sockets, NEW r \in Requests, Cancel(s, r)
       PROVE  HandsOver(server, server')
  <2> DEFINE u == TransitionWithoutActor(server, r, "cancelled")
  <2>1. Quiet(server, u)
    BY <1>0, <1>12, AnswerIsQuiet DEF Cancel
  <2>2. Sound(u) /\ u.session = server.session
    BY <1>0, <2>1, CalmKeepsSound DEF Quiet
  <2> QED BY <1>12, <2>2, PromoteQueuedIfIdleGoesOn, GoingOnHandsOver DEF Cancel
<1>13. ASSUME NEW r \in Requests, RequestExpires(r) PROVE HandsOver(server, server')
  <2> DEFINE u == TransitionWithoutActor(server, r, "expired")
  <2>1. Quiet(server, u)
    BY <1>0, <1>13, AnswerIsQuiet DEF RequestExpires
  <2>2. Sound(u) /\ u.session = server.session
    BY <1>0, <2>1, CalmKeepsSound DEF Quiet
  <2>3. HandsOver(server, PromoteQueuedIfIdle(u, TeacherOf(server, r)))
    BY <2>2, PromoteQueuedIfIdleGoesOn, GoingOnHandsOver
  <2> QED BY <1>13, <1>a, <2>3 DEF RequestExpires
<1>14. ASSUME NEW s \in Sockets, NEW r \in Requests, EndSession(s, r)
       PROVE  HandsOver(server, server')
  BY <1>0, <1>14, EndAndPromoteHandsOver DEF EndSession
<1>15. ASSUME NEW s \in Sockets, NEW r \in Requests, Recover(s, r)
       PROVE  HandsOver(server, server')
  <2> DEFINE seated == IF Owner[s] \in Teachers
                       THEN [server.session[r] EXCEPT !.teacherSocket = s]
                       ELSE [server.session[r] EXCEPT !.studentSocket = s]
             recovered == IF Rejoined(seated)
                          THEN [seated EXCEPT !.state = "CONNECTED", !.deadline = "none"]
                          ELSE [seated EXCEPT !.state = "RECOVERING"]
             v == [server EXCEPT !.session[r] = recovered,
                                 !.recovery = IF recovered.deadline = "none"
                                              THEN @ \ {r} ELSE @ \cup {r}]
  <2>1. server.session[r] \in SessionRecords
    BY <1>0 DEF Memory
  <2>2. DOMAIN seated = DOMAIN server.session[r]
    OBVIOUS
  <2> HIDE DEF seated
  <2>3. recovered.state # "FINISHED"
    BY <2>1, <2>2 DEF SessionRecords
  <2> HIDE DEF recovered
  <2>4. /\ v.session[r] = recovered /\ DOMAIN v = DOMAIN server
        /\ \A q \in Requests \ {r} : v.session[q] = server.session[q]
    BY <1>0 DEF Memory
  <2>5. server' = SetAvailabilityOf(v, TeacherOf(server, r), "busy")
    BY <1>15 DEF Recover, RecoverSession, seated, recovered
  <2> HIDE DEF v
  <2>6. server'.session = v.session
    BY <1>0, <2>4, <2>5 DEF SetAvailabilityOf, SetAvailability, Memory
  <2>7. GoesOn(server, server')
    BY <2>3, <2>4, <2>6 DEF GoesOn, IsActive, ActiveStates
  <2> QED BY <2>7, GoingOnHandsOver
<1>16. ASSUME NEW r \in Requests, Elapse(r) PROVE HandsOver(server, server')
  <2>1. \A q \in Requests : server'.session[q].state = server.session[q].state
    BY <1>0, <1>16 DEF Elapse, Memory, SessionRecords
  <2> QED BY <2>1, GoingOnHandsOver DEF GoesOn, IsActive, ActiveStates
<1>17. ASSUME NEW r \in Requests, RecoveryTimerFires(r) PROVE HandsOver(server, server')
  BY <1>0, <1>17, <1>a, EndAndPromoteHandsOver DEF RecoveryTimerFires, RecoveryIsOver
<1>18. ASSUME NEW r \in Requests, RecoveryTimerIdle(r) PROVE HandsOver(server, server')
  BY <1>0, <1>18, <1>a DEF RecoveryTimerIdle, Memory
<1>19. ASSUME Restart PROVE HandsOver(server, server')
  <2>1. \A q \in Requests : IsActive(server, q) => server'.session[q].state = "RECOVERING"
    BY <1>19 DEF Restart, Restarted, NoSession
  <2> QED BY <2>1, GoingOnHandsOver DEF GoesOn
<1>20. CASE UNCHANGED vars
  BY <1>20, <1>a DEF vars
<1>21. TransportEvent => HandsOver(server, server')
  BY <1>1, <1>2, <1>3 DEF TransportEvent
<1>22. PresenceEvent => HandsOver(server, server')
  BY <1>4, <1>5, <1>6, <1>7, <1>8 DEF PresenceEvent
<1>23. RequestEvent => HandsOver(server, server')
  BY <1>9, <1>10, <1>11, <1>12, <1>13 DEF RequestEvent
<1>24. SessionEvent => HandsOver(server, server')
  BY <1>14, <1>15, <1>16, <1>17, <1>18 DEF SessionEvent
<1> QED BY <1>19, <1>20, <1>21, <1>22, <1>23, <1>24 DEF Next

\* The end of an attendance is handed over in the same step (finishSession and
\* the listener of the session-request gateway): no student who could be served
\* is left waiting behind a professor who is free.
THEOREM EndIsHandedOver == Spec => EndHandsOver
<1>1. Inv /\ [Next]_vars => [HandsOver(server, server')]_vars
  BY StepHandsOver
<1>2. HandsOver(server, server') =>
         \A r \in Requests :
            /\ IsActive(server, r) /\ server'.session[r].state = "FINISHED"
            /\ ProfessorOnline(server', TeacherOf(server, r))
            => LET t == TeacherOf(server, r)
               IN  \/ TeacherEngaged(server', t)
                   \/ Reachable(server', t) = {}
                   \/ \E q \in Requests :
                         /\ IsPending(server, q) /\ TeacherOf(server, q) = t
                         /\ server'.request[q].status = "accepted"
                         /\ StudentEngaged(server, StudentOf(server, q))
  BY DEF HandsOver
<1> QED BY <1>1, <1>2, Invariance, PTL DEF Spec, EndHandsOver

-----------------------------------------------------------------------------
(* The core implements Booking: every handler moves every request along at *)
(* most one edge of its life.                                              *)
(*                                                                         *)
(* A handler is a sequence of calls, and an edge of Booking is not the     *)
(* composition of two.  But a calm call only settles or ends (Settling),   *)
(* and what is settled or ended stays: any number of calm calls, with one  *)
(* session started for a request that was waiting at first, is again one   *)
(* edge for every request.                                                 *)

Settling == {<<"waiting", "closed">>, <<"waiting", "stranded">>, <<"attended", "done">>}

\* The edges of Booking, except for the one of a new request.
Forward == Settling \cup {<<"waiting", "attended">>}

Moves(w, v, edges) ==
    \A r \in Requests :
        /\ \/ PhaseOf(v, r) = PhaseOf(w, r)
           \/ <<PhaseOf(w, r), PhaseOf(v, r)>> \in edges
        /\ PhaseOf(w, r) # "unused" => /\ TeacherOf(v, r) = TeacherOf(w, r)
                                       /\ StudentOf(v, r) = StudentOf(w, r)

\* The phases of a sound memory, one by one.
LEMMA PhaseLemma ==
    ASSUME NEW w, Sound(w), NEW r \in Requests
    PROVE  /\ PhaseOf(w, r) = "unused" <=> w.request[r].status = "none"
           /\ PhaseOf(w, r) = "waiting" <=> IsPending(w, r)
           /\ PhaseOf(w, r) = "attended" <=> IsActive(w, r)
           /\ PhaseOf(w, r) = "done" <=> w.session[r].state = "FINISHED"
           /\ PhaseOf(w, r) = "stranded" <=> /\ w.request[r].status = "accepted"
                                             /\ w.session[r].state = "none"
           /\ PhaseOf(w, r) = "closed" <=>
                 w.request[r].status \in {"rejected", "cancelled", "expired"}
<1>1. w.request[r].status \in Statuses
  BY DEF Sound, Memory, RequestRecords, NoRequest, Statuses
<1>2. w.session[r].state \in ActiveStates \cup {"none", "FINISHED"}
  BY DEF Sound, Memory, SessionRecords
<1>3. w.session[r].state # "none" => w.request[r].status = "accepted"
  BY DEF Sound, SessionIsAccepted
<1>4. IsActive(w, r) <=> w.session[r].state \notin {"none", "FINISHED"}
  BY <1>2 DEF IsActive, ActiveStates
<1> QED BY <1>1, <1>3, <1>4 DEF PhaseOf, IsPending, Statuses

\* Calm calls only settle requests and end attendances.
LEMMA CalmMoves ==
    ASSUME NEW w, NEW v, Sound(w), Calm(w, v)
    PROVE  Moves(w, v, Settling)
<1>1. Sound(v)
  BY CalmKeepsSound
<1> SUFFICES ASSUME NEW r \in Requests
             PROVE  /\ \/ PhaseOf(v, r) = PhaseOf(w, r)
                       \/ <<PhaseOf(w, r), PhaseOf(v, r)>> \in Settling
                    /\ TeacherOf(v, r) = TeacherOf(w, r)
                    /\ StudentOf(v, r) = StudentOf(w, r)
  BY DEF Moves
<1> DEFINE from == w.request[r].status
           to == v.request[r].status
<1>2. to \in Statuses /\ from \in Statuses
  BY <1>1 DEF Sound, Memory, RequestRecords, NoRequest, Statuses
<1>3. CASE IsPending(w, r)
  <2>1. w.session[r].state = "none" /\ v.session[r].state = "none"
    BY <1>3 DEF Sound, SessionIsAccepted, Calm, IsPending, IsActive, ActiveStates
  <2>2. PhaseOf(w, r) = "waiting" /\ PhaseOf(v, r) \in {"waiting", "stranded", "closed"}
    BY <1>1, <1>2, <1>3, <2>1, PhaseLemma DEF Calm, Statuses, IsPending
  <2> QED BY <2>2 DEF Calm, Settling
<1>4. CASE ~IsPending(w, r)
  <2>1. from = to
    BY <1>4 DEF Calm
  <2>2. CASE v.session[r].state = w.session[r].state
    BY <2>1, <2>2 DEF Calm, PhaseOf, IsActive
  <2>3. CASE IsActive(w, r) /\ IsActive(v, r)
    BY <1>1, <2>3, PhaseLemma DEF Calm
  <2>4. CASE IsActive(w, r) /\ v.session[r].state = "FINISHED"
    BY <1>1, <2>4, PhaseLemma DEF Calm, Settling
  <2> QED BY <2>2, <2>3, <2>4 DEF Calm, IsActive
<1> QED BY <1>3, <1>4

\* A request that waits is settled at once, or attended to.
LEMMA MovesCompose ==
    ASSUME NEW w, NEW v, NEW u, Sound(v), Moves(w, v, Settling), Moves(v, u, Forward)
    PROVE  Moves(w, u, Forward)
BY DEF Moves, Settling, Forward

\* createSession, for a request that has just been accepted.
LEMMA StartMoves ==
    ASSUME NEW w, NEW v, Sound(w), Calm(w, v),
           NEW r \in Requests, IsPending(w, r), MayStart(v, r)
    PROVE  Moves(w, CreateSession(v, r), Forward)
<1> DEFINE u == CreateSession(v, r)
           opened == [v EXCEPT !.session[r] =
                        [state |-> "CONNECTED",
                         teacherSocket |-> FindProfessor(v, TeacherOf(v, r)),
                         studentSocket |-> v.student[StudentOf(v, r)].socket,
                         deadline |-> "none"]]
<1>1. Sound(v) /\ v \in Memory
  BY CalmKeepsSound DEF Sound
<1>2. Sound(u)
  BY <1>1, CreateSessionIsSound
<1>3. /\ opened.request = v.request
      /\ \A q \in Requests \ {r} : opened.session[q] = v.session[q]
      /\ opened.session[r].state = "CONNECTED"
  BY <1>1 DEF Memory
<1>4. u.request = opened.request /\ u.session = opened.session
  <2>1. DOMAIN opened = DOMAIN v
    OBVIOUS
  <2> HIDE DEF opened
  <2>2. \A t, a : LET x == SetAvailabilityOf(opened, t, a)
                  IN  x.request = opened.request /\ x.session = opened.session
    BY <1>1, <2>1 DEF SetAvailabilityOf, SetAvailability, Memory
  <2>3. u = SetAvailabilityOf(opened, TeacherOf(v, r), "busy")
    BY DEF CreateSession, opened
  <2> QED BY <2>2, <2>3
<1> HIDE DEF u, opened
<1>5. \A q \in Requests : /\ q # r => PhaseOf(u, q) = PhaseOf(v, q)
                          /\ TeacherOf(u, q) = TeacherOf(v, q)
                          /\ StudentOf(u, q) = StudentOf(v, q)
  BY <1>3, <1>4 DEF PhaseOf, IsActive, TeacherOf, StudentOf
<1>6. PhaseOf(w, r) = "waiting" /\ PhaseOf(u, r) = "attended"
  BY <1>2, <1>3, <1>4, PhaseLemma DEF IsActive, ActiveStates
<1>7. Moves(w, v, Settling)
  BY CalmMoves
<1>8. Calm(w, v)
  OBVIOUS
<1> QED BY <1>5, <1>6, <1>7, <1>8 DEF Moves, Forward, Calm, u


-----------------------------------------------------------------------------
(* Handlers that call the next student *)

\* A calm call, or none, is a move.
LEMMA CalmForward ==
    ASSUME NEW w, NEW v, Sound(w), Calm(w, v)
    PROVE  Moves(w, v, Forward)
BY CalmMoves DEF Moves, Forward

\* promoteNext
LEMMA PromoteNextMoves ==
    ASSUME NEW w, Sound(w), NEW t
    PROVE  Moves(w, PromoteNext(w, t), Forward)
<1>1. w \in Memory
  BY DEF Sound
<1>2. CASE CanCallNext(w, t)
  <2> DEFINE called == AcceptNext(w, t)
             r == NextReachable(w, t)
  <2>1. r \in Requests /\ IsPending(w, r) /\ Calm(w, called)
    BY <1>1, <1>2, NextReachableLemma, AcceptNextIsCalm
  <2>2. Moves(w, called, Forward)
    BY <2>1, CalmForward
  <2>3. MayStart(called, r) => Moves(w, CreateSession(called, r), Forward)
    BY <2>1, StartMoves
  <2> QED BY <1>2, <2>2, <2>3 DEF PromoteNext
<1>3. CASE ~CanCallNext(w, t)
  <2> DEFINE left == IF AvailabilityOf(w, t) \in {"available", "busy"}
                     THEN ExpireQueue(w, t) ELSE w
  <2>1. Calm(w, left)
    BY <1>1, ExpireQueueIsCalm, CalmReflexive
  <2>2. PromoteNext(w, t) \in {left, ReleaseIfQueueEmpty(left, t)}
    BY <1>3 DEF PromoteNext
  <2> HIDE DEF left
  <2>3. Calm(left, ReleaseIfQueueEmpty(left, t))
    BY <2>1, ReleaseIsCalm DEF Calm
  <2>4. Calm(w, PromoteNext(w, t))
    BY <2>1, <2>2, <2>3, CalmTransitive
  <2> QED BY <2>4, CalmForward
<1> QED BY <1>2, <1>3

\* promoteNext after a calm call.
LEMMA CalmThenPromoteMoves ==
    ASSUME NEW w, NEW v, Sound(w), Calm(w, v), NEW t
    PROVE  Moves(w, PromoteNext(v, t), Forward)
<1>1. Sound(v) /\ Moves(w, v, Settling)
  BY CalmKeepsSound, CalmMoves
<1> QED BY <1>1, PromoteNextMoves, MovesCompose

\* promoteQueuedIfIdle after a calm call, such as a cancellation.
LEMMA CalmThenPromoteIfIdleMoves ==
    ASSUME NEW w, NEW v, Sound(w), Calm(w, v), NEW t
    PROVE  Moves(w, PromoteQueuedIfIdle(v, t), Forward)
<1>1. Calm(v, ReleaseIfQueueEmpty(v, t))
  BY ReleaseIsCalm DEF Calm
<1>2. Calm(w, ReleaseIfQueueEmpty(v, t))
  BY <1>1, CalmTransitive
<1> QED BY <1>2, CalmForward, CalmThenPromoteMoves DEF PromoteQueuedIfIdle

\* The queue's reaction to 'professor:online', after the registration.
LEMMA ResumeQueueMoves ==
    ASSUME NEW w, NEW v, Sound(w), Calm(w, v), NEW t
    PROVE  Moves(w, ResumeQueue(v, t), Forward)
<1>1. Calm(v, Synchronize(v, t))
  BY SetAvailabilityOfIsCalm, CalmReflexive DEF Synchronize, Calm, Availabilities
<1>2. Calm(w, Synchronize(v, t))
  BY <1>1, CalmTransitive
<1> QED BY <1>2, CalmForward, CalmThenPromoteMoves DEF ResumeQueue

\* The end of a session, with the promotion that its listeners make.
LEMMA EndAndPromoteMoves ==
    ASSUME NEW w, Sound(w), NEW r \in Requests, IsActive(w, r)
    PROVE  Moves(w, EndAndPromote(w, r), Forward)
<1> DEFINE promoted == PromoteNext(FinishSession(w, r), TeacherOf(w, r))
           disarmed == [promoted EXCEPT !.recovery = @ \ {r}]
<1>1. Calm(w, FinishSession(w, r))
  BY FinishSessionIsCalm DEF Sound
<1>2. Moves(w, promoted, Forward)
  BY <1>1, CalmThenPromoteMoves
<1>3. Sound(promoted)
  BY <1>1, CalmKeepsSound, PromoteNextIsSound
<1>4. EndAndPromote(w, r) \in {promoted, disarmed}
  BY DEF EndAndPromote
<1> HIDE DEF promoted
<1>5. disarmed.request = promoted.request /\ disarmed.session = promoted.session
  BY <1>3 DEF Sound, Memory
<1>6. Moves(w, disarmed, Forward)
  BY <1>2, <1>5 DEF Moves, PhaseOf, TeacherOf, StudentOf, IsActive
<1> QED BY <1>2, <1>4, <1>6

-----------------------------------------------------------------------------
(* Every action *)

\* The edges of Booking, a new request included.
AllEdges == Forward \cup {<<"unused", "waiting">>}

\* createRequest
LEMMA CreateRequestMoves ==
    ASSUME NEW w, Sound(w), NEW s \in StudentSockets, NEW t \in Teachers,
           NEW r \in Requests, w.request[r].status = "none",
           MayRequest(w, s, t), NEW tick \in BOOLEAN
    PROVE  Moves(w, CreateRequest(w, s, t, r, tick), AllEdges)
<1> DEFINE u == SetAvailabilityOf(w, t, "busy")
           v == CreateRequest(w, s, t, r, tick)
<1>1. Sound(v)
  BY CreateRequestIsSound
<1>2. /\ u \in Memory /\ u.request = w.request /\ u.session = w.session
  BY SetAvailabilityOfKeeps, SetAvailabilityOfIsCalm DEF Calm, Availabilities, Sound
<1>3. /\ \A q \in Requests \ {r} : v.request[q] = w.request[q]
      /\ v.request[r].status = "pending"
      /\ v.session = w.session
  <2> HIDE DEF u
  <2> QED BY <1>2 DEF CreateRequest, Memory, u
<1> HIDE DEF v
<1>4. \A q \in Requests \ {r} : /\ PhaseOf(v, q) = PhaseOf(w, q)
                                /\ TeacherOf(v, q) = TeacherOf(w, q)
                                /\ StudentOf(v, q) = StudentOf(w, q)
  BY <1>3 DEF PhaseOf, IsActive, TeacherOf, StudentOf
<1>5. PhaseOf(w, r) = "unused" /\ PhaseOf(v, r) = "waiting"
  BY <1>1, <1>3, PhaseLemma DEF IsPending
<1> QED BY <1>4, <1>5 DEF Moves, AllEdges, v

\* Every step moves every request along at most one edge of its life.
LEMMA StepMoves ==
    ASSUME Inv, [Next]_vars
    PROVE  Moves(server, server', AllEdges)
<1> USE DEF Inv
<1>0. server \in Memory /\ EntriesDistinct(server) /\ Sound(server)
  BY DEF Sound
<1>a. Moves(server, server', Forward) => Moves(server, server', AllEdges)
  BY DEF Moves, AllEdges
<1>b. Calm(server, server') => Moves(server, server', AllEdges)
  BY <1>0, <1>a, CalmForward
<1>c. UNCHANGED server => Calm(server, server')
  BY <1>0, CalmReflexive
<1>1. ASSUME NEW s \in Sockets, Connect(s) PROVE Calm(server, server')
  BY <1>1, <1>c DEF Connect
<1>2. ASSUME NEW s \in Sockets, TeacherDisconnects(s) PROVE Calm(server, server')
  BY <1>0, <1>2, TeacherDisconnectsIsCalm
<1>3. ASSUME NEW s \in Sockets, StudentDisconnects(s) PROVE Calm(server, server')
  BY <1>0, <1>3, StudentDisconnectsIsCalm
<1>4. ASSUME NEW s \in Sockets, ProfessorComesOnline(s)
      PROVE  Moves(server, server', AllEdges)
  <2>1. Calm(server, RegisterProfessor(server, s))
    BY <1>0, <1>4, RegisterProfessorIsCalm DEF ProfessorComesOnline
  <2>2. Moves(server, ResumeQueue(RegisterProfessor(server, s), Owner[s]), Forward)
    BY <1>0, <2>1, ResumeQueueMoves
  <2> QED BY <1>4, <2>2, <1>a, <1>b, <1>c DEF ProfessorComesOnline
<1>5. ASSUME NEW s \in Sockets, ProfessorSetsAvailability(s) PROVE Calm(server, server')
  BY <1>0, <1>5, SetAvailabilityIsCalm DEF ProfessorSetsAvailability, Availabilities
<1>6. ASSUME NEW s \in Sockets, ProfessorHeartbeatExpires(s) PROVE Calm(server, server')
  BY <1>0, <1>6, RemoveProfessorIsCalm DEF ProfessorHeartbeatExpires
<1>7. ASSUME NEW s \in Sockets, StudentRegisters(s) PROVE Calm(server, server')
  BY <1>0, <1>7, StudentPresenceIsCalm DEF StudentRegisters
<1>8. ASSUME NEW x \in Students, StudentEntryRemoved(x) PROVE Calm(server, server')
  <2>1. server.student[x].socket \in StudentSockets
    BY <1>0, <1>8 DEF StudentEntryRemoved, Memory, StudentEntries
  <2> QED BY <1>0, <1>8, <2>1, StudentPresenceIsCalm DEF StudentEntryRemoved
<1>9. ASSUME NEW s \in Sockets, NEW t \in Teachers, RequestSession(s, t)
      PROVE  Moves(server, server', AllEdges)
  <2>1. PICK r \in Requests, tick \in BOOLEAN :
           /\ server.request[r].status = "none"
           /\ server' = CreateRequest(server, s, t, r, tick)
    BY <1>9 DEF RequestSession, Unused
  <2> QED BY <1>0, <1>9, <2>1, CreateRequestMoves DEF RequestSession
<1>10. ASSUME NEW s \in Sockets, NEW r \in Requests, Accept(s, r)
       PROVE  Moves(server, server', Forward)
  <2> DEFINE w == CompleteRequest(server, r, "accepted")
  <2>1. Calm(server, w) /\ IsPending(server, r)
    BY <1>0, <1>10, CompleteRequestIsCalm DEF Accept, MayAnswer
  <2>2. MayStart(w, r) => Moves(server, CreateSession(w, r), Forward)
    BY <1>0, <2>1, StartMoves
  <2> QED BY <1>0, <1>10, <2>1, <2>2, CalmForward DEF Accept
<1>11. ASSUME NEW s \in Sockets, NEW r \in Requests, Reject(s, r) PROVE Calm(server, server')
  BY <1>0, <1>11, CompleteRequestIsCalm DEF Reject, MayAnswer
<1>12. ASSUME NEW s \in Sockets, NEW r \in Requests, Cancel(s, r)
       PROVE  Moves(server, server', Forward)
  <2>1. Calm(server, TransitionWithoutActor(server, r, "cancelled"))
    BY <1>0, <1>12, TransitionWithoutActorIsCalm DEF Cancel
  <2> QED BY <1>0, <1>12, <2>1, CalmThenPromoteIfIdleMoves DEF Cancel
<1>13. ASSUME NEW r \in Requests, RequestExpires(r)
       PROVE  Moves(server, server', AllEdges)
  <2>1. Calm(server, TransitionWithoutActor(server, r, "expired"))
    BY <1>0, <1>13, TransitionWithoutActorIsCalm DEF RequestExpires
  <2>2. Moves(server, PromoteQueuedIfIdle(TransitionWithoutActor(server, r, "expired"),
                                          TeacherOf(server, r)), Forward)
    BY <1>0, <2>1, CalmThenPromoteIfIdleMoves
  <2> QED BY <1>13, <2>2, <1>a, <1>b, <1>c DEF RequestExpires
<1>14. ASSUME NEW s \in Sockets, NEW r \in Requests, EndSession(s, r)
       PROVE  Moves(server, server', Forward)
  BY <1>0, <1>14, EndAndPromoteMoves DEF EndSession
<1>15. ASSUME NEW s \in Sockets, NEW r \in Requests, Recover(s, r) PROVE Calm(server, server')
  BY <1>0, <1>15, RecoverSessionIsCalm DEF Recover
<1>16. ASSUME NEW r \in Requests, Elapse(r) PROVE Calm(server, server')
  BY <1>0, <1>16, ElapseIsCalm
<1>17. ASSUME NEW r \in Requests, RecoveryTimerFires(r)
       PROVE  Moves(server, server', AllEdges)
  <2>1. Moves(server, EndAndPromote(server, r), Forward)
    BY <1>0, <1>17, EndAndPromoteMoves DEF RecoveryTimerFires, RecoveryIsOver
  <2> QED BY <1>17, <2>1, <1>a, <1>b, <1>c DEF RecoveryTimerFires
<1>18. ASSUME NEW r \in Requests, RecoveryTimerIdle(r) PROVE Calm(server, server')
  BY <1>0, <1>18, DisarmIsCalm DEF RecoveryTimerIdle
<1>19. ASSUME Restart PROVE Calm(server, server')
  BY <1>0, <1>19, RestartedIsCalm DEF Restart
<1>20. CASE UNCHANGED vars
  BY <1>20, <1>b, <1>c DEF vars
<1>21. TransportEvent => Moves(server, server', AllEdges)
  BY <1>1, <1>2, <1>3, <1>b DEF TransportEvent
<1>22. PresenceEvent => Moves(server, server', AllEdges)
  BY <1>4, <1>5, <1>6, <1>7, <1>8, <1>b DEF PresenceEvent
<1>23. RequestEvent => Moves(server, server', AllEdges)
  BY <1>9, <1>10, <1>11, <1>12, <1>13, <1>a, <1>b DEF RequestEvent
<1>24. SessionEvent => Moves(server, server', AllEdges)
  BY <1>14, <1>15, <1>16, <1>17, <1>18, <1>a, <1>b DEF SessionEvent
<1> QED BY <1>19, <1>20, <1>21, <1>22, <1>23, <1>24, <1>b DEF Next

-----------------------------------------------------------------------------
\* The core implements Booking: whatever clients, timers and restarts do,
\* requests and sessions only move along its edges, a session starts in the
\* step that accepts its request, a finished one never comes back, and nobody
\* is booked twice.
THEOREM CoreImplementsBooking == Spec => ImplementsBooking
<1>1. Init => Abstract!Init
  <2> SUFFICES ASSUME Init PROVE Abstract!Init
    OBVIOUS
  <2>1. \A r \in Requests : server.request[r] = NoRequest
    BY DEF Init, NoRequests
  <2>2. \A r \in Requests : PhaseOf(server, r) = "unused"
    BY <2>1, InitInv, PhaseLemma DEF Inv, NoRequest
  <2> QED BY <2>1, <2>2 DEF Abstract!Init, NoRequest
<1>2. Inv /\ Inv' /\ [Next]_vars => [Abstract!Next]_Abstract!bookingVars
  <2> SUFFICES ASSUME Inv, Inv', [Next]_vars PROVE Abstract!Next
    OBVIOUS
  <2>1. Moves(server, server', AllEdges)
    BY StepMoves
  <2>2. AllEdges = Abstract!Edges
    BY DEF AllEdges, Forward, Settling, Abstract!Edges
  <2>3. \A r \in Requests : /\ PhaseOf(server, r)' = "attended" <=> IsActive(server, r)'
                            /\ PhaseOf(server, r)' = "waiting" <=> IsPending(server, r)'
    BY PhaseLemma DEF Inv
  <2>4. OneAttendanceEach' /\ OnePendingPerStudent'
    BY DEF Inv, Sound, Apart, OnePending, OneAttendanceEach, OnePendingPerStudent
  <2> QED BY <2>1, <2>2, <2>3, <2>4
          DEF Abstract!Next, Abstract!Exclusive, Moves, TeacherOf, StudentOf,
              OneAttendanceEach, OnePendingPerStudent
<1> QED BY <1>1, <1>2, Invariance, PTL DEF Spec, ImplementsBooking, Abstract!Spec

=============================================================================
