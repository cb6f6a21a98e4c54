------------------------------ MODULE Requests ------------------------------
(***************************************************************************)
(* The attendance queue: SessionRequestManager (session-request.manager.   *)
(* ts).  Adds to the server's memory                                       *)
(*   w.request[r]  the request with id r, pending or in the history;       *)
(*   w.expiry      the requests with a live expiration timer;              *)
(*   w.clock       the last value of createdAt handed out.                 *)
(* createdAt has millisecond resolution, so two requests may carry the     *)
(* same value, and the id, a random UUID, then orders them.  Here ids are  *)
(* numbers, and a new request takes any unused one.                        *)
(***************************************************************************)
EXTENDS Presence

CONSTANTS Requests \* request ids, in localeCompare order

ASSUME RequestsAssumption ==
    /\ Requests \subseteq Nat
    /\ None \notin Requests

Statuses ==
    {"none", "pending", "accepted", "rejected", "cancelled", "expired"}

NoRequest ==
    [status |-> "none", student |-> None, teacher |-> None,
     queued |-> FALSE, createdAt |-> 0]

\* A request is "queued" when queuedAt is set, that is when the professor was
\* busy when it was created, and "direct" otherwise.
RequestRecords ==
    [status : Statuses \ {"none"}, student : Students, teacher : Teachers,
     queued : BOOLEAN, createdAt : Nat] \cup {NoRequest}

NoRequests == [r \in Requests |-> NoRequest]

-----------------------------------------------------------------------------
IsPending(w, r) == w.request[r].status = "pending"

\* compareRequests: createdAt, then the id.
Before(w, p, q) ==
    \/ w.request[p].createdAt < w.request[q].createdAt
    \/ w.request[p].createdAt = w.request[q].createdAt /\ p < q

\* getPendingRequestsForTeacher, as a set ordered by Before.
Queue(w, t) == {r \in Requests : IsPending(w, r) /\ w.request[r].teacher = t}

HeadOf(w, queue) == CHOOSE r \in queue : \A q \in queue \ {r} : Before(w, r, q)

HeadIsQueued(w, t) ==
    Queue(w, t) # {} /\ w.request[HeadOf(w, Queue(w, t))].queued

HasPending(w, x) ==
    \E r \in Requests : IsPending(w, r) /\ w.request[r].student = x

-----------------------------------------------------------------------------
\* Mutant of MayRequest: no check for a request already pending.
MayRequest_NoPendingCheck(w, s, t) ==
    /\ TracksStudent(w, s)
    /\ AvailabilityOf(w, t) \in {"available", "busy"}

\* The errors createRequest raises, negated.  (Institutions are left out: all
\* users of the model belong to one.)
MayRequest(w, s, t) ==
    /\ TracksStudent(w, s)
    /\ AvailabilityOf(w, t) \in {"available", "busy"}
    /\ ~HasPending(w, Owner[s])

\* Mutant of CreateRequest: no expiration timer for a direct request.
CreateRequest_NoTimer(w, s, t, r, tick) ==
    [SetAvailabilityOf(w, t, "busy") EXCEPT
        !.request[r] = [status |-> "pending", student |-> Owner[s], teacher |-> t,
                        queued |-> AvailabilityOf(w, t) = "busy",
                        createdAt |-> w.clock + 1],
        !.clock = @ + 1]

\* createRequest: tick is whether the clock advanced since the last request.
CreateRequest(w, s, t, r, tick) ==
    LET queued == AvailabilityOf(w, t) = "busy"
        now == IF tick THEN w.clock + 1 ELSE w.clock
    IN  [SetAvailabilityOf(w, t, "busy") EXCEPT
            !.request[r] = [status |-> "pending", student |-> Owner[s],
                            teacher |-> t, queued |-> queued,
                            createdAt |-> now],
            !.expiry = IF queued THEN @ ELSE @ \cup {r},
            !.clock = now]

\* The history entry of a request.  Nothing reads queuedAt once the request is
\* settled, so the model forgets it.
Settled(request, status) ==
    [request EXCEPT !.status = status, !.queued = FALSE]

\* clearPendingRequest and the new history entry.
SettleRequest(w, r, status) ==
    [w EXCEPT !.request[r] = Settled(@, status), !.expiry = @ \ {r}]

\* releaseProfessorIfQueueEmpty
ReleaseIfQueueEmpty(w, t) ==
    IF Queue(w, t) = {} THEN SetAvailabilityOf(w, t, "available") ELSE w

\* Mutant of MayAnswer: any request of the queue may be answered.
MayAnswer_AnyPosition(w, s, r, status) ==
    /\ IsPending(w, r)
    /\ w.request[r].teacher = Owner[s]
    /\ IsRegistered(w, s)
    /\ status = "accepted" => StudentOnline(w, w.request[r].student)

\* acceptRequest and rejectRequest: pending, answered from a registered socket
\* of the requested professor, first of the queue; accepted only if the student
\* is online.
MayAnswer(w, s, r, status) ==
    /\ IsPending(w, r)
    /\ w.request[r].teacher = Owner[s]
    /\ IsRegistered(w, s)
    /\ r = HeadOf(w, Queue(w, Owner[s]))
    /\ status = "accepted" => StudentOnline(w, w.request[r].student)

\* Mutant of CompleteRequest: a rejection does not release the professor.
CompleteRequest_KeepsBusy(w, r, status) == SettleRequest(w, r, status)

\* completeRequest
CompleteRequest(w, r, status) ==
    IF status = "rejected"
    THEN ReleaseIfQueueEmpty(SettleRequest(w, r, status), w.request[r].teacher)
    ELSE SettleRequest(w, r, status)

\* transitionWithoutActor: cancellation and expiry.
TransitionWithoutActor(w, r, status) ==
    IF w.request[r].queued
    THEN SettleRequest(w, r, status)
    ELSE ReleaseIfQueueEmpty(SettleRequest(w, r, status), w.request[r].teacher)

-----------------------------------------------------------------------------
(* acceptNextRequest: the loop over the queue expires every request whose  *)
(* student is not online until it meets one whose student is, and accepts  *)
(* that one.                                                               *)

Reachable(w, t) == {r \in Queue(w, t) : StudentOnline(w, w.request[r].student)}

NextReachable(w, t) == HeadOf(w, Reachable(w, t))

CanCallNext(w, t) ==
    AvailabilityOf(w, t) \in {"available", "busy"} /\ Reachable(w, t) # {}

\* The requests the loop expires.
Skipped(w, t) ==
    IF Reachable(w, t) = {}
    THEN Queue(w, t)
    ELSE {r \in Queue(w, t) : Before(w, r, NextReachable(w, t))}

ExpireSkipped(w, t) ==
    [w EXCEPT
        !.request = [r \in Requests |-> IF r \in Skipped(w, t)
                                        THEN Settled(@[r], "expired")
                                        ELSE @[r]],
        !.expiry = @ \ Skipped(w, t)]

AcceptNext(w, t) ==
    CompleteRequest(ExpireSkipped(w, t), NextReachable(w, t), "accepted")

\* No student of the queue is online: the whole queue expires, and the last
\* transition frees the professor if that request was a direct one.
ExpireQueue(w, t) ==
    LET last == CHOOSE r \in Queue(w, t) :
                    \A q \in Queue(w, t) \ {r} : Before(w, q, r)
    IN  IF Queue(w, t) = {} \/ w.request[last].queued
        THEN ExpireSkipped(w, t)
        ELSE SetAvailabilityOf(ExpireSkipped(w, t), t, "available")
=============================================================================
