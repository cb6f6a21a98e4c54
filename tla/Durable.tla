------------------------------ MODULE Durable ------------------------------
(***************************************************************************)
(* The attendance core with its write-behind database.  Handlers change    *)
(* the memory and answer the client at once; the rows follow through       *)
(* PersistenceQueue, one write at a time, and a process that ends takes    *)
(* the writes still queued with it.  The next process starts from the      *)
(* rows (recoverAfterRestart).  A clean shutdown, which flushes the queue, *)
(* is a restart with no write queued.                                      *)
(*                                                                         *)
(* A row keeps what a restart reads: a request, and whether its session is *)
(* "open" or "FINISHED".  saveRecoveryState and saveConnectionHealth       *)
(* update an open row to another open state, and fail when it is missing,  *)
(* so they are no writes here.                                             *)
(***************************************************************************)
EXTENDS Attendance, FiniteSets

CONSTANTS MaxWrites \* the length of the queue: a bound of an instance

\* One handler may write any of the requests.
ASSUME DurableAssumption ==
    /\ MaxWrites \in Nat
    /\ IsFiniteSet(Requests)

VARIABLES
    rows,    \* session_requests and attendance_sessions
    writes,  \* the writes behind PersistenceQueue.tail
    failures \* the requests with a write among PersistenceQueue.failures

durableVars == <<server, connected, up, rows, writes, failures>>

RowOf(session) ==
    IF session.state \in ActiveStates THEN "open" ELSE session.state

\* The rows that memory w would leave behind.
Image(w) ==
    [request |-> w.request, session |-> [r \in Requests |-> RowOf(w.session[r])]]

RequestWrite(w, r) == [table |-> "request", id |-> r, row |-> w.request[r]]
SessionWrite(w, r) == [table |-> "session", id |-> r, row |-> RowOf(w.session[r])]

-----------------------------------------------------------------------------
(* What one handler writes.  The requests it withdraws or passes over come *)
(* before the one it accepts, and that one before its session; the session *)
(* that finishes comes before the listeners that call the next student.    *)

Changed(w, v, statuses) ==
    {r \in Requests : v.request[r] # w.request[r] /\ v.request[r].status \in statuses}

Moved(w, v, row) ==
    {r \in Requests : RowOf(v.session[r]) # RowOf(w.session[r])
                         /\ RowOf(v.session[r]) = row}

RequestWrites(w, ids) == SetToSeq({RequestWrite(w, r) : r \in ids})
SessionWrites(w, ids) == SetToSeq({SessionWrite(w, r) : r \in ids})

\* Mutant of WritesOf: the new session is saved before the old one's end.
WritesOf_PromoteFirst(w, v) ==
    RequestWrites(v, Changed(w, v, Statuses))
        \o SessionWrites(v, Moved(w, v, "open"))
        \o SessionWrites(v, Moved(w, v, "FINISHED"))

WritesOf(w, v) ==
    SessionWrites(v, Moved(w, v, "FINISHED"))
        \o RequestWrites(v, Changed(w, v, {"cancelled", "expired"}))
        \o RequestWrites(v, Changed(w, v, {"pending", "accepted", "rejected"}))
        \o SessionWrites(v, Moved(w, v, "open"))

-----------------------------------------------------------------------------
(* The database *)

\* Mutant of Refused: the partial unique indexes are missing.
Refused_NoIndex(db, write) ==
    write.table = "session" /\ db.request[write.id].status = "none"

\* A student has one PENDING request and a professor one unfinished session
\* (partial unique indexes); a session refers to a request (foreign key).
Refused(db, write) ==
    IF write.table = "request"
    THEN /\ write.row.status = "pending"
         /\ \E q \in Requests \ {write.id} :
               /\ db.request[q].status = "pending"
               /\ db.request[q].student = write.row.student
    ELSE \/ db.request[write.id].status = "none"
         \/ /\ write.row = "open"
            /\ \E q \in Requests \ {write.id} :
                  /\ db.session[q] = "open"
                  /\ db.request[q].teacher = db.request[write.id].teacher

\* The upsert of a write; a refused one is recorded as a failure and dropped.
Applied(db, write) ==
    IF Refused(db, write) THEN db
    ELSE IF write.table = "request"
         THEN [db EXCEPT !.request[write.id] = write.row]
         ELSE [db EXCEPT !.session[write.id] = write.row]

-----------------------------------------------------------------------------
DurableInit == Init /\ rows = Image(server) /\ writes = <<>> /\ failures = {}

\* A handler or a timer, and the writes it queues.
Handle ==
    /\ TransportEvent \/ PresenceEvent \/ RequestEvent \/ SessionEvent
    /\ writes' = writes \o WritesOf(server, server')
    /\ Len(writes') <= MaxWrites
    /\ UNCHANGED <<rows, failures>>

\* Mutant of Store: writes run side by side.
Store_AnyOrder ==
    /\ up
    /\ \E i \in DOMAIN writes :
          /\ rows' = Applied(rows, writes[i])
          /\ writes' = RemoveAt(writes, i)
    /\ UNCHANGED <<server, connected, up, failures>>

\* PersistenceQueue runs the next write.
Store ==
    /\ up
    /\ writes # <<>>
    /\ ~Refused(rows, Head(writes))
    /\ rows' = Applied(rows, Head(writes))
    /\ writes' = Tail(writes)
    /\ UNCHANGED <<server, connected, up, failures>>

\* The next write fails, refused by the database or for a reason of its own;
\* the error is recorded and does not hold back the writes that follow.
StoreFails ==
    /\ up
    /\ writes # <<>>
    /\ failures' = failures \cup {Head(writes).id}
    /\ writes' = Tail(writes)
    /\ UNCHANGED <<server, connected, up, rows>>

\* The memory that a new process would read from the rows, had it been theirs.
Loaded(db) ==
    [server EXCEPT
        !.request = db.request,
        !.session = [r \in Requests |->
            [NoSession EXCEPT !.state = IF db.session[r] = "open" THEN "RECOVERING"
                                        ELSE db.session[r]]]]

\* The process ends, with whatever is still queued, and the next one starts.
RestartFromRows ==
    /\ server' = Restarted(Loaded(rows))
    /\ connected' = {}
    /\ up' = TRUE
    /\ rows' = Image(server')
    /\ writes' = <<>>
    /\ failures' = {}

DurableNext == Handle \/ Store \/ StoreFails \/ RestartFromRows

DurableSpec == DurableInit /\ [][DurableNext]_durableVars

-----------------------------------------------------------------------------
\* The queue catches up: if no write has failed, then once it is drained the
\* rows say what the memory says, and the indexes refuse none of the writes on
\* the way.  This needs the order in which handlers save, and the serialization
\* of PersistenceQueue.
QueueCatchesUp == failures = {} => FoldLeft(Applied, rows, writes) = Image(server)

\* Even when writes fail, no professor is in two attendances, before or after
\* a restart (attendance_sessions_one_active_per_professor_idx).
ProfessorExclusive ==
    \A p, q \in Requests : p # q /\ IsActive(server, p) /\ IsActive(server, q) =>
        TeacherOf(server, p) # TeacherOf(server, q)

\* createSession (session.manager.ts:84): a student has one active session.
StudentExclusive ==
    \A p, q \in Requests : p # q /\ IsActive(server, p) /\ IsActive(server, q) =>
        StudentOf(server, p) # StudentOf(server, q)

\* Whatever suffix of the queue a crash takes, and however often, the sessions that
\* come back are exclusive for students too, as long as no write fails.
CrashKeepsStudentsExclusive == [](failures = {}) => []StudentExclusive
=============================================================================
