---- MODULE Workflow ----
(***************************************************************************)
(* The workflow services of the server, as the communication gateway       *)
(* drives them: which sockets are connected, which client is present on    *)
(* which socket, who is watched by the heartbeat, broadcast requests, the  *)
(* sessions and calls that follow from them, and the route that signaling  *)
(* resolves.  A handler runs to its end before the next event, so every    *)
(* action is one handler with the managers it calls; an exception that     *)
(* handleSafely catches leaves what was changed before it.                 *)
(*                                                                         *)
(* A deadline is a flag: the heartbeat timeout of a client that is         *)
(* connected, or the reconnection deadline of one that is lost, which      *)
(* markConnectionLost never sets beyond that timeout.                      *)
(***************************************************************************)
EXTENDS Naturals, FiniteSets

CONSTANTS
    Teachers, Students,
    Connections,      \* socket ids, each used once
    Owner,            \* the client that a socket has authenticated as
    Rooms,            \* ids of the sessions that clients create themselves
    Requests,         \* request ids, and the ids of the sessions they lead to
    Statuses,         \* what clients send in 'presence.update'
    Casts,            \* bounds: the sockets and the ids that take part
    None

Clients == Teachers \union Students
SessionIds == Rooms \union Requests
Live == {"CONNECTING", "CONNECTED"}

ASSUME WorkflowAssumption ==
    /\ Owner \in [Connections -> Clients]
    /\ Teachers \intersect Students = {} /\ Rooms \intersect Requests = {}
    /\ Statuses \subseteq {"ONLINE", "AVAILABLE", "BUSY", "OFFLINE"}
    /\ Casts \subseteq [sockets : SUBSET Connections, ids : SUBSET SessionIds]
    /\ None \notin Connections \union Clients \union SessionIds
    /\ None \notin [connection : Connections, lost : BOOLEAN, due : BOOLEAN]

VARIABLES
    link,             \* the transport of a socket, as the server sees it
    tracked,          \* the sockets ConnectionManager knows
    presence,         \* PresenceManager: status and socket of each client
    indexed,          \* PresenceManager: the sockets that lead to a client
    heart,            \* HeartbeatManager: the record of each client
    sessions,         \* SessionStore
    requests, armed,  \* RequestStore and the expiration timers
    calls             \* CallStore; a request has at most one call

places == <<link, tracked, presence, indexed, heart>>
vars == <<link, tracked, presence, indexed, heart, sessions, requests, armed, calls>>

TypeOK ==
    /\ link \in [Connections -> {"new", "open", "closed"}]
    /\ tracked \subseteq Connections /\ indexed \subseteq Connections
    /\ presence \in [Clients ->
           [status : {"none", "ONLINE", "AVAILABLE", "BUSY", "OFFLINE"},
            connection : Connections \union {None}]]
    /\ heart \in [Clients ->
           {None} \union [connection : Connections, lost : BOOLEAN, due : BOOLEAN]]
    /\ sessions \in [SessionIds -> [phase : {"unused", "open", "closed"},
                                    members : SUBSET Connections]]
    /\ requests \in [Requests ->
           [status : {"none", "PENDING", "ACCEPTED", "CANCELLED", "EXPIRED"},
            student : Students \union {None}, teacher : Teachers \union {None},
            recipients : SUBSET Teachers, rejected : SUBSET Teachers]]
    /\ armed \subseteq Requests
    /\ calls \in [Requests -> [status : {"none", "removed"} \union Live,
                               session : SessionIds \union {None}]]

\* Sockets and ids outside the cast count as used up.
Init == \E cast \in Casts :
    /\ link = [c \in Connections |-> IF c \in cast.sockets THEN "new" ELSE "closed"]
    /\ tracked = {} /\ indexed = {}
    /\ presence = [o \in Clients |-> [status |-> "none", connection |-> None]]
    /\ heart = [o \in Clients |-> None]
    /\ sessions = [s \in SessionIds |->
                      [phase |-> IF s \in cast.ids THEN "unused" ELSE "closed",
                       members |-> {}]]
    /\ requests = [r \in Requests |->
                      [status |-> IF r \in cast.ids THEN "none" ELSE "CANCELLED",
                       student |-> None, teacher |-> None,
                       recipients |-> {}, rejected |-> {}]]
    /\ armed = {}
    /\ calls = [r \in Requests |-> [status |-> "none", session |-> None]]

---------------------------------------------------------------------------
\* What the handlers read

Shown(o) == presence[o].status \notin {"none", "OFFLINE"}

\* heartbeatManager.findByConnectionId
IsWatched(c) == heart[Owner[c]] # None /\ heart[Owner[c]].connection = c
IsLost(o) == heart[o] # None /\ heart[o].lost
IsDue(o) == heart[o] # None /\ heart[o].due

IsOpen(s) == sessions[s].phase = "open"
IsActive(s) == IsOpen(s) /\ Cardinality(sessions[s].members) >= 2
Participants(r) == {requests[r].student, requests[r].teacher}

\* The record of a client seen just now on c.
Beating(c) == [connection |-> c, lost |-> FALSE, due |-> FALSE]

\* sessionService.leaveAllSessions
SessionsWithout(gone) ==
    [s \in SessionIds |-> [sessions[s] EXCEPT !.members = @ \ gone]]

\* presenceManager: o is present on c, and found by c alone.
ShowOn(o, c, status) ==
    /\ presence' = [presence EXCEPT ![o] = [status |-> status, connection |-> c]]
    /\ indexed' = (indexed \ {presence[o].connection}) \union {c}

\* Mutant of TimedOut: the status stays.
TimedOutShown(S) ==
    LET gone == {heart[o].connection : o \in S} IN
    /\ link' = [c \in Connections |-> IF c \in gone THEN "closed" ELSE link[c]]
    /\ tracked' = tracked \ gone
    /\ indexed' = indexed \ {presence[o].connection : o \in S}
    /\ sessions' = SessionsWithout(gone)
    /\ heart' = [o \in Clients |-> IF o \in S THEN None ELSE heart[o]]
    /\ UNCHANGED presence

\* handleTimeout for the clients in S: their sockets are forgotten and closed,
\* they are shown as offline, leave their sessions and are watched no more.
\* Closing a socket runs its 'disconnect' handler, whose changes to the record
\* are gone with it.
TimedOut(S) ==
    LET gone == {heart[o].connection : o \in S} IN
    /\ link' = [c \in Connections |-> IF c \in gone THEN "closed" ELSE link[c]]
    /\ tracked' = tracked \ gone
    /\ presence' = [o \in Clients |->
                       IF o \in S THEN [presence[o] EXCEPT !.status = "OFFLINE"]
                       ELSE presence[o]]
    /\ indexed' = indexed \ {presence[o].connection : o \in S}
    /\ sessions' = SessionsWithout(gone)
    /\ heart' = [o \in Clients |-> IF o \in S THEN None ELSE heart[o]]

---------------------------------------------------------------------------
\* Connections

Connect(c) ==
    /\ link[c] = "new"
    /\ link' = [link EXCEPT ![c] = "open"]
    /\ tracked' = tracked \union {c}
    /\ UNCHANGED <<presence, indexed, heart, sessions, requests, armed, calls>>

\* Mutant of Disconnect: the lost socket still leads to its client.
DisconnectKeepsIndex(c) ==
    /\ link[c] = "open"
    /\ link' = [link EXCEPT ![c] = "closed"]
    /\ IF IsWatched(c)
       THEN /\ heart' = [heart EXCEPT ![Owner[c]].lost = TRUE]
            /\ UNCHANGED <<tracked, indexed>>
       ELSE /\ tracked' = tracked \ {c}
            /\ UNCHANGED <<heart, indexed>>
    /\ UNCHANGED <<presence, sessions, requests, armed, calls>>

\* A client that is watched on this socket is lost and keeps its place; any
\* other socket is only forgotten.
Disconnect(c) ==
    /\ link[c] = "open"
    /\ link' = [link EXCEPT ![c] = "closed"]
    /\ IF IsWatched(c)
       THEN /\ heart' = [heart EXCEPT ![Owner[c]].lost = TRUE]
            /\ indexed' = indexed \ {c}
            /\ UNCHANGED tracked
       ELSE /\ tracked' = tracked \ {c}
            /\ UNCHANGED <<heart, indexed>>
    /\ UNCHANGED <<presence, sessions, requests, armed, calls>>

---------------------------------------------------------------------------
\* Heartbeat

DeadlinePasses(o) ==
    /\ heart[o] # None /\ ~heart[o].due
    /\ heart' = [heart EXCEPT ![o].due = TRUE]
    /\ UNCHANGED <<link, tracked, presence, indexed, sessions, requests, armed, calls>>

Pong(c) ==
    /\ link[c] = "open" /\ IsWatched(c) /\ ~IsLost(Owner[c]) /\ IsDue(Owner[c])
    /\ heart' = [heart EXCEPT ![Owner[c]].due = FALSE]
    /\ UNCHANGED <<link, tracked, presence, indexed, sessions, requests, armed, calls>>

\* Mutant of Expired: a client that is lost is passed over.
ExpiredConnected == {o \in Clients : IsDue(o) /\ ~IsLost(o)}

\* inspectConnections
Expired == {o \in Clients : IsDue(o)}

RunCycle ==
    /\ Expired # {}
    /\ TimedOut(Expired)
    /\ UNCHANGED <<requests, armed, calls>>

---------------------------------------------------------------------------
\* Presence

\* 'presence.register' of a client that is not watched, or that is watched on a
\* socket the server takes for connected: presenceManager.registerClient, which
\* refuses a client that is present elsewhere, then heartbeatManager's, which
\* throws for a client that it already knows.
Register(c) ==
    LET o == Owner[c] IN
    /\ link[c] = "open" /\ c \in tracked
    /\ ~IsLost(o) /\ ~IsDue(o)
    /\ presence[o].status \in {"none", "OFFLINE"} \/ presence[o].connection = c
    /\ ShowOn(o, c, "ONLINE")
    /\ heart' = IF heart[o] = None THEN [heart EXCEPT ![o] = Beating(c)] ELSE heart
    /\ UNCHANGED <<link, tracked, sessions, requests, armed, calls>>

\* 'presence.register' of a client whose deadline has passed unnoticed: it is
\* timed out first, and registered if this is not the socket that was closed.
RegisterLate(c) ==
    LET o == Owner[c] old == heart[Owner[c]].connection IN
    /\ link[c] = "open" /\ c \in tracked /\ IsDue(o)
    /\ IF c = old
       THEN TimedOut({o})
       ELSE /\ link' = [link EXCEPT ![old] = "closed"]
            /\ tracked' = tracked \ {old}
            /\ sessions' = SessionsWithout({old})
            /\ ShowOn(o, c, "ONLINE")
            /\ heart' = [heart EXCEPT ![o] = Beating(c)]
    /\ UNCHANGED <<requests, armed, calls>>

\* Mutant of RecoverClient: the sessions keep the old connection.
RecoverClientAlone(c) ==
    LET o == Owner[c] old == heart[Owner[c]].connection IN
    /\ link[c] = "open" /\ c \in tracked
    /\ IsLost(o) /\ ~IsDue(o)
    /\ heart' = [heart EXCEPT ![o] = Beating(c)]
    /\ tracked' = tracked \ {old}
    /\ IF presence[o].status = "OFFLINE"
       THEN UNCHANGED <<presence, indexed>>
       ELSE ShowOn(o, c, presence[o].status)
    /\ UNCHANGED <<link, sessions, requests, armed, calls>>

\* 'presence.register' within the reconnection window.  The heartbeat record
\* and the connection have changed when presenceManager.recoverClient refuses a
\* client that is offline.
RecoverClient(c) ==
    LET o == Owner[c] old == heart[Owner[c]].connection IN
    /\ link[c] = "open" /\ c \in tracked
    /\ IsLost(o) /\ ~IsDue(o)
    /\ heart' = [heart EXCEPT ![o] = Beating(c)]
    /\ tracked' = tracked \ {old}
    /\ IF presence[o].status = "OFFLINE"
       THEN UNCHANGED <<presence, indexed, sessions>>
       ELSE /\ ShowOn(o, c, presence[o].status)
            /\ sessions' = [s \in SessionIds |->
                              IF old \in sessions[s].members
                              THEN [sessions[s] EXCEPT !.members = (@ \ {old}) \union {c}]
                              ELSE sessions[s]]
    /\ UNCHANGED <<link, requests, armed, calls>>

UpdatePresence(c, status) ==
    /\ link[c] = "open" /\ c \in indexed
    /\ presence' = [presence EXCEPT ![Owner[c]].status = status]
    /\ UNCHANGED <<link, tracked, indexed, heart, sessions, requests, armed, calls>>

---------------------------------------------------------------------------
\* Requests

\* listAvailableTeachers
Available == {t \in Teachers : presence[t].status = "AVAILABLE"}

\* Mutant of CreateRequest: no timer for a request that reaches nobody.
CreateRequestUntimed(c, r) ==
    /\ link[c] = "open" /\ c \in indexed /\ Owner[c] \in Students
    /\ requests[r].status = "none"
    /\ requests' = [requests EXCEPT ![r].status = "PENDING", ![r].student = Owner[c],
                       ![r].recipients = Available]
    /\ armed' = IF Available = {} THEN armed ELSE armed \union {r}
    /\ UNCHANGED <<places, sessions, calls>>

\* A snapshot of the available teachers, those whose connection is lost included.
CreateRequest(c, r) ==
    /\ link[c] = "open" /\ c \in indexed /\ Owner[c] \in Students
    /\ requests[r].status = "none"
    /\ requests' = [requests EXCEPT ![r].status = "PENDING", ![r].student = Owner[c],
                       ![r].recipients = Available]
    /\ armed' = armed \union {r}
    /\ UNCHANGED <<places, sessions, calls>>

MayAnswer(c, r) ==
    /\ link[c] = "open" /\ c \in indexed /\ Owner[c] \in requests[r].recipients
    /\ Owner[c] \notin requests[r].rejected
    /\ requests[r].status = "PENDING"

\* The connections that the session of r is for: the teacher's, and the one the
\* student is shown on, if it is not offline.
Invited(c, r) ==
    LET student == requests[r].student IN
    {c} \union (IF Shown(student) THEN {presence[student].connection} ELSE {})

\* A session in which exactly these two are, if there is one, else a new one,
\* which they join one after the other.
SeatsFor(c, r) ==
    LET pair == Invited(c, r)
        same == {s \in SessionIds : IsActive(s) /\ sessions[s].members = pair}
    IN IF same # {} THEN {[session |-> s, members |-> pair] : s \in same}
       ELSE {[session |-> r, members |-> IF pair \subseteq tracked THEN pair
                                         ELSE {c} \intersect tracked]}

\* joinSession throws for a connection that is not tracked: the request is then
\* accepted and has no call.
AcceptRequest(c, r) ==
    /\ MayAnswer(c, r)
    /\ requests' = [requests EXCEPT ![r].status = "ACCEPTED", ![r].teacher = Owner[c]]
    /\ armed' = armed \ {r}
    /\ \E seats \in SeatsFor(c, r) :
          /\ sessions' = [sessions EXCEPT
                             ![seats.session] = [phase |-> "open", members |-> seats.members]]
          /\ calls' = IF seats.members = Invited(c, r)
                      THEN [calls EXCEPT ![r] = [status |-> "CONNECTING",
                                                 session |-> seats.session]]
                      ELSE calls
    /\ UNCHANGED places

\* The request stays pending for the other teachers.
RejectRequest(c, r) ==
    /\ MayAnswer(c, r)
    /\ requests' = [requests EXCEPT ![r].rejected = @ \union {Owner[c]}]
    /\ UNCHANGED <<places, sessions, armed, calls>>

CancelRequest(c, r) ==
    /\ link[c] = "open" /\ c \in indexed /\ Owner[c] = requests[r].student
    /\ requests[r].status = "PENDING"
    /\ requests' = [requests EXCEPT ![r].status = "CANCELLED"]
    /\ armed' = armed \ {r}
    /\ UNCHANGED <<places, sessions, calls>>

ExpireRequest(r) ==
    /\ r \in armed
    /\ armed' = armed \ {r}
    /\ requests' = IF requests[r].status = "PENDING"
                   THEN [requests EXCEPT ![r].status = "EXPIRED"] ELSE requests
    /\ UNCHANGED <<places, sessions, calls>>

---------------------------------------------------------------------------
\* Sessions and calls

CreateSession(c, s) ==
    /\ link[c] = "open" /\ s \in Rooms /\ sessions[s].phase = "unused"
    /\ sessions' = [sessions EXCEPT ![s].phase = "open"]
    /\ UNCHANGED <<places, requests, armed, calls>>

\* joinSession asks only for a connection that is known: any socket joins any
\* open session, registered or not, its own request's or another's.
JoinSession(c, s) ==
    /\ link[c] = "open" /\ c \in tracked /\ IsOpen(s)
    /\ c \notin sessions[s].members
    /\ sessions' = [sessions EXCEPT ![s].members = @ \union {c}]
    /\ UNCHANGED <<places, requests, armed, calls>>

LeaveSession(c, s) ==
    /\ link[c] = "open" /\ IsOpen(s) /\ c \in sessions[s].members
    /\ sessions' = [sessions EXCEPT ![s].members = @ \ {c}]
    /\ UNCHANGED <<places, requests, armed, calls>>

\* Mutant of Finished: only calls that have connected end.
FinishedConnected(s) ==
    [r \in Requests |-> IF calls[r].status = "CONNECTED" /\ calls[r].session = s
                        THEN [calls[r] EXCEPT !.status = "removed"] ELSE calls[r]]

\* finishSessionCalls: finished or cancelled, the calls of s are removed.
Finished(s) ==
    [r \in Requests |-> IF calls[r].status \in Live /\ calls[r].session = s
                        THEN [calls[r] EXCEPT !.status = "removed"] ELSE calls[r]]

\* The calls of the session end, the session is deleted, and those of its
\* members who are present are available again.
CloseSession(c, s) ==
    LET back == {Owner[m] : m \in sessions[s].members \intersect indexed}
    IN  /\ link[c] = "open" /\ IsOpen(s)
        /\ calls' = Finished(s)
        /\ sessions' = [sessions EXCEPT ![s] = [phase |-> "closed", members |-> {}]]
        /\ presence' = [o \in Clients |->
                           IF o \notin back THEN presence[o]
                           ELSE [presence[o] EXCEPT
                                    !.status = IF o \in Teachers THEN "AVAILABLE" ELSE "ONLINE"]]
        /\ UNCHANGED <<link, tracked, indexed, heart, requests, armed>>

CallConnected(c, r) ==
    /\ link[c] = "open" /\ c \in indexed /\ Owner[c] \in Participants(r)
    /\ calls[r].status = "CONNECTING"
    /\ calls' = [calls EXCEPT ![r].status = "CONNECTED"]
    /\ UNCHANGED <<places, sessions, requests, armed>>

\* signalingManager.resolveRoute: where a signal of the call of r goes that the
\* connection c sends; no connection when it is refused.
Route(c, r) ==
    LET s == calls[r].session
        members == sessions[s].members
    IN IF /\ calls[r].status \in Live
          /\ IsActive(s) /\ Cardinality(members) = 2
          /\ c \in members /\ members \subseteq tracked
          /\ members \subseteq indexed
          /\ \A m \in members : Owner[m] \in Participants(r)
       THEN members \ {c} ELSE {}

---------------------------------------------------------------------------
Next ==
    \/ RunCycle
    \/ \E o \in Clients : DeadlinePasses(o)
    \/ \E r \in Requests : ExpireRequest(r)
    \/ \E c \in Connections :
          \/ Connect(c) \/ Disconnect(c) \/ Pong(c)
          \/ Register(c) \/ RegisterLate(c) \/ RecoverClient(c)
          \/ \E status \in Statuses : UpdatePresence(c, status)
          \/ \E r \in Requests :
                \/ CreateRequest(c, r) \/ AcceptRequest(c, r) \/ RejectRequest(c, r)
                \/ CancelRequest(c, r) \/ CallConnected(c, r)
          \/ \E s \in SessionIds :
                \/ CreateSession(c, s) \/ JoinSession(c, s)
                \/ LeaveSession(c, s) \/ CloseSession(c, s)

Spec == Init /\ [][Next]_vars

\* The interval of the heartbeat and the expiration timers run, and the
\* deadline of a lost client passes.  Clients owe nothing.
LostDeadlinePasses(o) == IsLost(o) /\ DeadlinePasses(o)
Fairness ==
    /\ WF_vars(RunCycle)
    /\ \A o \in Clients : WF_vars(LostDeadlinePasses(o))
    /\ \A r \in Requests : WF_vars(ExpireRequest(r))

FairSpec == Spec /\ Fairness

---------------------------------------------------------------------------
(* Presence, connections and heartbeat agree: a client that is shown as    *)
(* present is watched, on the very connection on which it is shown, which  *)
(* is known to the connection service.  Registration, recovery, timeouts   *)
(* and 'disconnect' update the three managers one after the other.         *)
ShownIsWatched ==
    \A o \in Clients : Shown(o) =>
        /\ heart[o] # None
        /\ heart[o].connection = presence[o].connection
        /\ presence[o].connection \in tracked

(* A connection that stops being its client's is given up by every service *)
(* in the same step and for good: its transport is closed, and neither the  *)
(* connections, nor the index, nor any session keeps it; whether the client *)
(* was timed out, timed out late or has come back on another socket.        *)
IsGivenUp(c) ==
    /\ link[c] = "closed" /\ c \notin tracked /\ c \notin indexed
    /\ \A s \in SessionIds : c \notin sessions[s].members
GivenUpByAll ==
    [][\A c \in Connections : IsWatched(c) /\ ~IsWatched(c)' => IsGivenUp(c)']_vars

(* A request that a teacher has accepted has a call as long as the session *)
(* of that call is open, and no longer: acceptance, session and call are   *)
(* made by three services in one handler, and end in another one.          *)
AcceptedHasCall ==
    \A r \in Requests : requests[r].status = "ACCEPTED" =>
        /\ calls[r].session # None
        /\ calls[r].status \in Live <=> IsOpen(calls[r].session)

(* Signals of a call reach exactly the other participant, and are refused  *)
(* exactly when someone who is not on a current connection is in the way:  *)
(* the router reads connections, presence, sessions and calls, which are   *)
(* updated by different handlers.                                          *)
Reachable(o, c) == heart[o] # None /\ heart[o].connection = c /\ ~heart[o].lost
SignalsReachTheOther ==
    \A r \in Requests, c \in Connections : calls[r].status \in Live =>
        \A d \in Connections :
            Route(c, r) = {d} <=>
                \E student, teacher \in {c, d} :
                    /\ Reachable(requests[r].student, student)
                    /\ Reachable(requests[r].teacher, teacher)
                    /\ student # teacher
                    /\ sessions[calls[r].session].members = {c, d}

(* Connections that are gone are given up in the end: nobody is shown on   *)
(* one and the connection service knows none, whether its client returns   *)
(* in time, returns late or never returns.  A socket closes once, so it is *)
(* enough that no such connection is left from time to time.               *)
HeldOn(c) ==
    \/ Shown(Owner[c]) /\ presence[Owner[c]].connection = c
    \/ c \in tracked
GoneAreHeld == \E c \in Connections : link[c] = "closed" /\ HeldOn(c)
GoneAreGivenUp == GoneAreHeld ~> ~GoneAreHeld

(* Broadcast requests are settled in the end, even if every teacher has    *)
(* rejected one or no teacher was available; a settled request stays so.   *)
SomePending == \E r \in Requests : requests[r].status = "PENDING"
PendingIsSettled == SomePending ~> ~SomePending
====
