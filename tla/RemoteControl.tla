---- MODULE RemoteControl ----
(***************************************************************************)
(* Remote control during one attendance, from both ends: the professor's   *)
(* application asks for the student's mouse and keyboard, the student's    *)
(* application grants them, and RemoteControlGateway in the middle keeps   *)
(* the authorization.  With it comes what decides who may speak: the seats *)
(* and recovery tokens of the attendance, and the two applications' side   *)
(* of its recovery.                                                        *)
(*                                                                         *)
(* The two applications and the server exchange messages over Socket.IO.   *)
(* A connection is a FIFO channel in each direction.  When it is lost, the *)
(* server still reads a prefix of what was sent on it and then             *)
(* 'disconnect', and may first hear the connection that replaces it; what  *)
(* was under way to the application is gone.  A handler is one step.       *)
(*                                                                         *)
(* The buttons of the mouse are left out: the two controllers of the       *)
(* student treat them as they treat the keys.                              *)
(***************************************************************************)
EXTENDS Naturals, Sequences, SequencesExt

CONSTANTS
    Sockets,    \* connections each application may open, in this order
    Keys,       \* keys of a keyboard
    None,       \* JavaScript's undefined
    Limits      \* bounds on the events of the outside world

\* Connections lost, applications restarted, requests, keystrokes, request timeouts,
\* ends of the attendance, and keystrokes that Windows refuses.
Bounded == {"drop", "restart", "request", "stroke", "timeout", "end", "fault"}

ASSUME RemoteControlAssumption ==
    /\ Sockets \subseteq Nat
    /\ 1 \in Sockets
    /\ None \notin Nat
    /\ Limits \subseteq [Bounded -> Nat]

VARIABLES
    server,     \* the attendance and its authorization, in the server's memory
    app,        \* the main process of each application
    pressed,    \* pressedKeys of the professor's RemoteControlClient
    held,       \* pressedKeys of the student's RemoteKeyboardController
    stuck,      \* those of them whose release Windows refused; not kept by the code
    up,         \* messages from each connection to the server
    down,       \* messages to the current connection of each application
    left        \* what is left of the bounds

vars == <<server, app, pressed, held, stuck, up, down, left>>

Roles == {"teacher", "student"}
Peer(r) == IF r = "teacher" THEN "student" ELSE "teacher"

NoAuthorization == [request |-> None, status |-> "none"]
Inactive        == [request |-> None, status |-> "inactive"]

Control(q, s)      == [request |-> q, status |-> s]
Message(kind, n)   == [kind |-> kind, n |-> n]
Input(kind, q, k)  == [kind |-> kind, n |-> q, key |-> k]

Used(limit) == /\ left[limit] > 0
               /\ left' = [left EXCEPT ![limit] = @ - 1]

-----------------------------------------------------------------------------
(* The server's memory *)

\* findProfessorById answers with the oldest socket registered, findStudentById
\* with the only one.
Registered(r) ==
    IF server.present[r] = <<>> THEN None ELSE Head(server.present[r])

\* createDelivery: where a message to a participant is sent.
DeliverySocket(r) ==
    IF server.seat[r] # None THEN server.seat[r] ELSE Registered(r)

\* resolveSignalingRoute, when it does not throw.
Routed(r, s) ==
    /\ ~server.ended
    /\ server.seat[r] = s
    /\ server.seat[Peer(r)] # None

\* requireAuthorization
Authorized(q, statuses) ==
    server.auth.request = q /\ server.auth.status \in statuses

\* A message to a socket the application has left is lost.
Emitted(messages, r, s, m) ==
    IF app[r].online /\ app[r].socket = s
    THEN [messages EXCEPT ![r] = Append(@, m)]
    ELSE messages

Announced(messages, m) ==
    Emitted(Emitted(messages, "teacher", DeliverySocket("teacher"), m),
            "student", DeliverySocket("student"), m)

Hears(r, s, kinds) ==
    /\ up[r][s] # <<>>
    /\ Head(up[r][s]).kind \in kinds
    /\ up' = [up EXCEPT ![r][s] = Tail(@)]

Heard(r, s) == Head(up[r][s])

\* finishSession with the gateway's listener, then emitToParticipants.
Finish ==
    /\ server' = [server EXCEPT !.ended = TRUE, !.due = "no",
                                !.seat = [r \in Roles |-> None],
                                !.auth = NoAuthorization]
    /\ down' = Announced(
            IF server.auth = NoAuthorization THEN down
            ELSE Announced(down, Message("stop", server.auth.request)),
            Message("ended", None))

-----------------------------------------------------------------------------
(* The server's listeners *)

\* 'professor:online' and 'student:register'
Register(r, s) ==
    /\ Hears(r, s, {"register"})
    /\ server' = [server EXCEPT !.present[r] =
                    IF r = "student" THEN <<s>> ELSE Append(@, s)]
    /\ UNCHANGED <<app, pressed, held, stuck, down, left>>

\* The presence managers and markParticipantDisconnected.
Disconnected(r, s) ==
    /\ Hears(r, s, {"disconnect"})
    /\ server' = [server EXCEPT
            !.present[r] = SelectSeq(@, LAMBDA other : other # s),
            !.seat[r] = IF @ = s THEN None ELSE @,
            !.due = IF server.seat[r] = s THEN "running" ELSE @]
    /\ UNCHANGED <<app, pressed, held, stuck, down, left>>

MayRecover(r, token) ==
    /\ ~server.ended
    /\ token = server.token[r]
    /\ server.due # "passed"

\* Mutant of Recovered: the answer does not say the new token.
Recovered_TokenUnsaid(r, s) ==
    /\ server' = [server EXCEPT
            !.token[r] = @ + 1,
            !.seat[r] = s,
            !.due = IF server.seat[Peer(r)] # None THEN "no" ELSE @]
    /\ down' = Emitted(Emitted(down, Peer(r), DeliverySocket(Peer(r)),
                               Message("recovered", None)),
                       r, s, Message("recovered", None))

\* recoverSession: the token is used up, and only the participant that comes
\* back is told the next one.
Recovered(r, s) ==
    /\ server' = [server EXCEPT
            !.token[r] = @ + 1,
            !.seat[r] = s,
            !.due = IF server.seat[Peer(r)] # None THEN "no" ELSE @]
    /\ down' = Emitted(Emitted(down, Peer(r), DeliverySocket(Peer(r)),
                               Message("recovered", None)),
                       r, s, Message("recovered", server.token[r] + 1))

\* 'session:recover'; an error is the answer of the acknowledgement.
RecoverSession(r, s) ==
    /\ Hears(r, s, {"recover"})
    /\ \/ MayRecover(r, Heard(r, s).n) /\ Recovered(r, s)
       \/ /\ ~MayRecover(r, Heard(r, s).n)
          /\ down' = Emitted(down, r, s, Message("refused", None))
          /\ UNCHANGED server
    /\ UNCHANGED <<app, pressed, held, stuck, left>>

\* 'session:end': with a token (discardRecovery) it need not come from a seat.
EndSession(r, s) ==
    /\ Hears(r, s, {"end"})
    /\ IF /\ ~server.ended
          /\ IF Heard(r, s).n = None
             THEN s \in {server.seat[p] : p \in Roles}
             ELSE Heard(r, s).n = server.token[r]
       THEN Finish
       ELSE UNCHANGED <<server, down>>
    /\ UNCHANGED <<app, pressed, held, stuck, left>>

\* Mutant of OnRequest: asking is enough.
OnRequest_Granted(s) ==
    LET q == Heard("teacher", s).n IN
    /\ Hears("teacher", s, {"request"})
    /\ IF Routed("teacher", s) /\ server.auth = NoAuthorization
       THEN /\ server' = [server EXCEPT !.auth = Control(q, "active")]
            /\ down' = Emitted(down, "student", server.seat["student"],
                               Message("request", q))
       ELSE UNCHANGED <<server, down>>
    /\ UNCHANGED <<app, pressed, held, stuck, left>>

\* REQUEST: one authorization at a time, or the request is dropped unanswered.
OnRequest(s) ==
    LET q == Heard("teacher", s).n IN
    /\ Hears("teacher", s, {"request"})
    /\ IF Routed("teacher", s) /\ server.auth = NoAuthorization
       THEN /\ server' = [server EXCEPT !.auth = Control(q, "pending")]
            /\ down' = Emitted(down, "student", server.seat["student"],
                               Message("request", q))
       ELSE UNCHANGED <<server, down>>
    /\ UNCHANGED <<app, pressed, held, stuck, left>>

\* APPROVED and DENIED
OnAnswer(s) ==
    LET m == Heard("student", s) IN
    /\ Hears("student", s, {"approved", "denied"})
    /\ IF Routed("student", s) /\ Authorized(m.n, {"pending"})
       THEN /\ server' = [server EXCEPT !.auth =
                    IF m.kind = "approved" THEN Control(m.n, "active")
                                           ELSE NoAuthorization]
            /\ down' = Emitted(down, "teacher", server.seat["teacher"], m)
       ELSE UNCHANGED <<server, down>>
    /\ UNCHANGED <<app, pressed, held, stuck, left>>

\* KEYBOARD
OnInput(s) ==
    LET m == Heard("teacher", s) IN
    /\ Hears("teacher", s, {"keydown", "keyup"})
    /\ down' = IF Routed("teacher", s) /\ Authorized(m.n, {"active"})
               THEN Emitted(down, "student", server.seat["student"], m)
               ELSE down
    /\ UNCHANGED <<server, app, pressed, held, stuck, left>>

\* Mutant of OnStop: the other participant is not told.
OnStop_Silent(r, s) ==
    /\ Hears(r, s, {"stop"})
    /\ server' = IF /\ Routed(r, s)
                    /\ Authorized(Heard(r, s).n, {"pending", "active"})
                 THEN [server EXCEPT !.auth = NoAuthorization]
                 ELSE server
    /\ UNCHANGED <<app, pressed, held, stuck, down, left>>

\* STOP, from either side; when the other one is away it is dropped.
OnStop(r, s) ==
    LET m == Heard(r, s) IN
    /\ Hears(r, s, {"stop"})
    /\ IF Routed(r, s) /\ Authorized(m.n, {"pending", "active"})
       THEN /\ server' = [server EXCEPT !.auth = NoAuthorization]
            /\ down' = Emitted(down, Peer(r), server.seat[Peer(r)], m)
       ELSE UNCHANGED <<server, down>>
    /\ UNCHANGED <<app, pressed, held, stuck, left>>

\* scheduleAuthorizationTimeout, where a request timeout is configured.
RequestTimeout ==
    /\ server.auth.status = "pending"
    /\ Used("timeout")
    /\ server' = [server EXCEPT !.auth = NoAuthorization]
    /\ down' = Announced(down, Message("stop", server.auth.request))
    /\ UNCHANGED <<app, pressed, held, stuck, up>>

\* The clock passes recoveryDeadline, ...
DeadlinePasses ==
    /\ server.due = "running"
    /\ server' = [server EXCEPT !.due = "passed"]
    /\ UNCHANGED <<app, pressed, held, stuck, up, down, left>>

\* ... and the coordinator's timer calls expireRecovery.
ExpireRecovery ==
    /\ server.due = "passed"
    /\ Finish
    /\ UNCHANGED <<app, pressed, held, stuck, up, left>>

ServerHears(r, s) ==
    \/ Register(r, s)
    \/ Disconnected(r, s)
    \/ RecoverSession(r, s)
    \/ EndSession(r, s)
    \/ r = "teacher" /\ (OnRequest(s) \/ OnInput(s))
    \/ r = "student" /\ OnAnswer(s)
    \/ OnStop(r, s)

-----------------------------------------------------------------------------
(* What both applications do with their connection *)

Sent(messages, r, m) == [messages EXCEPT ![r][app[r].socket] = Append(@, m)]

\* An application is in an attendance, connected.
InSession(r) == app[r].session /\ app[r].online

Recoverable(a) == a.stored # None /\ a.startup = "settled"

\* socket.on('connect'): the attendance is recovered unless the question of
\* the last start is still open.
Connect(r) ==
    LET s == app[r].socket + 1 IN
    /\ ~app[r].online
    /\ s \in Sockets
    /\ app' = [app EXCEPT ![r].online = TRUE, ![r].socket = s]
    /\ up' = [up EXCEPT ![r][s] =
                <<Message("register", None)>> \o
                IF Recoverable(app[r]) THEN <<Message("recover", app[r].stored)>>
                                       ELSE <<>>]
    /\ UNCHANGED <<server, pressed, held, stuck, down, left>>

Cut(r) ==
    \E n \in 0 .. Len(up[r][app[r].socket]) :
        /\ up' = [up EXCEPT ![r][app[r].socket] =
                    Append(SubSeq(@, 1, n), Message("disconnect", None))]
        /\ down' = [down EXCEPT ![r] = <<>>]

\* The end of a control on one side: the student's receiver lets go of the
\* keys, the professor's window stops listening to its keyboard.
Let(r) ==
    /\ pressed' = IF r = "teacher" THEN {} ELSE pressed
    /\ held' = IF r = "student" THEN {} ELSE held
    /\ stuck' = IF r = "student" THEN {} ELSE stuck

\* 'disconnect' on either side: handleTransportLoss keeps the authorization
\* and the keys, and the professor's controller its own state.
Lose(r) ==
    /\ app[r].online
    /\ Used("drop")
    /\ Cut(r)
    /\ app' = [app EXCEPT ![r].online = FALSE]
    /\ UNCHANGED <<server, pressed, held, stuck>>

\* The application is closed, its keys are released, and it starts again: the
\* student's finds its attendance in the stored recovery.  What the file holds is
\* any token written to it, or nothing that can be read.
Restart(r) ==
    /\ Used("restart")
    /\ IF app[r].online THEN Cut(r) ELSE UNCHANGED <<up, down>>
    /\ \E token \in app[r].disk \cup {None} : app' = [app EXCEPT ![r] =
            [online |-> FALSE, socket |-> app[r].socket, control |-> Inactive,
             stored |-> token, disk |-> {token} \ {None},
             session |-> r = "student" /\ token # None,
             startup |-> IF token = None THEN "settled" ELSE "asking"]]
    /\ Let(r)
    /\ UNCHANGED server

\* "Deseja retomar?" is asked once.  Answered yes before the connection is up,
\* resumeSession throws and the question is not asked again.
Resume(r) ==
    /\ app[r].startup = "asking"
    /\ IF app[r].online /\ app[r].stored # None
       THEN /\ app' = [app EXCEPT ![r].startup = "settled"]
            /\ up' = Sent(up, r, Message("recover", app[r].stored))
       ELSE /\ app' = [app EXCEPT ![r].startup = "ignored"]
            /\ UNCHANGED up
    /\ UNCHANGED <<server, pressed, held, stuck, down, left>>

\* discardRecovery
Discard(r) ==
    /\ app[r].startup = "asking"
    /\ app' = [app EXCEPT ![r].startup = "settled", ![r].stored = None]
    /\ up' = IF app[r].online /\ app[r].stored # None
             THEN Sent(up, r, Message("end", app[r].stored)) ELSE up
    /\ UNCHANGED <<server, pressed, held, stuck, down, left>>

\* endSession
ClickEnd(r) ==
    /\ InSession(r)
    /\ Used("end")
    /\ up' = Sent(up, r, Message("end", None))
    /\ UNCHANGED <<server, app, pressed, held, stuck, down>>

\* stopRemoteControl; the student's also when the screen stops being shared.
ClickStop(r) ==
    /\ InSession(r)
    /\ app[r].control # Inactive
    /\ up' = Sent(up, r, Message("stop", app[r].control.request))
    /\ app' = [app EXCEPT ![r].control = Inactive]
    /\ Let(r)
    /\ UNCHANGED <<server, down, left>>

-----------------------------------------------------------------------------
(* The professor's clicks and keystrokes *)

RequestRemoteControl ==
    LET q == left["request"] IN
    /\ InSession("teacher")
    /\ app["teacher"].control = Inactive
    /\ Used("request")
    /\ app' = [app EXCEPT !["teacher"].control = Control(q, "pending")]
    /\ up' = Sent(up, "teacher", Message("request", q))
    /\ UNCHANGED <<server, pressed, held, stuck, down>>

Controls == app["teacher"].control.status = "active"

\* handleKeyboardEvent; a call that fails stops the client, which forgets its
\* keys, until the next snapshot starts it again.
Stroke(kind, k) ==
    /\ Controls
    /\ Used("stroke")
    /\ IF InSession("teacher")
       THEN /\ pressed' = IF kind = "keydown" THEN pressed \cup {k}
                                              ELSE pressed \ {k}
            /\ up' = Sent(up, "teacher",
                          Input(kind, app["teacher"].control.request, k))
       ELSE pressed' = {} /\ UNCHANGED up
    /\ UNCHANGED <<server, app, held, stuck, down>>

\* Mutant of FocusLost: the keys are forgotten and not released.
FocusLost_Forgets ==
    /\ Controls
    /\ pressed # {}
    /\ pressed' = {}
    /\ UNCHANGED <<server, app, held, stuck, up, down, left>>

\* 'blur' and 'visibilitychange': releasePressedInputs
FocusLost ==
    /\ Controls
    /\ pressed # {}
    /\ pressed' = {}
    /\ up' = IF ~InSession("teacher") THEN up
             ELSE [up EXCEPT !["teacher"][app["teacher"].socket] = @ \o
                    [i \in DOMAIN SetToSeq(pressed) |->
                        Input("keyup", app["teacher"].control.request,
                              SetToSeq(pressed)[i])]]
    /\ UNCHANGED <<server, app, held, stuck, down, left>>

-----------------------------------------------------------------------------
(* The student's clicks *)

\* approveRemoteControl and denyRemoteControl
Answer(kind) ==
    LET q == app["student"].control.request IN
    /\ InSession("student")
    /\ app["student"].control.status = "pending"
    /\ app' = [app EXCEPT !["student"].control =
                IF kind = "approved" THEN Control(q, "active") ELSE Inactive]
    /\ up' = Sent(up, "student", Message(kind, q))
    /\ UNCHANGED <<server, pressed, held, stuck, down, left>>

-----------------------------------------------------------------------------
(* The applications' listeners *)

Reads(r, kinds) ==
    /\ down[r] # <<>>
    /\ Head(down[r]).kind \in kinds
    /\ down' = [down EXCEPT ![r] = Tail(@)]

Read(r) == Head(down[r])

\* saveRecovery: the memory has the token; the write to the file is not awaited,
\* so it may fail, come late, or come after the next.
Saved(a, token) ==
    IF token = None THEN a
    ELSE [a EXCEPT !.stored = token, !.disk = @ \cup {token}]

\* clearRecovery, whose removal of the file is not awaited either.
Forgotten(a) == [a EXCEPT !.stored = None]

\* 'session:started'
ReadStarted(r) ==
    /\ Reads(r, {"started"})
    /\ app' = [app EXCEPT ![r] = [Saved(@, Read(r).n) EXCEPT
                                    !.session = TRUE, !.control = Inactive]]
    /\ Let(r)
    /\ UNCHANGED <<server, up, left>>

\* 'session:recovered'; the control is kept as it is.
ReadRecovered(r) ==
    /\ Reads(r, {"recovered"})
    /\ app' = IF app[r].session \/ (r = "teacher" /\ app[r].stored # None)
              THEN [app EXCEPT ![r] = [Saved(@, Read(r).n) EXCEPT !.session = TRUE]]
              ELSE app
    /\ UNCHANGED <<server, pressed, held, stuck, up, left>>

\* 'session:ended'.  The student's updateSessionState is called with undefined
\* for activeSessionId, which its default parameter turns into the id it had.
ReadEnded(r) ==
    /\ Reads(r, {"ended"})
    /\ IF app[r].session
       THEN /\ app' = [app EXCEPT ![r] = [Forgotten(@) EXCEPT
                        !.session = (r = "student"), !.control = Inactive]]
            /\ Let(r)
       ELSE UNCHANGED <<app, pressed, held, stuck>>
    /\ UNCHANGED <<server, up, left>>

\* Mutant of ReadRefused: the token that was refused is kept.
ReadRefused_Kept(r) ==
    /\ Reads(r, {"refused"})
    /\ UNCHANGED <<server, app, pressed, held, stuck, up, left>>

\* The acknowledgement of recoverCurrentSession says no.
ReadRefused(r) ==
    /\ Reads(r, {"refused"})
    /\ app' = [app EXCEPT ![r] = Forgotten(@)]
    /\ UNCHANGED <<server, pressed, held, stuck, up, left>>

\* receiveRequest
ReadRequest ==
    /\ Reads("student", {"request"})
    /\ app' = IF app["student"].session /\ app["student"].control = Inactive
              THEN [app EXCEPT !["student"].control =
                        Control(Read("student").n, "pending")]
              ELSE app
    /\ UNCHANGED <<server, pressed, held, stuck, up, left>>

\* APPROVED and DENIED at the professor's.
ReadAnswer ==
    LET m == Read("teacher") IN
    /\ Reads("teacher", {"approved", "denied"})
    /\ app' = IF app["teacher"].control # Control(m.n, "pending") THEN app
              ELSE [app EXCEPT !["teacher"].control =
                    IF m.kind = "approved" THEN Control(m.n, "active") ELSE Inactive]
    /\ UNCHANGED <<server, pressed, held, stuck, up, left>>

\* receiveKeyboard, when Windows takes the stroke; ...
Injected(m) ==
    /\ held' = IF m.kind = "keydown" THEN held \cup {m.key} ELSE held \ {m.key}
    /\ stuck' = stuck \ {m.key}
    /\ UNCHANGED left

\* ... and when it throws ("Evento ignorado; controle mantido"): a key that did not
\* go up stays in pressedKeys, and one that is not there is not released at all.
Refused(m) ==
    /\ Used("fault")
    /\ stuck' = IF m.kind = "keyup" THEN stuck \cup (held \cap {m.key}) ELSE stuck
    /\ UNCHANGED held

ReadInput ==
    LET m == Read("student") IN
    /\ Reads("student", {"keydown", "keyup"})
    /\ IF app["student"].control = Control(m.n, "active")
       THEN Injected(m) \/ Refused(m)
       ELSE UNCHANGED <<held, stuck, left>>
    /\ UNCHANGED <<server, app, pressed, up>>

\* receiveStop, and STOP at the professor's.
ReadStop(r) ==
    /\ Reads(r, {"stop"})
    /\ IF app[r].control.request = Read(r).n
       THEN /\ app' = [app EXCEPT ![r].control = Inactive]
            /\ Let(r)
       ELSE UNCHANGED <<app, pressed, held, stuck>>
    /\ UNCHANGED <<server, up, left>>

ApplicationReads(r) ==
    \/ ReadStarted(r)
    \/ ReadRecovered(r)
    \/ ReadEnded(r)
    \/ ReadRefused(r)
    \/ ReadStop(r)
    \/ r = "student" /\ (ReadRequest \/ ReadInput)
    \/ r = "teacher" /\ ReadAnswer

-----------------------------------------------------------------------------
\* The attendance has started and both applications are about to read so.
Init ==
    /\ server = [ended |-> FALSE, due |-> "no", auth |-> NoAuthorization,
                 seat |-> [r \in Roles |-> 1], token |-> [r \in Roles |-> 1],
                 present |-> [r \in Roles |-> <<1>>]]
    /\ app = [r \in Roles |->
                [online |-> TRUE, socket |-> 1, control |-> Inactive,
                 stored |-> None, disk |-> {}, session |-> FALSE,
                 startup |-> "settled"]]
    /\ pressed = {}
    /\ held = {}
    /\ stuck = {}
    /\ up = [r \in Roles |-> [s \in Sockets |-> <<>>]]
    /\ down = [r \in Roles |-> <<Message("started", 1)>>]
    /\ left \in Limits

Clicks(r) == Resume(r) \/ Discard(r) \/ ClickEnd(r) \/ ClickStop(r)

Professor ==
    \/ RequestRemoteControl
    \/ FocusLost
    \/ \E kind \in {"keydown", "keyup"}, k \in Keys : Stroke(kind, k)

Student == \E kind \in {"approved", "denied"} : Answer(kind)

Next ==
    \/ \E r \in Roles, s \in Sockets : ServerHears(r, s)
    \/ \E r \in Roles : ApplicationReads(r) \/ Clicks(r)
    \/ \E r \in Roles : Connect(r) \/ Lose(r) \/ Restart(r)
    \/ Professor
    \/ Student
    \/ RequestTimeout
    \/ DeadlinePasses
    \/ ExpireRecovery

Spec == Init /\ [][Next]_vars

\* The event loops run and the timers fire; nobody has to click, and no
\* connection has to be lost.
Fairness ==
    /\ \A r \in Roles : WF_vars(ApplicationReads(r))
    /\ \A r \in Roles, s \in Sockets : WF_vars(ServerHears(r, s))
    /\ WF_vars(DeadlinePasses)
    /\ WF_vars(ExpireRecovery)

FairSpec == Spec /\ Fairness

-----------------------------------------------------------------------------
(* Properties *)

Tokens   == Nat \cup {None}
Controlled == [request : Nat, status : {"pending", "active"}]
Names    == {"register", "disconnect", "recover", "end", "request", "approved",
             "denied", "stop", "started", "recovered", "refused", "ended"}
Messages == [kind : Names, n : Tokens]
                \cup [kind : {"keydown", "keyup"}, n : Nat, key : Keys]

Connections == Sockets \cup {None}

ServerRecords ==
    [ended : BOOLEAN, due : {"no", "running", "passed"},
     auth : Controlled \cup {NoAuthorization},
     seat : [Roles -> Connections], token : [Roles -> Nat],
     present : [Roles -> Seq(Sockets)]]

AppRecords ==
    [online : BOOLEAN, socket : Sockets, control : Controlled \cup {Inactive},
     stored : Tokens, disk : SUBSET Nat, session : BOOLEAN,
     startup : {"settled", "asking", "ignored"}]

\* The variables have their types; keys are down only under an active control.
TypeOK ==
    /\ server \in ServerRecords
    /\ app \in [Roles -> AppRecords]
    /\ pressed \subseteq Keys
    /\ held \subseteq Keys
    /\ stuck \subseteq held
    /\ up \in [Roles -> [Sockets -> Seq(Messages)]]
    /\ down \in [Roles -> Seq(Messages)]
    /\ left \in [Bounded -> Nat]
    /\ held # {} => app["student"].control.status = "active"
    /\ pressed # {} => Controls

InFlight(messages, kinds, n) ==
    \E i \in DOMAIN messages : messages[i].kind \in kinds /\ messages[i].n = n

\* Nobody controls before the student has said so: while the student is being
\* asked, or the question is still on its way, neither the gateway nor the
\* professor's application takes the request for granted, whatever was lost
\* and whoever came back.
StudentDecides ==
    \A granted \in {server.auth, app["teacher"].control} :
        granted.status = "active" =>
            /\ app["student"].control # Control(granted.request, "pending")
            /\ ~InFlight(down["student"], {"request"}, granted.request)

\* recoverSession replaces a token that the application still keeps: an application
\* that holds its seat over its present connection has in memory the token the
\* server now asks for, or is about to read it, whichever of its writes to the file
\* it started from.
SeatedCanRecover ==
    \A r \in Roles :
        app[r].online /\ server.seat[r] = app[r].socket =>
            \/ app[r].stored = server.token[r]
            \/ InFlight(down[r], {"started", "recovered"}, server.token[r])

\* No connection of this attendance has been lost.
Undisturbed == \A r \in Roles : app[r].online /\ app[r].socket = 1

Quiet == \A r \in Roles : up[r][1] = <<>> /\ down[r] = <<>>

\* When all messages have arrived, the three parties agree on the control:
\* clicks that crossed, a timeout that met an approval, a second request after
\* a stop leave none of them behind.
ControlsAgree ==
    Undisturbed /\ Quiet =>
        /\ app["teacher"].control = app["student"].control
        /\ server.auth = NoAuthorization <=> app["teacher"].control = Inactive
        /\ server.auth # NoAuthorization => server.auth = app["student"].control

\* A key held down on the student's computer is one the professor still holds,
\* or its release is on its way: the key going up, the control being stopped,
\* the attendance ending.  Only a key whose release Windows refused stays down
\* without one: the control goes on, and pressedKeys keeps it for the next stroke of
\* that key or the end of the control.
HeldIsPressed ==
    Undisturbed => \A k \in held :
        \/ k \in pressed
        \/ k \in stuck
        \/ \E messages \in {up["teacher"][1], down["student"]} :
              \E i \in DOMAIN messages :
                  LET m == messages[i] IN
                  \/ m.kind \in {"stop", "ended"}
                  \/ m.kind = "keyup" /\ m.key = k

\* An attendance that is over is not offered again: every application comes to
\* forget the token, unless it is not connected or its user has yet to answer
\* whether the interrupted attendance should be resumed.
OverIsForgotten ==
    \A r \in Roles : server.ended ~>
        \/ app[r].stored = None
        \/ ~app[r].online
        \/ app[r].startup # "settled"
====
