---- MODULE WorkflowProofs ----
(***************************************************************************)
(* Proofs about the workflow services, for any number of clients, sockets, *)
(* requests and sessions.  The inductive invariant has two parts: where a  *)
(* client is, which relates the four managers of a place (transport,       *)
(* connections, presence, heartbeat), and what a request has led to, which *)
(* relates requests, sessions and calls.                                   *)
(***************************************************************************)
EXTENDS Workflow, FiniteSetTheorems, TLAPS

Appearances == [status : {"none", "ONLINE", "AVAILABLE", "BUSY", "OFFLINE"},
                connection : Connections \union {None}]
Hearts == [connection : Connections, lost : BOOLEAN, due : BOOLEAN]
Meetings == [phase : {"unused", "open", "closed"}, members : SUBSET Connections]
Broadcasts == [status : {"none", "PENDING", "ACCEPTED", "CANCELLED", "EXPIRED"},
               student : Students \union {None}, teacher : Teachers \union {None},
               recipients : SUBSET Teachers, rejected : SUBSET Teachers]
Phones == [status : {"none", "removed"} \union Live, session : SessionIds \union {None}]

\* TypeOK with the types of its records named.
Typed ==
    /\ link \in [Connections -> {"new", "open", "closed"}]
    /\ tracked \subseteq Connections /\ indexed \subseteq Connections
    /\ presence \in [Clients -> Appearances]
    /\ heart \in [Clients -> {None} \union Hearts]
    /\ sessions \in [SessionIds -> Meetings]
    /\ requests \in [Requests -> Broadcasts]
    /\ armed \subseteq Requests
    /\ calls \in [Requests -> Phones]

\* A client is watched on a socket of its own that is known, is shown there,
\* and has lost it exactly when its transport is closed.
Place(o) ==
    /\ Owner[heart[o].connection] = o
    /\ heart[o].connection \in tracked
    /\ Shown(o) /\ presence[o].connection = heart[o].connection
    /\ link[heart[o].connection] = IF heart[o].lost THEN "closed" ELSE "open"

Places ==
    /\ \A o \in Clients : heart[o] # None => Place(o)
    /\ \A o \in Clients : Shown(o) => heart[o] # None
    /\ \A o \in Clients : presence[o].connection # None => Owner[presence[o].connection] = o
    /\ \A c \in Connections : link[c] = "open" => c \in tracked
    /\ \A c \in Connections : c \in indexed <=> IsWatched(c) /\ ~heart[Owner[c]].lost

\* What the request r has led to: the session of an accepted request is open
\* as long as its call lives, and an id that is a request's is the id of a
\* session only once that request is accepted.
Outcome(r) ==
    /\ requests[r].status \in {"PENDING", "ACCEPTED"} => requests[r].student \in Students
    /\ requests[r].status = "ACCEPTED" =>
          /\ requests[r].teacher \in Teachers
          /\ calls[r].session # None
          /\ sessions[calls[r].session].phase # "unused"
          /\ calls[r].status \in Live <=> IsOpen(calls[r].session)
          /\ calls[r].session \in Requests => requests[calls[r].session].status = "ACCEPTED"
    /\ calls[r].status \in Live => requests[r].status = "ACCEPTED"
    /\ IsOpen(r) => requests[r].status = "ACCEPTED"

Outcomes == \A r \in Requests : Outcome(r)

IInv == Typed /\ Places /\ Outcomes

-----------------------------------------------------------------------------
(* Initial states *)

\* The named record sets are those of the type invariant.
LEMMA TypedIsTypeOK == Typed <=> TypeOK
BY DEF Typed, TypeOK, Appearances, Hearts, Meetings, Broadcasts, Phones

\* At first nobody is connected and no session is open.
LEMMA InitLemma ==
    ASSUME Init
    PROVE  IInv
<1>0. PICK cast \in Casts : Init!(cast)
  BY DEF Init
<1>1. Typed
  BY <1>0, WorkflowAssumption, TypedIsTypeOK DEF TypeOK, Live, SessionIds
<1>2. Places
  BY <1>0, WorkflowAssumption DEF Places, Shown, IsWatched
<1>3. Outcomes
  BY <1>0 DEF Outcomes, Outcome, Live, IsOpen, SessionIds
<1> QED BY <1>1, <1>2, <1>3 DEF IInv

-----------------------------------------------------------------------------
(* Types *)

\* A record of which one field changes keeps its type.
LEMMA FieldLemma ==
    /\ \A p \in Appearances, status \in {"ONLINE", "AVAILABLE", "BUSY", "OFFLINE"} :
          [p EXCEPT !.status = status] \in Appearances
    /\ \A h \in Hearts, b \in BOOLEAN :
          [h EXCEPT !.lost = b] \in Hearts /\ [h EXCEPT !.due = b] \in Hearts
    /\ \A m \in Meetings, S \in SUBSET Connections : [m EXCEPT !.members = S] \in Meetings
    /\ \A m \in Meetings : [m EXCEPT !.phase = "open"] \in Meetings
    /\ \A q \in Broadcasts, status \in {"PENDING", "ACCEPTED", "CANCELLED", "EXPIRED"} :
          [q EXCEPT !.status = status] \in Broadcasts
    /\ \A q \in Broadcasts, o \in Students : [q EXCEPT !.student = o] \in Broadcasts
    /\ \A q \in Broadcasts, o \in Teachers : [q EXCEPT !.teacher = o] \in Broadcasts
    /\ \A q \in Broadcasts, S \in SUBSET Teachers :
          [q EXCEPT !.recipients = S] \in Broadcasts /\ [q EXCEPT !.rejected = S] \in Broadcasts
    /\ \A p \in Phones, status \in {"removed"} \union Live :
          [p EXCEPT !.status = status] \in Phones
<1>1. \A p \in Appearances, status \in {"ONLINE", "AVAILABLE", "BUSY", "OFFLINE"} :
          [p EXCEPT !.status = status] \in Appearances
  BY DEF Appearances
<1>2. \A h \in Hearts, b \in BOOLEAN :
          [h EXCEPT !.lost = b] \in Hearts /\ [h EXCEPT !.due = b] \in Hearts
  BY DEF Hearts
<1>3. \A m \in Meetings, S \in SUBSET Connections : [m EXCEPT !.members = S] \in Meetings
  BY DEF Meetings
<1>4. \A m \in Meetings : [m EXCEPT !.phase = "open"] \in Meetings
  BY DEF Meetings
<1>5. \A q \in Broadcasts, status \in {"PENDING", "ACCEPTED", "CANCELLED", "EXPIRED"} :
          [q EXCEPT !.status = status] \in Broadcasts
  BY DEF Broadcasts
<1>6. \A q \in Broadcasts, o \in Students : [q EXCEPT !.student = o] \in Broadcasts
  BY DEF Broadcasts
<1>7. \A q \in Broadcasts, o \in Teachers : [q EXCEPT !.teacher = o] \in Broadcasts
  BY DEF Broadcasts
<1>8. \A q \in Broadcasts, S \in SUBSET Teachers :
          [q EXCEPT !.recipients = S] \in Broadcasts /\ [q EXCEPT !.rejected = S] \in Broadcasts
  BY DEF Broadcasts
<1>9. \A p \in Phones, status \in {"removed"} \union Live :
          [p EXCEPT !.status = status] \in Phones
  BY DEF Phones
<1> QED BY <1>1, <1>2, <1>3, <1>4, <1>5, <1>6, <1>7, <1>8, <1>9

\* A heartbeat renews the record of its own connection.
LEMMA BeatingLemma ==
    \A c \in Connections : Beating(c) \in Hearts /\ Beating(c) # None
<1>1. \A c \in Connections : Beating(c) \in Hearts
  BY DEF Beating, Hearts
<1>2. None \notin Hearts
  BY WorkflowAssumption DEF Hearts
<1> QED BY <1>1, <1>2

\* What handleTimeout leaves is well typed.
LEMMA TimedOutTyped ==
    ASSUME Typed, NEW S \in SUBSET Clients, \A o \in S : heart[o] # None, TimedOut(S),
           UNCHANGED <<requests, armed, calls>>
    PROVE  Typed'
<1> USE DEF Typed
<1>1. link' \in [Connections -> {"new", "open", "closed"}]
  BY DEF TimedOut
<1>2. tracked' \subseteq Connections /\ indexed' \subseteq Connections
  BY DEF TimedOut
<1>3. presence' \in [Clients -> Appearances]
  BY FieldLemma DEF TimedOut
<1>4. heart' \in [Clients -> {None} \union Hearts]
  BY DEF TimedOut
<1>5. sessions' \in [SessionIds -> Meetings]
  <2>1. \A s \in SessionIds : sessions[s].members \in SUBSET Connections
    BY DEF Meetings
  <2> QED BY <2>1, FieldLemma DEF TimedOut, SessionsWithout
<1> QED BY <1>1, <1>2, <1>3, <1>4, <1>5

\* Every step keeps the types.
LEMMA TypeLemma ==
    ASSUME Typed, [Next]_vars
    PROVE  Typed'
<1> USE FieldLemma DEF Typed
<1>a. \A c \in Connections : Owner[c] \in Clients /\ Beating(c) \in Hearts
  BY WorkflowAssumption, BeatingLemma
<1>b. \A o \in Clients, c \in Connections, status \in {"none", "ONLINE", "AVAILABLE", "BUSY"} :
         ShowOn(o, c, status) => /\ presence' \in [Clients -> Appearances]
                                 /\ indexed' \subseteq Connections
  BY DEF ShowOn, Appearances
<1>c. \A s \in SessionIds : sessions[s].members \in SUBSET Connections
  BY DEF Meetings
<1>d. \A r \in Requests : /\ requests[r].recipients \subseteq Teachers
                        /\ requests[r].rejected \subseteq Teachers
  BY DEF Broadcasts
<1>1. CASE RunCycle
  BY <1>1, TimedOutTyped DEF RunCycle, Expired, IsDue
<1>2. ASSUME NEW o \in Clients, DeadlinePasses(o) PROVE Typed'
  BY <1>2 DEF DeadlinePasses
<1>3. ASSUME NEW r \in Requests, ExpireRequest(r) PROVE Typed'
  BY <1>3 DEF ExpireRequest, places
<1>4. ASSUME NEW c \in Connections, Connect(c) PROVE Typed'
  BY <1>4 DEF Connect
<1>5. ASSUME NEW c \in Connections, Disconnect(c) PROVE Typed'
  <2>1. CASE IsWatched(c)
    <3>1. heart' \in [Clients -> {None} \union Hearts]
      <4>1. heart[Owner[c]] \in Hearts
        BY <2>1, <1>a DEF IsWatched
      <4>2. [heart[Owner[c]] EXCEPT !.lost = TRUE] \in Hearts
        BY <4>1
      <4> QED BY <1>5, <2>1, <4>2, <1>a DEF Disconnect
    <3> QED BY <1>5, <2>1, <3>1 DEF Disconnect
  <2>2. CASE ~IsWatched(c)
    BY <1>5, <2>2 DEF Disconnect
  <2> QED BY <2>1, <2>2
<1>6. ASSUME NEW c \in Connections, Pong(c) PROVE Typed'
  BY <1>6, <1>a DEF Pong, IsWatched
<1>7. ASSUME NEW c \in Connections, Register(c) PROVE Typed'
  BY <1>7, <1>a, <1>b DEF Register
<1>8. ASSUME NEW c \in Connections, RegisterLate(c) PROVE Typed'
  <2> DEFINE o == Owner[c]
             old == heart[o].connection
  <2>1. CASE c = old
    BY <1>8, <2>1, <1>a, TimedOutTyped DEF RegisterLate, IsDue
  <2>2. CASE c # old
    <3>1. /\ link' = [link EXCEPT ![old] = "closed"] /\ tracked' = tracked \ {old}
          /\ sessions' = SessionsWithout({old}) /\ ShowOn(o, c, "ONLINE")
          /\ heart' = [heart EXCEPT ![o] = Beating(c)]
          /\ UNCHANGED <<requests, armed, calls>>
      BY <1>8, <2>2 DEF RegisterLate
    <3>2. sessions' \in [SessionIds -> Meetings]
      BY <3>1, <1>c DEF SessionsWithout
    <3> QED BY <3>1, <3>2, <1>a, <1>b
  <2> QED BY <2>1, <2>2
<1>9. ASSUME NEW c \in Connections, RecoverClient(c) PROVE Typed'
  <2> DEFINE o == Owner[c]
             old == heart[o].connection
  <2>1. /\ heart' = [heart EXCEPT ![o] = Beating(c)] /\ tracked' = tracked \ {old}
        /\ UNCHANGED <<link, requests, armed, calls>>
    BY <1>9 DEF RecoverClient
  <2>2. CASE presence[o].status = "OFFLINE"
    BY <1>9, <2>1, <2>2, <1>a DEF RecoverClient
  <2>3. CASE presence[o].status # "OFFLINE"
    <3>1. presence[o].status \in {"none", "ONLINE", "AVAILABLE", "BUSY"}
      BY <2>3, <1>a DEF Appearances
    <3>2. presence' \in [Clients -> Appearances] /\ indexed' \subseteq Connections
      <4>1. ShowOn(o, c, presence[o].status)
        BY <1>9, <2>3 DEF RecoverClient
      <4> QED BY <4>1, <3>1, <1>a, <1>b
    <3>3. sessions' \in [SessionIds -> Meetings]
      <4>1. \A s \in SessionIds : sessions'[s] \in
               {sessions[s], [sessions[s] EXCEPT !.members = (@ \ {old}) \union {c}]}
        BY <1>9, <2>3 DEF RecoverClient
      <4>2. DOMAIN sessions' = SessionIds /\ sessions' = [s \in SessionIds |-> sessions'[s]]
        BY <1>9, <2>3 DEF RecoverClient
      <4>3. \A s \in SessionIds : (sessions[s].members \ {old}) \union {c} \in SUBSET Connections
        BY <1>c
      <4>4. \A s \in SessionIds : sessions'[s] \in Meetings
        <5> TAKE s \in SessionIds
        <5> DEFINE S == (sessions[s].members \ {old}) \union {c}
        <5>1. [sessions[s] EXCEPT !.members = S] \in Meetings
          <6> HIDE DEF S
          <6> QED BY <4>3 DEF S
        <5> QED BY <4>1, <5>1
      <4> QED BY <4>2, <4>4
    <3> QED BY <2>1, <3>2, <3>3, <1>a
  <2> QED BY <2>2, <2>3
<1>10. ASSUME NEW c \in Connections, NEW status \in Statuses, UpdatePresence(c, status)
       PROVE Typed'
  BY <1>10, <1>a, WorkflowAssumption DEF UpdatePresence
<1>11. ASSUME NEW c \in Connections, NEW r \in Requests, CreateRequest(c, r)
       PROVE Typed'
  BY <1>11 DEF CreateRequest, places, Available
<1>12. ASSUME NEW c \in Connections, NEW r \in Requests, AcceptRequest(c, r)
       PROVE Typed'
  <2>1. PICK seats \in SeatsFor(c, r) : AcceptRequest(c, r)!4!(seats)
    BY <1>12 DEF AcceptRequest
  <2>2. Owner[c] \in Teachers
    BY <1>12, <1>d DEF AcceptRequest, MayAnswer
  <2>3. seats.session \in SessionIds /\ seats.members \subseteq Connections
    <3>1. CASE \E s \in SessionIds : seats = [session |-> s, members |-> sessions[s].members]
      BY <3>1, <1>c
    <3>2. CASE /\ seats.session = r
               /\ seats.members \subseteq tracked
      BY <3>2 DEF SessionIds
    <3> DEFINE pair == Invited(c, r)
               same == {s \in SessionIds : IsActive(s) /\ sessions[s].members = pair}
    <3>3. CASE same # {}
      BY <2>1, <3>1, <3>3 DEF SeatsFor
    <3>4. CASE same = {}
      <4>1. seats = [session |-> r, members |-> IF pair \subseteq tracked THEN pair
                                               ELSE {c} \intersect tracked]
        BY <2>1, <3>4 DEF SeatsFor
      <4> HIDE DEF pair
      <4> QED BY <3>2, <4>1
    <3> QED BY <3>3, <3>4
  <2>4. requests' \in [Requests -> Broadcasts]
    BY <1>12, <2>2 DEF AcceptRequest
  <2>5. sessions' \in [SessionIds -> Meetings]
    BY <2>1, <2>3 DEF Meetings
  <2>6. calls' \in [Requests -> Phones]
    BY <2>1, <2>3 DEF Phones, Live
  <2> QED BY <1>12, <2>4, <2>5, <2>6 DEF AcceptRequest, places
<1>13. ASSUME NEW c \in Connections, NEW r \in Requests, RejectRequest(c, r)
       PROVE Typed'
  <2>1. requests[r].rejected \union {Owner[c]} \subseteq Teachers
    BY <1>13, <1>d DEF RejectRequest, MayAnswer
  <2> QED BY <1>13, <2>1 DEF RejectRequest, places
<1>14. ASSUME NEW c \in Connections, NEW r \in Requests, CancelRequest(c, r)
       PROVE Typed'
  BY <1>14 DEF CancelRequest, places
<1>15. ASSUME NEW c \in Connections, NEW r \in Requests, CallConnected(c, r)
       PROVE Typed'
  BY <1>15 DEF CallConnected, places, Live
<1>16. ASSUME NEW c \in Connections, NEW s \in SessionIds, CreateSession(c, s)
       PROVE Typed'
  BY <1>16 DEF CreateSession, places
<1>17. ASSUME NEW c \in Connections, NEW s \in SessionIds, JoinSession(c, s)
       PROVE Typed'
  BY <1>17, <1>c DEF JoinSession, places
<1>18. ASSUME NEW c \in Connections, NEW s \in SessionIds, LeaveSession(c, s)
       PROVE Typed'
  BY <1>18, <1>c DEF LeaveSession, places
<1>19. ASSUME NEW c \in Connections, NEW s \in SessionIds, CloseSession(c, s)
       PROVE Typed'
  BY <1>19 DEF CloseSession, Finished, Meetings
<1>20. CASE UNCHANGED vars
  BY <1>20 DEF vars
<1> QED
  BY <1>1, <1>2, <1>3, <1>4, <1>5, <1>6, <1>7, <1>8, <1>9, <1>10, <1>11, <1>12, <1>13,
     <1>14, <1>15, <1>16, <1>17, <1>18, <1>19, <1>20 DEF Next

-----------------------------------------------------------------------------
(* Where a client is *)

\* No client of this repository reports itself offline.
NeverOffline == "OFFLINE" \notin Statuses

\* Places say nothing of the deadlines, nor of which status is shown.
LEMMA SamePlaces ==
    ASSUME Places, UNCHANGED <<link, tracked, indexed>>,
           \A o \in Clients :
              /\ heart'[o] = None <=> heart[o] = None
              /\ heart[o] # None => /\ heart'[o].connection = heart[o].connection
                                    /\ heart'[o].lost = heart[o].lost
              /\ Shown(o)' <=> Shown(o)
              /\ presence'[o].connection = presence[o].connection
    PROVE  Places'
<1>1. \A c \in Connections : Owner[c] \in Clients
  BY WorkflowAssumption
<1> QED BY <1>1 DEF Places, Place, IsWatched

\* Whoever is timed out is nowhere, the others stay where they are.
LEMMA TimedOutPlaces ==
    ASSUME Typed, Places, NEW S \in SUBSET Clients, \A o \in S : heart[o] # None, TimedOut(S)
    PROVE  Places'
<1> DEFINE gone == {heart[o].connection : o \in S}
<1>1. \A c \in Connections : Owner[c] \in Clients
  BY WorkflowAssumption
<1>2. \A o \in Clients : heart[o] # None => heart[o].connection \in Connections
  BY DEF Typed, Hearts
<1>3. \A o \in Clients : heart[o] # None => (heart[o].connection \in gone <=> o \in S)
  BY DEF Places, Place
<1>4. gone = {presence[o].connection : o \in S}
  BY DEF Places, Place
<1>5. /\ link' = [c \in Connections |-> IF c \in gone THEN "closed" ELSE link[c]]
      /\ tracked' = tracked \ gone
      /\ indexed' = indexed \ gone
      /\ \A o \in Clients : heart'[o] = IF o \in S THEN None ELSE heart[o]
  BY <1>4 DEF TimedOut
<1>6. \A o \in Clients : /\ o \in S => ~Shown(o)'
                         /\ o \notin S => presence'[o] = presence[o]
  BY DEF TimedOut, Typed, Appearances, Shown
<1> HIDE DEF gone
<1>7. \A o \in Clients : heart'[o] # None => Place(o)'
  BY <1>2, <1>3, <1>5, <1>6 DEF Places, Place, Shown
<1>8. \A o \in Clients : Shown(o)' => heart'[o] # None
  BY <1>5, <1>6 DEF Places, Shown
<1>9. \A c \in Connections : link'[c] = "open" => c \in tracked'
  BY <1>5 DEF Places
<1>10. \A c \in Connections : c \in indexed' <=> (IsWatched(c) /\ ~heart[Owner[c]].lost)'
  BY <1>1, <1>2, <1>3, <1>5 DEF Places, Place, IsWatched
<1>11. \A o \in Clients : presence'[o].connection = presence[o].connection
  BY DEF TimedOut, Typed, Appearances
<1> QED BY <1>7, <1>8, <1>9, <1>10, <1>11 DEF Places

\* The client o moves to the open socket c of its own; the one it was on is
\* closed, if it was on any.
LEMMA MovedPlaces ==
    ASSUME Typed, Places, NEW o \in Clients, NEW c \in Connections, Owner[c] = o,
           NEW status, status \notin {"none", "OFFLINE"},
           link[c] = "open", c \in tracked, ~IsWatched(c), ShowOn(o, c, status),
           heart' = [heart EXCEPT ![o] = Beating(c)],
           IF heart[o] = None
           THEN link' = link /\ tracked' = tracked
           ELSE /\ link' = [link EXCEPT ![heart[o].connection] = "closed"]
                /\ tracked' = tracked \ {heart[o].connection}
    PROVE  Places'
<1> DEFINE old == heart[o].connection
<1>1. \A d \in Connections : Owner[d] \in Clients
  BY WorkflowAssumption
<1>2. \A p \in Clients : heart[p] # None => heart[p].connection \in Connections
  BY DEF Typed, Hearts
<1>3. \A p \in Clients : heart'[p] = IF p = o THEN Beating(c) ELSE heart[p]
  BY DEF Typed
<1>4. /\ presence'[o] = [status |-> status, connection |-> c]
      /\ \A p \in Clients \ {o} : presence'[p] = presence[p]
  BY DEF Typed, ShowOn
<1>5. c # old \/ heart[o] = None
  BY DEF IsWatched
<1>6. \A d \in Connections : link'[d] = IF heart[o] # None /\ d = old THEN "closed" ELSE link[d]
  BY <1>2 DEF Typed
<1>7. \A d \in Connections : d \in tracked' <=> d \in tracked /\ (heart[o] = None \/ d # old)
  OBVIOUS
<1>8. \A d \in Connections :
         d \in indexed' <=> d = c \/ (d \in indexed /\ (heart[o] = None \/ d # old))
  <2>1. CASE heart[o] = None
    <3>1. \A d \in Connections : d = presence[o].connection => d \notin indexed
      BY <2>1, WorkflowAssumption DEF Places, IsWatched
    <3> QED BY <2>1, <3>1 DEF ShowOn
  <2>2. CASE heart[o] # None
    BY <2>2 DEF ShowOn, Places, Place
  <2> QED BY <2>1, <2>2
<1> HIDE DEF old
<1>9. \A p \in Clients : heart'[p] # None => Place(p)'
  <2> SUFFICES ASSUME NEW p \in Clients, heart'[p] # None PROVE Place(p)'
    OBVIOUS
  <2>1. CASE p = o
    BY <2>1, <1>3, <1>4, <1>5, <1>6, <1>7 DEF Place, Beating, Shown
  <2>2. CASE p # o
    BY <2>2, <1>2, <1>3, <1>4, <1>6, <1>7 DEF Places, Place, Shown, old
  <2> QED BY <2>1, <2>2
<1>10. \A p \in Clients : Shown(p)' => heart'[p] # None
  BY <1>3, <1>4, BeatingLemma DEF Places, Shown
<1>11. \A d \in Connections : link'[d] = "open" => d \in tracked'
  BY <1>6, <1>7 DEF Places
<1>12. \A d \in Connections : d \in indexed' <=> (IsWatched(d) /\ ~heart[Owner[d]].lost)'
  <2> SUFFICES ASSUME NEW d \in Connections
               PROVE  d \in indexed' <=> (IsWatched(d) /\ ~heart[Owner[d]].lost)'
    OBVIOUS
  <2>1. CASE Owner[d] = o
    BY <2>1, <1>3, <1>5, <1>8, BeatingLemma DEF Places, Place, IsWatched, Beating, old
  <2>2. CASE Owner[d] # o
    BY <2>2, <1>1, <1>3, <1>8 DEF Places, Place, IsWatched, old
  <2> QED BY <2>1, <2>2
<1>13. \A p \in Clients : presence'[p].connection # None => Owner[presence'[p].connection] = p
  BY <1>4 DEF Places
<1> QED BY <1>9, <1>10, <1>11, <1>12, <1>13 DEF Places

\* The places after a step that does not change them.
LEMMA PlacesFrame ==
    ASSUME Places, UNCHANGED places
    PROVE  Places'
BY DEF Places, places, Place, Shown, IsWatched

\* Every step keeps everybody in the place their presence shows.
LEMMA PlacesLemma ==
    ASSUME NeverOffline, Typed, Places, [Next]_vars
    PROVE  Places'
<1>a. \A c \in Connections : Owner[c] \in Clients
  BY WorkflowAssumption
<1>b. \A o \in Clients : heart[o] # None => heart[o] \in Hearts /\ heart[o].connection \in Connections
  BY DEF Typed, Hearts
<1>c. \A o \in Clients, b \in BOOLEAN :
         LET h == [heart[o] EXCEPT !.due = b] IN
         heart[o] # None => /\ h \in Hearts /\ h # None
                            /\ h.connection = heart[o].connection /\ h.lost = heart[o].lost
  BY <1>b, WorkflowAssumption, FieldLemma DEF Hearts
<1>1. CASE RunCycle
  BY <1>1, TimedOutPlaces DEF RunCycle, Expired, IsDue
<1>2. ASSUME NEW o \in Clients, DeadlinePasses(o) PROVE Places'
  <2>1. heart' = [heart EXCEPT ![o] = [heart[o] EXCEPT !.due = TRUE]]
    BY <1>2 DEF DeadlinePasses
  <2> QED BY <1>2, <2>1, <1>c, SamePlaces DEF DeadlinePasses, Typed, Shown
<1>3. ASSUME NEW c \in Connections, Connect(c) PROVE Places'
  <2>1. \A d \in Connections : d \in tracked' <=> d \in tracked \/ d = c
    BY <1>3 DEF Connect
  <2>2. \A d \in Connections : link'[d] = IF d = c THEN "open" ELSE link[d]
    BY <1>3 DEF Connect, Typed
  <2>3. \A o \in Clients : heart[o] # None => heart[o].connection # c
    BY <1>3 DEF Connect, Places, Place
  <2> QED BY <1>3, <2>1, <2>2, <2>3, <1>a, <1>b DEF Connect, Places, Place, IsWatched, Shown
<1>4. ASSUME NEW c \in Connections, Disconnect(c) PROVE Places'
  <2>1. \A d \in Connections : link'[d] = IF d = c THEN "closed" ELSE link[d]
    BY <1>4 DEF Disconnect, Typed
  <2>2. CASE IsWatched(c)
    <3>1. heart[Owner[c]] \in Hearts
      BY <1>a, <1>b, <2>2 DEF IsWatched
    <3>2. LET h == [heart[Owner[c]] EXCEPT !.lost = TRUE] IN
          /\ h \in Hearts /\ h # None /\ h.connection = c /\ h.lost
      <4> DEFINE h == [heart[Owner[c]] EXCEPT !.lost = TRUE]
      <4>1. h \in Hearts
        BY <3>1, FieldLemma
      <4>2. h.connection = c /\ h.lost
        BY <3>1, <2>2 DEF Hearts, IsWatched
      <4>3. None \notin Hearts
        BY WorkflowAssumption DEF Hearts
      <4> QED BY <4>1, <4>2, <4>3
    <3>3. heart' = [heart EXCEPT ![Owner[c]] = [heart[Owner[c]] EXCEPT !.lost = TRUE]]
      BY <1>4, <2>2 DEF Disconnect
    <3>4. /\ heart'[Owner[c]] # None /\ heart'[Owner[c]].connection = c /\ heart'[Owner[c]].lost
          /\ \A o \in Clients : o # Owner[c] => heart'[o] = heart[o]
      BY <3>2, <3>3, <1>a DEF Typed
    <3>5. UNCHANGED <<tracked, presence>> /\ indexed' = indexed \ {c}
      BY <1>4, <2>2 DEF Disconnect
    <3>6. \A o \in Clients : heart'[o] # None => Place(o)'
      BY <2>1, <2>2, <3>4, <3>5, <1>a, <1>b DEF Places, Place, Shown, IsWatched
    <3>7. \A o \in Clients : Shown(o)' => heart'[o] # None
      BY <3>4, <3>5, <1>a DEF Places, Shown
    <3>8. \A d \in Connections : link'[d] = "open" => d \in tracked'
      BY <2>1, <3>5 DEF Places
    <3>9. \A d \in Connections : d \in indexed' <=> (IsWatched(d) /\ ~heart[Owner[d]].lost)'
      BY <2>2, <3>4, <3>5, <1>a DEF Places, Place, IsWatched
    <3> QED BY <3>5, <3>6, <3>7, <3>8, <3>9 DEF Places
  <2>3. CASE ~IsWatched(c)
    <3>1. tracked' = tracked \ {c} /\ UNCHANGED <<heart, indexed, presence>>
      BY <1>4, <2>3 DEF Disconnect
    <3>2. \A o \in Clients : heart[o] # None => heart[o].connection # c
      BY <2>3 DEF Places, Place, IsWatched
    <3> QED BY <2>1, <3>1, <3>2, <1>b DEF Places, Place, Shown, IsWatched
  <2> QED BY <2>2, <2>3
<1>5. ASSUME NEW c \in Connections, Pong(c) PROVE Places'
  <2>1. heart' = [heart EXCEPT ![Owner[c]] = [heart[Owner[c]] EXCEPT !.due = FALSE]]
        /\ heart[Owner[c]] # None
    BY <1>5 DEF Pong, IsWatched
  <2> QED BY <1>5, <2>1, <1>a, <1>c, SamePlaces DEF Pong, Typed, Shown
<1>6. ASSUME NEW c \in Connections, Register(c) PROVE Places'
  <2>1. CASE heart[Owner[c]] = None
    BY <1>6, <2>1, <1>a, MovedPlaces DEF Register, IsWatched
  <2>2. CASE heart[Owner[c]] # None
    <3>1. IsWatched(c) /\ Shown(Owner[c]) /\ presence[Owner[c]].connection = c
      BY <1>6, <2>2, <1>a DEF Register, Places, Place, Shown, IsWatched
    <3>2. c \in indexed
      BY <1>6, <3>1, <1>a DEF Register, Places, IsLost
    <3>3. UNCHANGED <<link, tracked, indexed, heart>>
      BY <1>6, <2>2, <3>1, <3>2 DEF Register, ShowOn
    <3>4. \A o \in Clients : /\ Shown(o)' <=> Shown(o)
                             /\ presence'[o].connection = presence[o].connection
      BY <1>6, <3>1 DEF Register, ShowOn, Typed, Shown
    <3> QED BY <3>3, <3>4, SamePlaces
  <2> QED BY <2>1, <2>2
<1>7. ASSUME NEW c \in Connections, RegisterLate(c) PROVE Places'
  <2>1. CASE c = heart[Owner[c]].connection
    BY <1>7, <2>1, <1>a, TimedOutPlaces DEF RegisterLate, IsDue
  <2>2. CASE c # heart[Owner[c]].connection
    BY <1>7, <2>2, <1>a, MovedPlaces DEF RegisterLate, IsDue, IsWatched
  <2> QED BY <2>1, <2>2
<1>8. ASSUME NEW c \in Connections, RecoverClient(c) PROVE Places'
  <2> DEFINE o == Owner[c]
             old == heart[o].connection
  <2>1. heart[o] # None /\ heart[o].lost /\ old \in Connections
    BY <1>8, <1>a, <1>b DEF RecoverClient, IsLost
  <2>2. Shown(o) /\ link[old] = "closed"
    BY <2>1, <1>a DEF Places, Place
  <2>3. link' = [link EXCEPT ![old] = "closed"]
    BY <1>8, <2>1, <2>2 DEF RecoverClient, Typed
  <2>4. ~IsWatched(c)
    BY <1>8, <2>2 DEF RecoverClient, IsWatched
  <2>5. ShowOn(o, c, presence[o].status)
    BY <1>8, <2>2 DEF RecoverClient, Shown
  <2> QED BY <1>8, <2>1, <2>2, <2>3, <2>4, <2>5, <1>a, MovedPlaces DEF RecoverClient, Shown
<1>9. ASSUME NEW c \in Connections, NEW status \in Statuses, UpdatePresence(c, status)
      PROVE Places'
  <2>1. status \notin {"none", "OFFLINE"}
    BY WorkflowAssumption DEF NeverOffline
  <2>2. Shown(Owner[c])
    BY <1>9, <1>a DEF UpdatePresence, Places, Place, IsWatched
  <2>3. \A o \in Clients : /\ Shown(o)' <=> Shown(o)
                           /\ presence'[o].connection = presence[o].connection
    BY <1>9, <2>1, <2>2 DEF UpdatePresence, Typed, Appearances, Shown
  <2> QED BY <1>9, <2>3, SamePlaces DEF UpdatePresence
<1>10. ASSUME NEW c \in Connections, NEW s \in SessionIds, CloseSession(c, s)
       PROVE Places'
  <2>1. \A m \in indexed : Shown(Owner[m])
    BY <1>a DEF Typed, Places, Place, IsWatched
  <2>2. \A o \in Clients : /\ Shown(o)' <=> Shown(o)
                           /\ presence'[o].connection = presence[o].connection
    BY <1>10, <2>1 DEF CloseSession, Typed, Appearances, Shown
  <2> QED BY <1>10, <2>2, SamePlaces DEF CloseSession
<1>11. CASE UNCHANGED places
  BY <1>11, PlacesFrame
<1> QED
  BY <1>1, <1>2, <1>3, <1>4, <1>5, <1>6, <1>7, <1>8, <1>9, <1>10, <1>11
     DEF Next, vars, places, ExpireRequest, CreateRequest, AcceptRequest, RejectRequest,
         CancelRequest, CallConnected, CreateSession, JoinSession, LeaveSession

-----------------------------------------------------------------------------
(* What a request leads to *)

\* Of a session the outcomes know the phase alone.
LEMMA SameOutcomes ==
    ASSUME Typed, Outcomes, UNCHANGED <<requests, calls>>,
           \A s \in SessionIds : sessions'[s].phase = sessions[s].phase
    PROVE  Outcomes'
<1>1. \A r \in Requests : calls[r].session # None => calls[r].session \in SessionIds
  BY DEF Typed, Phones
<1>2. \A s \in SessionIds : IsOpen(s)' <=> IsOpen(s)
  BY DEF IsOpen
<1> QED BY <1>1, <1>2 DEF Outcomes, Outcome, SessionIds

\* A request that is not accepted changes, and is not accepted by it.
LEMMA ChangedRequest ==
    ASSUME Typed, Outcomes, UNCHANGED <<sessions, calls>>, NEW r \in Requests,
           requests[r].status # "ACCEPTED", requests'[r].status # "ACCEPTED",
           requests'[r].status = "PENDING" => requests'[r].student \in Students,
           \A q \in Requests \ {r} : requests'[q] = requests[q]
    PROVE  Outcomes'
BY DEF Outcomes, Outcome, IsOpen

\* Every step keeps the requests consistent with calls and sessions.
LEMMA OutcomesLemma ==
    ASSUME NeverOffline, Typed, Places, Outcomes, [Next]_vars
    PROVE  Outcomes'
<1>a. \A c \in Connections : Owner[c] \in Clients
  BY WorkflowAssumption
<1>b. \A gone : \A s \in SessionIds : SessionsWithout(gone)[s].phase = sessions[s].phase
  BY DEF Typed, Meetings, SessionsWithout
<1>c. \A r \in Requests : calls[r].session # None => calls[r].session \in SessionIds
  BY DEF Typed, Phones
<1>1. ASSUME NEW S \in SUBSET Clients, TimedOut(S), UNCHANGED <<requests, calls>> PROVE Outcomes'
  BY <1>1, <1>b, SameOutcomes DEF TimedOut
<1>2. CASE RunCycle
  BY <1>2, <1>1 DEF RunCycle, Expired
<1>3. ASSUME NEW c \in Connections, RegisterLate(c) PROVE Outcomes'
  BY <1>3, <1>1, <1>a, <1>b, SameOutcomes DEF RegisterLate
<1>4. ASSUME NEW c \in Connections, RecoverClient(c) PROVE Outcomes'
  <2>1. \A s \in SessionIds : sessions'[s].phase = sessions[s].phase
    BY <1>4 DEF RecoverClient, Typed, Meetings
  <2> QED BY <1>4, <2>1, SameOutcomes DEF RecoverClient
<1>5. ASSUME NEW c \in Connections, NEW r \in Requests, CreateRequest(c, r) PROVE Outcomes'
  <2>1. requests'[r].status = "PENDING" /\ requests'[r].student = Owner[c]
    BY <1>5 DEF CreateRequest, Typed, Broadcasts
  <2> QED BY <1>5, <2>1, ChangedRequest DEF CreateRequest, Typed
<1>6. ASSUME NEW c \in Connections, NEW r \in Requests, AcceptRequest(c, r) PROVE Outcomes'
  <2> DEFINE pair == Invited(c, r)
  <2>1. PICK seats \in SeatsFor(c, r) : AcceptRequest(c, r)!4!(seats)
    BY <1>6 DEF AcceptRequest
  <2>2. /\ requests[r].status = "PENDING" /\ requests[r].student \in Students
        /\ Owner[c] \in Teachers
    BY <1>6 DEF AcceptRequest, MayAnswer, Outcomes, Outcome, Typed, Broadcasts
  <2>3. pair \subseteq tracked
    BY <1>6, <2>2 DEF AcceptRequest, MayAnswer, Invited, Places, Place, Clients
  <2>4. /\ seats.members = pair
        /\ seats.session = r \/ (seats.session \in SessionIds /\ IsOpen(seats.session))
    <3> HIDE DEF pair
    <3>1. \A s \in SessionIds : IsActive(s) /\ seats = [session |-> s, members |-> pair]
             => seats.members = pair /\ seats.session \in SessionIds /\ IsOpen(seats.session)
      BY DEF IsActive
    <3>2. seats = [session |-> r, members |-> pair] => seats.members = pair /\ seats.session = r
      OBVIOUS
    <3>3. \/ \E s \in SessionIds : IsActive(s) /\ seats = [session |-> s, members |-> pair]
          \/ seats = [session |-> r, members |-> pair]
      BY <2>1, <2>3 DEF SeatsFor, pair
    <3> QED BY <3>1, <3>2, <3>3
  <2>5. seats.session \in SessionIds /\ seats.session # None
    BY <2>4, WorkflowAssumption DEF SessionIds
  <2>6. /\ requests'[r].status = "ACCEPTED" /\ requests'[r].student = requests[r].student
        /\ requests'[r].teacher = Owner[c]
        /\ \A q \in Requests \ {r} : requests'[q] = requests[q]
    BY <1>6 DEF AcceptRequest, Typed, Broadcasts
  <2>7. /\ calls'[r] = [status |-> "CONNECTING", session |-> seats.session]
        /\ \A q \in Requests \ {r} : calls'[q] = calls[q]
    BY <2>1, <2>4 DEF Typed
  <2>8. /\ sessions'[seats.session].phase = "open"
        /\ \A s \in SessionIds \ {seats.session} : sessions'[s] = sessions[s]
    BY <2>1, <2>5 DEF Typed
  <2>9. seats.session \in Requests => requests'[seats.session].status = "ACCEPTED"
    BY <2>4, <2>6 DEF Outcomes, Outcome
  <2>10. Outcome(r)'
    BY <2>2, <2>5, <2>6, <2>7, <2>8, <2>9 DEF Outcome, IsOpen, Live
  <2>11. ASSUME NEW q \in Requests \ {r} PROVE Outcome(q)'
    <3>1. Outcome(q)
      BY DEF Outcomes
    <3>2. q \in SessionIds
      BY DEF SessionIds
    <3>3. requests[q].status = "ACCEPTED" /\ calls[q].session = seats.session
             => calls[q].status \in Live
      BY <2>2, <2>4, <3>1 DEF Outcome
    <3>4. IsOpen(q)' => requests'[q].status = "ACCEPTED"
      BY <2>6, <2>8, <2>9, <3>1, <3>2 DEF Outcome, IsOpen
    <3> QED BY <1>c, <2>6, <2>7, <2>8, <3>1, <3>3, <3>4 DEF Outcome, IsOpen
  <2> QED BY <2>10, <2>11 DEF Outcomes
<1>7. ASSUME NEW c \in Connections, NEW r \in Requests, RejectRequest(c, r) PROVE Outcomes'
  <2>1. requests'[r].status = "PENDING" /\ requests'[r].student = requests[r].student
    BY <1>7 DEF RejectRequest, MayAnswer, Typed, Broadcasts
  <2> QED BY <1>7, <2>1, ChangedRequest DEF RejectRequest, MayAnswer, Typed, Outcomes, Outcome
<1>8. ASSUME NEW c \in Connections, NEW r \in Requests, CancelRequest(c, r) PROVE Outcomes'
  <2>1. requests'[r].status = "CANCELLED"
    BY <1>8 DEF CancelRequest, Typed, Broadcasts
  <2> QED BY <1>8, <2>1, ChangedRequest DEF CancelRequest, Typed
<1>9. ASSUME NEW r \in Requests, ExpireRequest(r) PROVE Outcomes'
  <2>1. CASE requests[r].status = "PENDING"
    <3>1. requests'[r].status = "EXPIRED"
      BY <1>9, <2>1 DEF ExpireRequest, Typed, Broadcasts
    <3> QED BY <1>9, <2>1, <3>1, ChangedRequest DEF ExpireRequest, Typed
  <2>2. CASE requests[r].status # "PENDING"
    BY <1>9, <2>2, SameOutcomes DEF ExpireRequest
  <2> QED BY <2>1, <2>2
<1>10. ASSUME NEW c \in Connections, NEW r \in Requests, CallConnected(c, r) PROVE Outcomes'
  <2>1. /\ calls'[r].status \in Live /\ calls'[r].session = calls[r].session
        /\ \A q \in Requests \ {r} : calls'[q] = calls[q]
    BY <1>10 DEF CallConnected, Typed, Phones, Live
  <2>2. calls[r].status \in Live
    BY <1>10 DEF CallConnected, Live
  <2> QED BY <1>10, <2>1, <2>2 DEF CallConnected, Outcomes, Outcome, IsOpen
<1>11. ASSUME NEW c \in Connections, NEW s \in SessionIds, CreateSession(c, s) PROVE Outcomes'
  <2>1. /\ s \notin Requests
        /\ sessions[s].phase = "unused"
    BY <1>11, WorkflowAssumption DEF CreateSession
  <2>2. /\ sessions'[s].phase = "open"
        /\ \A t \in SessionIds \ {s} : sessions'[t] = sessions[t]
    BY <1>11 DEF CreateSession, Typed, Meetings
  <2>3. \A r \in Requests : r \in SessionIds \ {s}
    BY <2>1 DEF SessionIds
  <2>4. UNCHANGED <<requests, calls>>
    BY <1>11 DEF CreateSession
  <2> QED BY <2>1, <2>2, <2>3, <2>4, <1>c DEF Outcomes, Outcome, IsOpen
<1>12. ASSUME NEW c \in Connections, NEW s \in SessionIds, JoinSession(c, s) PROVE Outcomes'
  <2>1. \A t \in SessionIds : sessions'[t].phase = sessions[t].phase
    BY <1>12 DEF JoinSession, Typed, Meetings
  <2> QED BY <1>12, <2>1, SameOutcomes DEF JoinSession
<1>13. ASSUME NEW c \in Connections, NEW s \in SessionIds, LeaveSession(c, s) PROVE Outcomes'
  <2>1. \A t \in SessionIds : sessions'[t].phase = sessions[t].phase
    BY <1>13 DEF LeaveSession, Typed, Meetings
  <2> QED BY <1>13, <2>1, SameOutcomes DEF LeaveSession
<1>14. ASSUME NEW c \in Connections, NEW s \in SessionIds, CloseSession(c, s) PROVE Outcomes'
  <2>1. \A r \in Requests :
           /\ calls'[r].session = calls[r].session
           /\ calls'[r].status \in Live <=> calls[r].status \in Live /\ calls[r].session # s
    BY <1>14 DEF CloseSession, Finished, Typed, Phones, Live
  <2>2. /\ sessions'[s].phase = "closed" /\ sessions[s].phase = "open"
        /\ \A t \in SessionIds \ {s} : sessions'[t] = sessions[t]
    BY <1>14 DEF CloseSession, Typed, Meetings, IsOpen
  <2>3. requests' = requests
    BY <1>14 DEF CloseSession
  <2>4. \A r \in Requests : r \in SessionIds
    BY DEF SessionIds
  <2> QED BY <2>1, <2>2, <2>3, <2>4, <1>c DEF Outcomes, Outcome, IsOpen
<1>15. CASE UNCHANGED <<sessions, requests, calls>>
  BY <1>15, SameOutcomes
<1> QED
  BY <1>2, <1>3, <1>4, <1>5, <1>6, <1>7, <1>8, <1>9, <1>10, <1>11, <1>12, <1>13, <1>14, <1>15
     DEF Next, vars, Connect, Disconnect, DeadlinePasses, Pong, Register, UpdatePresence

-----------------------------------------------------------------------------
(* Which sockets are given up *)

\* Of the record of a client only the deadline or the loss changes.
LEMMA SameHeart ==
    ASSUME Typed, NEW o \in Clients, heart[o] # None, NEW b \in BOOLEAN,
           \/ heart' = [heart EXCEPT ![o].due = b]
           \/ heart' = [heart EXCEPT ![o].lost = b]
    PROVE  \A c \in Connections : IsWatched(c) => IsWatched(c)'
<1> DEFINE h == heart'[o]
<1>1. heart[o] \in Hearts /\ None \notin Hearts
  BY WorkflowAssumption DEF Typed, Hearts
<1>2. /\ h \in {[heart[o] EXCEPT !.due = b], [heart[o] EXCEPT !.lost = b]}
      /\ \A p \in Clients \ {o} : heart'[p] = heart[p]
  BY DEF Typed
<1>3. h # None /\ h.connection = heart[o].connection
  BY <1>1, <1>2, FieldLemma DEF Hearts
<1> HIDE DEF h
<1>4. \A c \in Connections : Owner[c] \in Clients
  BY WorkflowAssumption
<1> QED BY <1>2, <1>3, <1>4 DEF IsWatched, h

\* A step after which nobody is watched on a socket that was a client's leaves
\* that socket to nobody.
LEMMA GivenUpLemma ==
    ASSUME NeverOffline, Typed, Places, [Next]_vars, NEW c \in Connections,
           IsWatched(c), ~IsWatched(c)'
    PROVE  IsGivenUp(c)'
<1>a. \A d \in Connections : Owner[d] \in Clients
  BY WorkflowAssumption
<1>b. \A gone : \A s \in SessionIds :
         SessionsWithout(gone)[s].members = sessions[s].members \ gone
  BY DEF Typed, Meetings, SessionsWithout
<1> DEFINE o == Owner[c]
<1>c. /\ o \in Clients /\ heart[o] # None /\ heart[o].connection = c
      /\ presence[o].connection = c /\ Shown(o)
  BY <1>a DEF IsWatched, Places, Place
<1>d. ASSUME NEW p \in Clients, heart[p] # None, heart[p].connection = c PROVE p = o
  BY <1>d DEF Places, Place
<1> HIDE DEF o
<1>1. ASSUME NEW S \in SUBSET Clients, \A p \in S : heart[p] # None, TimedOut(S)
      PROVE  IsGivenUp(c)'
  <2>1. o \in S
    BY <1>1, <1>c DEF TimedOut, IsWatched, o
  <2>2. c \in {heart[p].connection : p \in S} /\ c \in {presence[p].connection : p \in S}
    BY <1>c, <2>1
  <2> QED BY <1>1, <1>b, <2>2 DEF TimedOut, IsGivenUp
<1>2. CASE RunCycle
  BY <1>2, <1>1 DEF RunCycle, Expired, IsDue
<1>3. ASSUME NEW d \in Connections, RegisterLate(d) PROVE IsGivenUp(c)'
  <2> DEFINE old == heart[Owner[d]].connection
  <2>1. CASE d = old
    BY <1>3, <2>1, <1>1, <1>a DEF RegisterLate, IsDue
  <2>2. CASE d # old
    <3>1. /\ link' = [link EXCEPT ![old] = "closed"] /\ tracked' = tracked \ {old}
          /\ sessions' = SessionsWithout({old}) /\ ShowOn(Owner[d], d, "ONLINE")
          /\ heart' = [heart EXCEPT ![Owner[d]] = Beating(d)]
      BY <1>3, <2>2 DEF RegisterLate
    <3>2. Owner[d] = o
      BY <1>a, <1>c, <3>1 DEF Typed, IsWatched, o
    <3>3. old = c /\ c # d
      BY <1>c, <2>2, <3>2
    <3> QED BY <1>b, <1>c, <3>1, <3>2, <3>3 DEF IsGivenUp, ShowOn, Typed
  <2> QED BY <2>1, <2>2
<1>4. ASSUME NEW d \in Connections, RecoverClient(d) PROVE IsGivenUp(c)'
  <2> DEFINE old == heart[Owner[d]].connection
  <2>1. heart' = [heart EXCEPT ![Owner[d]] = Beating(d)] /\ link' = link
        /\ tracked' = tracked \ {old} /\ link[d] = "open"
    BY <1>4 DEF RecoverClient
  <2>2. Owner[d] = o
    BY <1>a, <1>c, <2>1 DEF Typed, IsWatched, o
  <2>3. old = c /\ link[c] = "closed"
    BY <1>4, <1>c, <2>2 DEF RecoverClient, IsLost, Places, Place
  <2>4. /\ ShowOn(o, d, presence[o].status)
        /\ \A s \in SessionIds : sessions'[s] =
              IF old \in sessions[s].members
              THEN [sessions[s] EXCEPT !.members = (@ \ {old}) \union {d}] ELSE sessions[s]
    BY <1>4, <1>c, <2>2 DEF RecoverClient, Shown
  <2>5. \A s \in SessionIds : c \notin sessions'[s].members
    <3> TAKE s \in SessionIds
    <3> DEFINE others == (sessions[s].members \ {old}) \union {d}
    <3>1. [sessions[s] EXCEPT !.members = others].members = others
      <4> HIDE DEF others
      <4> QED BY DEF Typed, Meetings
    <3>2. c \notin others
      BY <2>1, <2>3
    <3> HIDE DEF others
    <3> QED BY <2>3, <2>4, <3>1, <3>2 DEF others
  <2> QED BY <1>c, <2>1, <2>3, <2>4, <2>5 DEF IsGivenUp, ShowOn
<1>5. ASSUME NEW d \in Connections, Register(d) PROVE FALSE
  BY <1>5, <1>a, <1>c DEF Register, Typed, IsWatched, o
<1>6. ASSUME NEW p \in Clients, heart[p] # None, NEW b \in BOOLEAN,
             \/ heart' = [heart EXCEPT ![p].due = b]
             \/ heart' = [heart EXCEPT ![p].lost = b]
      PROVE  FALSE
  BY <1>6, SameHeart
<1>7. ASSUME NEW p \in Clients, DeadlinePasses(p) PROVE FALSE
  BY <1>7, <1>6 DEF DeadlinePasses
<1>8. ASSUME NEW d \in Connections, Pong(d) PROVE FALSE
  BY <1>8, <1>6, <1>a DEF Pong, IsWatched
<1>9. ASSUME NEW d \in Connections, Disconnect(d), IsWatched(d) PROVE FALSE
  BY <1>9, <1>6, <1>a DEF Disconnect, IsWatched
<1>10. heart' # heart
  BY DEF IsWatched
<1> QED
  BY <1>2, <1>3, <1>4, <1>5, <1>7, <1>8, <1>9, <1>10
     DEF Next, vars, places, Connect, Disconnect, UpdatePresence, CreateRequest,
         AcceptRequest, RejectRequest, CancelRequest, ExpireRequest, CallConnected,
         CreateSession, JoinSession, LeaveSession, CloseSession

-----------------------------------------------------------------------------
(* What the invariant says of the properties *)

\* A set of two has nobody but the two.
LEMMA TwoElements ==
    ASSUME NEW c, NEW d, c # d
    PROVE  Cardinality({c, d}) = 2
<1>1. Cardinality({c}) = 1 /\ IsFiniteSet({c})
  BY FS_Singleton
<1>2. {c} \union {d} = {c, d}
  OBVIOUS
<1> QED BY <1>1, <1>2, FS_AddElement

\* The invariant leaves the router no choice: the members of a session that are
\* found by presence are watched and not lost, and a client is watched once.
LEMMA RouteLemma ==
    ASSUME Typed, Places, Outcomes
    PROVE  SignalsReachTheOther
<1> SUFFICES ASSUME NEW r \in Requests, NEW c \in Connections, calls[r].status \in Live,
                    NEW d \in Connections
             PROVE  Route(c, r) = {d} <=>
                      \E student, teacher \in {c, d} :
                         /\ Reachable(requests[r].student, student)
                         /\ Reachable(requests[r].teacher, teacher)
                         /\ student # teacher
                         /\ sessions[calls[r].session].members = {c, d}
  BY DEF SignalsReachTheOther
<1> DEFINE members == sessions[calls[r].session].members
<1>a. \A e \in Connections : Owner[e] \in Clients
  BY WorkflowAssumption
<1>1. /\ requests[r].student \in Clients /\ requests[r].teacher \in Clients
      /\ IsOpen(calls[r].session)
  BY DEF Outcomes, Outcome, Clients
<1>2. \A o \in Clients, e \in Connections :
         Reachable(o, e) <=> o = Owner[e] /\ e \in indexed
  BY <1>a DEF Reachable, Places, Place, IsWatched
<1>3. \A e, f \in indexed : Owner[e] = Owner[f] => e = f
  BY <1>a DEF Typed, Places, IsWatched
<1>4. \A e \in indexed : e \in tracked
  BY <1>a DEF Typed, Places, Place, IsWatched
<1>5. ASSUME Route(c, r) = {d}
      PROVE  \E student, teacher \in {c, d} :
                /\ Reachable(requests[r].student, student)
                /\ Reachable(requests[r].teacher, teacher)
                /\ student # teacher
                /\ members = {c, d}
  <2>1. /\ c \in members /\ members \ {c} = {d}
        /\ members \subseteq indexed /\ \A m \in members : Owner[m] \in Participants(r)
    BY <1>5 DEF Route
  <2>2. members = {c, d} /\ c # d
    BY <2>1
  <2>3. Owner[c] # Owner[d]
    BY <2>1, <2>2, <1>3
  <2>4. \/ requests[r].student = Owner[c] /\ requests[r].teacher = Owner[d]
        \/ requests[r].student = Owner[d] /\ requests[r].teacher = Owner[c]
    BY <2>1, <2>2, <2>3 DEF Participants
  <2> HIDE DEF members
  <2> QED BY <1>1, <1>2, <2>1, <2>2, <2>4
<1>6. ASSUME NEW student \in {c, d}, NEW teacher \in {c, d},
             Reachable(requests[r].student, student), Reachable(requests[r].teacher, teacher),
             student # teacher, members = {c, d}
      PROVE  Route(c, r) = {d}
  <2>1. c # d /\ {student, teacher} = {c, d}
    BY <1>6
  <2>2. c \in indexed /\ d \in indexed /\ Owner[c] \in Participants(r) /\ Owner[d] \in Participants(r)
    BY <1>1, <1>2, <1>6, <2>1 DEF Participants
  <2>3. Cardinality(members) = 2
    <3>1. Cardinality({c, d}) = 2
      BY <2>1, TwoElements
    <3> QED BY <1>6, <3>1
  <2> QED BY <1>1, <1>4, <1>6, <2>1, <2>2, <2>3 DEF Route, IsActive
<1> QED BY <1>5, <1>6

\* Places and Outcomes give the invariants of the run.
LEMMA Consequences ==
    ASSUME IInv
    PROVE  TypeOK /\ ShownIsWatched /\ AcceptedHasCall /\ SignalsReachTheOther
<1>1. TypeOK
  BY TypedIsTypeOK DEF IInv
<1>2. ShownIsWatched
  BY DEF IInv, Places, Place, ShownIsWatched
<1>3. AcceptedHasCall
  BY DEF IInv, Outcomes, Outcome, AcceptedHasCall
<1>4. SignalsReachTheOther
  BY RouteLemma DEF IInv
<1> QED BY <1>1, <1>2, <1>3, <1>4

-----------------------------------------------------------------------------
(* Theorems *)

\* As long as no client reports itself offline, presence, connections and
\* heartbeat agree, an accepted request has a call exactly as long as the
\* session of that call is open, and signals reach the other participant and
\* nobody else; whichever sessions a socket joins.
THEOREM WorkflowAgrees ==
    ASSUME NeverOffline
    PROVE  Spec => [](TypeOK /\ ShownIsWatched /\ AcceptedHasCall /\ SignalsReachTheOther)
<1>1. Init => IInv
  BY InitLemma
<1>2. IInv /\ [Next]_vars => IInv'
  BY TypeLemma, PlacesLemma, OutcomesLemma DEF IInv
<1>3. IInv => TypeOK /\ ShownIsWatched /\ AcceptedHasCall /\ SignalsReachTheOther
  BY Consequences
<1> QED BY <1>1, <1>2, <1>3, PTL DEF Spec

\* As long as no client reports itself offline: a socket that stops being its
\* client's, because the client was timed out, timed out late or came back on
\* another one, is closed, and connections, index and sessions have forgotten it.
THEOREM GivenUpForGood ==
    ASSUME NeverOffline
    PROVE  Spec => GivenUpByAll
<1>1. Init => IInv
  BY InitLemma
<1>2. IInv /\ [Next]_vars => IInv'
  BY TypeLemma, PlacesLemma, OutcomesLemma DEF IInv
<1>3. IInv /\ [Next]_vars =>
         [\A c \in Connections : IsWatched(c) /\ ~IsWatched(c)' => IsGivenUp(c)']_vars
  BY GivenUpLemma DEF IInv
<1> QED BY <1>1, <1>2, <1>3, PTL DEF Spec, GivenUpByAll
====
