---- MODULE Negotiation ----
(***************************************************************************)
(* The WebRTC connection of one attendance, seen from both windows: the    *)
(* professor's (presence.ts) offers, the student's (index.ts) answers,     *)
(* either may offer again later, and the professor restarts ICE when the   *)
(* media is lost.  WebRtcSignalingGateway relays between them.             *)
(*                                                                         *)
(* An RTCPeerConnection executes its operations one at a time, in the      *)
(* order they are called, and the code that awaits one calls its next when *)
(* it is done: `chain` holds the operations of a connection, and executing *)
(* its head is one step with the code that runs before the next await.     *)
(*                                                                         *)
(* Of a description the model keeps the ICE credentials of its sender, a   *)
(* number.  Two windows can reach each other when each holds the other's   *)
(* current credentials and candidates gathered under them.                 *)
(***************************************************************************)
EXTENDS Integers, Sequences, FiniteSets

CONSTANTS
    None,       \* JavaScript's undefined
    Limits      \* bounds on the events of the outside world

\* How often a main process loses its socket, the media fails on a healthy
\* path, a participant switches a device or shares the screen, and a camera or
\* a microphone is on before the connection is made.
Bounded == {"drop", "network", "change", "early"}

\* Why an offer is made; undefined is none of the reasons.
Reasons == {"first", "sync", "change", "restart"}

ASSUME NegotiationAssumption ==
    /\ Limits \subseteq [Bounded -> Nat]
    /\ None \notin Reasons

VARIABLES
    socket,     \* each main process's connection to the server
    session,    \* whether each main process has the attendance
    over,       \* whether the server has ended it
    wire,       \* messages from the server to each side
    peer,       \* peerConnection of each window
    chain,      \* the operations its connection has not executed
    offering,   \* what the head of its renegotiationQueue offers
    media,      \* what waits for the camera and the microphone to start
    pending,    \* pendingIceCandidates of each window
    ice,        \* connectionState at the professor
    recovery,   \* the professor's recovery of the media
    notice,     \* "Sessão recuperada" at the professor, and whether it was used
    left        \* what is left of the bounds

window == <<peer, chain, offering, media, pending>>
vars   == <<socket, session, over, wire, window, ice, recovery, notice, left>>

Sides    == {"teacher", "student"}
Other(p) == IF p = "teacher" THEN "student" ELSE "teacher"

\* "rejoining": connected again, and not yet known to the server as a
\* participant of the attendance.
Sockets == {"up", "rejoining", "down"}

Message(kind, cred) == [kind |-> kind, cred |-> cred]

Relayed == {"offer", "answer", "candidate"}
Notices == {"reconnecting", "recovered", "ended"}

Operations == {"createOffer", "setLocalOffer", "setRemoteOffer", "createAnswer",
               "setLocalAnswer", "setRemoteAnswer", "addCandidate"}

\* `as` is why an offer is made: "first" by startTeacherWebRtc; by
\* renegotiateAsOfferer "sync" before an initial description, "change" after a
\* device or the screen, "restart" of ICE.  `cred` is what the other side sent.
Operation(op, as, cred) == [op |-> op, as |-> as, cred |-> cred]

\* A new RTCPeerConnection: the credentials it uses, offers and was given, the
\* ones it was given candidates of, and those it has gathered its own under;
\* whether its answer needs new credentials.
NewPeer == [signaling |-> "stable", described |-> FALSE, mine |-> None, offered |-> None,
            theirs |-> None, reach |-> None, gathered |-> None, renew |-> FALSE]

\* The timer of scheduleWebRtcRecovery: at once, or in some seconds.
Timers == {"off", "now", "later"}

NoRecovery == [timer |-> "off", inFlight |-> FALSE]

Stable(p) == peer[p] # None /\ peer[p].signaling = "stable"

-----------------------------------------------------------------------------
(* Credentials *)

InUse ==
    UNION {{peer[p].mine, peer[p].offered, peer[p].theirs, peer[p].reach, peer[p].gathered} :
               p \in {s \in Sides : peer[s] # None}}
      \cup UNION {{wire[p][i].cred : i \in DOMAIN wire[p]} : p \in Sides}
      \cup UNION {{chain[p][i].cred : i \in DOMAIN chain[p]} : p \in Sides}
      \cup UNION {{pending[p][i] : i \in DOMAIN pending[p]} : p \in Sides}
      \cup {media[p].offer : p \in {s \in Sides : media[s] # None}}

\* Credentials nobody has seen: the name does not matter, so the least is taken.
NewCredentials ==
    CHOOSE n \in 0 .. Cardinality(InUse) : n \notin InUse /\ \A k \in 0 .. n - 1 : k \in InUse

\* The credentials its local description has.
Local(p) == IF peer[p].offered # None THEN peer[p].offered ELSE peer[p].mine

Linked ==
    /\ peer["teacher"] # None
    /\ peer["student"] # None
    /\ \A p \in Sides : /\ peer[p].theirs = peer[Other(p)].mine
                        /\ peer[p].theirs # None
                        /\ peer[p].reach = peer[p].theirs

\* Nothing of the negotiation is under way.  What waits for seconds, for ICE to
\* notice or for a recovery timer, comes when the negotiation has settled.
Settled ==
    \A p \in Sides :
        /\ chain[p] = <<>> /\ wire[p] = <<>> /\ offering[p] = None /\ media[p] = None
        /\ peer[p] # None => peer[p].gathered = Local(p)

-----------------------------------------------------------------------------
(* The way to the other window *)

\* requireActiveSignalingSocket does not throw.
MaySend(p) == session[p] /\ socket[p] # "down"

\* Mutant: the relay forgets to look whether the attendance has ended.
RoutedAfterEnd(p) == socket[p] = "up" /\ socket[Other(p)] = "up"

\* resolveSignalingRoute finds the other end.
Routed(p) == ~over /\ socket[p] = "up" /\ socket[Other(p)] = "up"

Send(w, p, m) == IF MaySend(p) /\ Routed(p) THEN [w EXCEPT ![Other(p)] = Append(@, m)] ELSE w

Notify(w, p, kind) ==
    IF socket[p] = "up" THEN [w EXCEPT ![p] = Append(@, Message(kind, None))] ELSE w

-----------------------------------------------------------------------------
(* What a window does within a step *)

Calls(p, operation) == chain' = [chain EXCEPT ![p] = Append(@, operation)]

\* The head is done and its continuation calls `next`.
Then(p, next) == chain' = [chain EXCEPT ![p] = Tail(@) \o next]

\* scheduleWebRtcRecovery
Scheduled(r, when) ==
    IF r.timer # "off" \/ r.inFlight THEN r ELSE [r EXCEPT !.timer = when]

\* queueRenegotiation.  What is queued behind a renegotiation finds the
\* connection no longer stable and does nothing, so only the one under way is
\* kept.
Queue(p, as) ==
    IF offering[p] # None \/ ~Stable(p)
    THEN UNCHANGED <<offering, chain>>
    ELSE /\ offering' = [offering EXCEPT ![p] = as]
         /\ Calls(p, Operation("createOffer", as, None))

\* closeWebRtcSession
Close(p) ==
    /\ peer'     = [peer EXCEPT ![p] = None]
    /\ chain'    = [chain EXCEPT ![p] = <<>>]
    /\ offering' = [offering EXCEPT ![p] = None]
    /\ media'    = [media EXCEPT ![p] = None]
    /\ pending'  = [pending EXCEPT ![p] = <<>>]
    /\ IF p = "teacher" THEN recovery' = NoRecovery /\ ice' = "new" ELSE UNCHANGED <<recovery, ice>>

\* The code that waits for camera and microphone goes on with the description
\* it waited for.
Resumed(p) == IF p = "teacher" THEN <<Operation("createOffer", "first", None)>>
              ELSE <<Operation("setRemoteOffer", None, media[p].offer)>>

\* Mutant: the recovery does not look at the connection again.
FinishForgetting(p) ==
    /\ offering' = [offering EXCEPT ![p] = None]
    /\ IF media[p] # None /\ media[p].stage = "syncing"
       THEN Then(p, Resumed(p)) /\ media' = [media EXCEPT ![p] = None]
       ELSE Then(p, <<>>) /\ UNCHANGED media
    /\ recovery' = IF p = "teacher" THEN [recovery EXCEPT !.inFlight = FALSE] ELSE recovery

\* queueRenegotiation is done with its head: what waited for it goes on, and
\* the professor's recovery looks at the connection again.
Finish(p) ==
    /\ offering' = [offering EXCEPT ![p] = None]
    /\ IF media[p] # None /\ media[p].stage = "syncing"
       THEN Then(p, Resumed(p)) /\ media' = [media EXCEPT ![p] = None]
       ELSE Then(p, <<>>) /\ UNCHANGED media
    /\ recovery' = IF p = "teacher" /\ recovery.inFlight
                   THEN LET r == [recovery EXCEPT !.inFlight = FALSE]
                        IN  IF ice = "lost" THEN Scheduled(r, "later") ELSE r
                   ELSE recovery

\* An offer that throws: the initial one closes the connection, a later one only
\* leaves a message on the screen.
OfferFails(p, as) ==
    IF as \in {"first", "sync"} THEN Close(p)
    ELSE Finish(p) /\ UNCHANGED <<peer, pending, ice>>

\* So does an offer or an answer of the other side that cannot be applied:
\* handleWebRtcOffer of the student closes the connection.
AnsweringFails(p, peers) ==
    IF p = "student" THEN Close(p)
    ELSE peer' = peers /\ Then(p, <<>>) /\ UNCHANGED <<offering, media, pending, ice, recovery>>

\* flushPendingIceCandidates: the connection ignores a candidate of other
\* credentials than its remote description's.
Flushed(p, cred) == IF \E i \in DOMAIN pending[p] : pending[p][i] = cred THEN cred ELSE None

-----------------------------------------------------------------------------
(* The operations of a connection *)

Executes(p, op) == chain[p] # <<>> /\ Head(chain[p]).op = op

CreateOffer(p) ==
    /\ Executes(p, "createOffer")
    /\ LET as == Head(chain[p]).as IN
       IF peer[p].signaling = "remote" THEN OfferFails(p, as)
       ELSE /\ Then(p, <<Operation("setLocalOffer", as, None)>>)
            /\ UNCHANGED <<peer, offering, media, pending, ice, recovery>>
    /\ UNCHANGED <<socket, session, over, wire, notice, left>>

\* setLocalDescription of an offer, and sending it.
SetLocalOffer(p) ==
    /\ Executes(p, "setLocalOffer")
    /\ LET as    == Head(chain[p]).as
           creds == IF as = "restart" \/ Local(p) = None THEN NewCredentials ELSE Local(p)
       IN  IF peer[p].signaling = "remote" THEN OfferFails(p, as) /\ UNCHANGED wire
           ELSE IF as \in {"first", "sync"} /\ ~MaySend(p) THEN Close(p) /\ UNCHANGED wire
           ELSE /\ peer' = [peer EXCEPT ![p].signaling = "local", ![p].offered = creds]
                /\ wire' = Send(wire, p, Message("offer", creds))
                /\ IF as = "first" THEN Then(p, <<>>) /\ UNCHANGED <<offering, media, recovery>>
                   ELSE Finish(p)
                /\ UNCHANGED <<pending, ice>>
    /\ UNCHANGED <<socket, session, over, notice, left>>

\* An offer received while an own one is under way takes that one back.
SetRemoteOffer(p) ==
    /\ Executes(p, "setRemoteOffer")
    /\ LET cred  == Head(chain[p]).cred
           given == cred # peer[p].theirs
       IN  peer' = [peer EXCEPT ![p].signaling = "remote", ![p].described = TRUE,
                        ![p].offered = None, ![p].theirs = cred,
                        ![p].renew = @ \/ given \/ peer[p].mine = None,
                        ![p].reach = IF given THEN Flushed(p, cred) ELSE @]
    /\ pending' = [pending EXCEPT ![p] = <<>>]
    /\ Then(p, <<Operation("createAnswer", None, None)>>)
    /\ UNCHANGED <<socket, session, over, wire, offering, media, ice, recovery, notice, left>>

CreateAnswer(p) ==
    /\ Executes(p, "createAnswer")
    /\ IF peer[p].signaling # "remote" THEN AnsweringFails(p, peer)
       ELSE /\ Then(p, <<Operation("setLocalAnswer", None, None)>>)
            /\ UNCHANGED <<peer, offering, media, pending, ice, recovery>>
    /\ UNCHANGED <<socket, session, over, wire, notice, left>>

\* setLocalDescription of an answer, and sending it.
SetLocalAnswer(p) ==
    /\ Executes(p, "setLocalAnswer")
    /\ LET creds == IF peer[p].renew THEN NewCredentials ELSE peer[p].mine
           peers == [peer EXCEPT ![p].signaling = "stable", ![p].mine = creds, ![p].renew = FALSE]
       IN  IF peer[p].signaling # "remote" THEN AnsweringFails(p, peer) /\ UNCHANGED wire
           ELSE IF ~MaySend(p) THEN AnsweringFails(p, peers) /\ UNCHANGED wire
           ELSE /\ peer' = peers
                /\ wire' = Send(wire, p, Message("answer", creds))
                /\ Then(p, <<>>)
                /\ ice' = IF p = "teacher" /\ peer[p].renew THEN "checking" ELSE ice
                /\ UNCHANGED <<offering, media, pending, recovery>>
    /\ UNCHANGED <<socket, session, over, notice, left>>

\* Mutant: the answer to a renegotiation is taken for a repeated one.
SetRemoteAnswerOnce(p) ==
    /\ Executes(p, "setRemoteAnswer")
    /\ Then(p, <<>>)
    /\ LET cred == Head(chain[p]).cred IN
       IF peer[p].signaling # "local" \/ peer[p].described THEN UNCHANGED <<peer, pending, ice>>
       ELSE /\ peer' = [peer EXCEPT ![p].signaling = "stable", ![p].described = TRUE,
                           ![p].mine = peer[p].offered, ![p].offered = None,
                           ![p].theirs = cred, ![p].reach = Flushed(p, cred)]
            /\ pending' = [pending EXCEPT ![p] = <<>>]
            /\ ice' = IF p = "teacher" THEN "checking" ELSE ice
    /\ UNCHANGED <<socket, session, over, wire, offering, media, recovery, notice, left>>

\* An answer that comes when no offer is under way is refused.
SetRemoteAnswer(p) ==
    /\ Executes(p, "setRemoteAnswer")
    /\ Then(p, <<>>)
    /\ LET cred  == Head(chain[p]).cred
           given == cred # peer[p].theirs
       IN  IF peer[p].signaling # "local" THEN UNCHANGED <<peer, pending, ice>>
           ELSE /\ peer' = [peer EXCEPT ![p].signaling = "stable", ![p].described = TRUE,
                               ![p].mine = peer[p].offered, ![p].offered = None,
                               ![p].theirs = cred,
                               ![p].reach = IF given THEN Flushed(p, cred) ELSE @]
                /\ pending' = [pending EXCEPT ![p] = <<>>]
                /\ ice' = IF p = "teacher" /\ (given \/ peer[p].offered # peer[p].mine)
                          THEN "checking" ELSE ice
    /\ UNCHANGED <<socket, session, over, wire, offering, media, recovery, notice, left>>

AddCandidate(p) ==
    /\ Executes(p, "addCandidate")
    /\ Then(p, <<>>)
    /\ LET cred == Head(chain[p]).cred IN
       peer' = IF cred = peer[p].theirs THEN [peer EXCEPT ![p].reach = cred] ELSE peer
    /\ UNCHANGED <<socket, session, over, wire, offering, media, pending, ice, recovery, notice, left>>

Execute(p) ==
    \/ CreateOffer(p)    \/ SetLocalOffer(p) \/ SetRemoteOffer(p)  \/ CreateAnswer(p)
    \/ SetLocalAnswer(p) \/ AddCandidate(p)  \/ SetRemoteAnswer(p)

-----------------------------------------------------------------------------
(* The windows *)

\* render starts the connection of an attendance that has none; the state is
\* rendered again at every heartbeat.
StartTeacherWebRtc ==
    /\ session["teacher"]
    /\ peer["teacher"] = None
    /\ peer'  = [peer EXCEPT !["teacher"] = NewPeer]
    /\ media' = [media EXCEPT !["teacher"] = [stage |-> "starting", offer |-> None]]
    /\ UNCHANGED <<socket, session, over, wire, chain, offering, pending, ice, recovery, notice, left>>

\* Camera and microphone are on, or refused.  `changed` when one was on before:
\* the tracks are then added here, and negotiated before the rest.
MediaReady(p) ==
    /\ media[p] # None
    /\ media[p].stage = "starting"
    /\ \/ /\ Calls(p, Head(Resumed(p)))
          /\ media' = [media EXCEPT ![p] = None]
          /\ UNCHANGED <<offering, left>>
       \/ /\ Stable(p)
          /\ left.early > 0
          /\ left' = [left EXCEPT !.early = @ - 1]
          /\ media' = [media EXCEPT ![p].stage = "syncing"]
          /\ Queue(p, "sync")
    /\ UNCHANGED <<socket, session, over, wire, peer, pending, ice, recovery, notice>>

\* A device or the shared screen changes; synchronizeLocalTracks negotiates it
\* on a stable connection.
Change(p) ==
    /\ left.change > 0
    /\ left' = [left EXCEPT !.change = @ - 1]
    /\ Stable(p)
    /\ media[p] = None
    /\ Queue(p, "change")
    /\ UNCHANGED <<socket, session, over, wire, peer, media, pending, ice, recovery, notice>>

\* onicecandidate: candidates of the local description are gathered and sent.
Gather(p) ==
    /\ peer[p] # None
    /\ Local(p) # peer[p].gathered
    /\ peer' = [peer EXCEPT ![p].gathered = Local(p)]
    /\ wire' = IF Local(p) = None THEN wire ELSE Send(wire, p, Message("candidate", Local(p)))
    /\ UNCHANGED <<socket, session, over, chain, offering, media, pending, ice, recovery, notice, left>>

\* render with the notice of a recovered attendance, once per attendance.
UseNotice ==
    /\ notice = "shown"
    /\ session["teacher"]
    /\ peer["teacher"] # None
    /\ notice' = "used"
    /\ Queue("teacher", "restart")
    /\ UNCHANGED <<socket, session, over, wire, peer, media, pending, ice, recovery, left>>

\* Mutant: the recovery renegotiates without restarting ICE.
RecoveryTimerKeepingIce ==
    /\ recovery.timer = "now" \/ (recovery.timer = "later" /\ Settled)
    /\ Stable("teacher")
    /\ recovery' = [timer |-> "off", inFlight |-> TRUE]
    /\ Queue("teacher", "change")
    /\ UNCHANGED <<socket, session, over, wire, peer, media, pending, ice, notice, left>>

\* The timer of scheduleWebRtcRecovery; on a connection that is not stable it
\* is set again.
RecoveryTimer ==
    /\ recovery.timer = "now" \/ (recovery.timer = "later" /\ Settled)
    /\ \/ /\ Stable("teacher")
          /\ recovery' = [timer |-> "off", inFlight |-> TRUE]
          /\ Queue("teacher", "restart")
       \/ /\ ~Stable("teacher")
          /\ recovery' = [recovery EXCEPT !.timer = "later"]
          /\ UNCHANGED <<chain, offering>>
    /\ UNCHANGED <<socket, session, over, wire, peer, media, pending, ice, notice, left>>

-----------------------------------------------------------------------------
(* What a window is told *)

Rest(p) == [wire EXCEPT ![p] = Tail(@)]

Hears(p, kind) == wire[p] # <<>> /\ Head(wire[p]).kind = kind

\* handleWebRtcOffer: the student's first offer makes the connection.
HearOffer(p) ==
    /\ Hears(p, "offer")
    /\ wire' = Rest(p)
    /\ LET cred == Head(wire[p]).cred IN
       CASE peer[p] # None ->
               Calls(p, Operation("setRemoteOffer", None, cred)) /\ UNCHANGED <<peer, media>>
         [] peer[p] = None /\ p = "student" ->
               /\ peer'  = [peer EXCEPT ![p] = NewPeer]
               /\ media' = [media EXCEPT ![p] = [stage |-> "starting", offer |-> cred]]
               /\ UNCHANGED chain
         [] OTHER -> UNCHANGED <<peer, media, chain>>
    /\ UNCHANGED <<socket, session, over, offering, pending, ice, recovery, notice, left>>

\* handleWebRtcAnswer
HearAnswer(p) ==
    /\ Hears(p, "answer")
    /\ wire' = Rest(p)
    /\ IF peer[p] = None THEN UNCHANGED chain
       ELSE Calls(p, Operation("setRemoteAnswer", None, Head(wire[p]).cred))
    /\ UNCHANGED <<socket, session, over, peer, offering, media, pending, ice, recovery, notice, left>>

\* handleRemoteIceCandidate
HearCandidate(p) ==
    /\ Hears(p, "candidate")
    /\ wire' = Rest(p)
    /\ LET cred == Head(wire[p]).cred IN
       CASE peer[p] = None -> UNCHANGED <<pending, chain>>
         [] peer[p] # None /\ ~peer[p].described ->
               pending' = [pending EXCEPT ![p] = Append(@, cred)] /\ UNCHANGED chain
         [] OTHER -> Calls(p, Operation("addCandidate", None, cred)) /\ UNCHANGED pending
    /\ UNCHANGED <<socket, session, over, peer, offering, media, ice, recovery, notice, left>>

\* session:reconnecting and session:recovered, of which only the professor's
\* window makes something.
HearNotice(p) ==
    /\ Hears(p, "reconnecting") \/ Hears(p, "recovered")
    /\ wire' = Rest(p)
    /\ notice' = IF p = "student" \/ notice = "used" THEN notice
                 ELSE IF Hears(p, "recovered") THEN "shown" ELSE "none"
    /\ UNCHANGED <<socket, session, over, window, ice, recovery, left>>

\* session:ended
HearEnded(p) ==
    /\ Hears(p, "ended")
    /\ wire' = Rest(p)
    /\ session' = [session EXCEPT ![p] = FALSE]
    /\ Close(p)
    /\ UNCHANGED <<socket, over, notice, left>>

Hear(p) == HearOffer(p) \/ HearAnswer(p) \/ HearCandidate(p) \/ HearNotice(p) \/ HearEnded(p)

-----------------------------------------------------------------------------
(* The server and the outside world *)

\* A socket is lost, with what was under way to it and any part of what it has
\* sent last; the server tells the other end.
LoseSocket(p) ==
    /\ left.drop > 0
    /\ left' = [left EXCEPT !.drop = @ - 1]
    /\ socket[p] = "up"
    /\ socket' = [socket EXCEPT ![p] = "down"]
    /\ \E n \in 0 .. Len(wire[Other(p)]) :
          /\ \A i \in n + 1 .. Len(wire[Other(p)]) : wire[Other(p)][i].kind \in Relayed
          /\ LET kept == [wire EXCEPT ![p] = <<>>, ![Other(p)] = SubSeq(@, 1, n)]
             IN  wire' = IF over THEN kept ELSE Notify(kept, Other(p), "reconnecting")
    /\ notice' = IF p = "teacher" /\ notice = "shown" THEN "none" ELSE notice
    /\ UNCHANGED <<session, over, window, ice, recovery>>

Reconnect(p) ==
    /\ socket[p] = "down"
    /\ socket' = [socket EXCEPT ![p] = "rejoining"]
    /\ UNCHANGED <<session, over, wire, window, ice, recovery, notice, left>>

\* session:recover, and what the server says of it to both.
Rejoin(p) ==
    /\ socket[p] = "rejoining"
    /\ socket' = [socket EXCEPT ![p] = "up"]
    /\ wire' = IF over THEN [wire EXCEPT ![p] = Append(@, Message("ended", None))]
               ELSE IF socket[Other(p)] = "up"
                    THEN [s \in Sides |-> Append(wire[s], Message("recovered", None))]
                    ELSE wire
    /\ UNCHANGED <<session, over, window, ice, recovery, notice, left>>

End ==
    /\ ~over
    /\ over' = TRUE
    /\ wire' = Notify(Notify(wire, "teacher", "ended"), "student", "ended")
    /\ UNCHANGED <<socket, session, window, ice, recovery, notice, left>>

\* The two windows reach each other: connectionState "connected", with
\* clearWebRtcRecovery.
Reached == ice' = "connected" /\ recovery' = NoRecovery

Connect ==
    /\ ice = "checking" /\ Linked
    /\ Reached
    /\ UNCHANGED <<socket, session, over, wire, window, notice, left>>

\* A failure that passes by itself.
Return ==
    /\ ice = "lost" /\ Linked
    /\ Reached
    /\ UNCHANGED <<socket, session, over, wire, window, notice, left>>

\* "disconnected" or "failed": handleWebRtcConnectionState.
Lost == ice' = "lost" /\ recovery' \in {Scheduled(recovery, "now"), Scheduled(recovery, "later")}

NetworkFails ==
    /\ left.network > 0
    /\ left' = [left EXCEPT !.network = @ - 1]
    /\ ice \in {"checking", "connected"} /\ Settled
    /\ Lost
    /\ UNCHANGED <<socket, session, over, wire, window, notice>>

\* ICE gives up on what cannot be reached.
GiveUp ==
    /\ ice \in {"checking", "connected"} /\ ~Linked /\ Settled
    /\ Lost
    /\ UNCHANGED <<socket, session, over, wire, window, notice, left>>

-----------------------------------------------------------------------------

Init ==
    /\ socket   = [p \in Sides |-> "up"]
    /\ session  = [p \in Sides |-> TRUE]
    /\ over     = FALSE
    /\ wire     = [p \in Sides |-> <<>>]
    /\ peer     = [p \in Sides |-> None]
    /\ chain    = [p \in Sides |-> <<>>]
    /\ offering = [p \in Sides |-> None]
    /\ media    = [p \in Sides |-> None]
    /\ pending  = [p \in Sides |-> <<>>]
    /\ ice      = "new"
    /\ recovery = NoRecovery
    /\ notice   = "none"
    /\ left \in Limits

\* What the windows, the relay and the browsers do on their own.
Program ==
    \/ \E p \in Sides : Execute(p) \/ MediaReady(p) \/ Gather(p) \/ Hear(p) \/ Rejoin(p)
    \/ StartTeacherWebRtc \/ UseNotice \/ RecoveryTimer \/ Connect \/ GiveUp

Next ==
    \/ Program
    \/ \E p \in Sides : Change(p) \/ LoseSocket(p) \/ Reconnect(p)
    \/ End \/ Return \/ NetworkFails

Spec == Init /\ [][Next]_vars

FairSpec ==
    /\ Spec
    /\ \A p \in Sides : WF_vars(Execute(p)) /\ WF_vars(MediaReady(p)) /\ WF_vars(Gather(p))
                        /\ WF_vars(Hear(p)) /\ WF_vars(Reconnect(p)) /\ WF_vars(Rejoin(p))
    /\ WF_vars(StartTeacherWebRtc) /\ WF_vars(UseNotice) /\ WF_vars(RecoveryTimer)
    /\ WF_vars(Connect) /\ WF_vars(GiveUp)

-----------------------------------------------------------------------------
(* Properties *)

\* While the professor's connection is lost, a timer is set or a renegotiation
\* is under way that will look at it again: scheduleWebRtcRecovery's two flags
\* never block a recovery that nothing pursues.
FailureIsPursued ==
    ice = "lost" => recovery.timer # "off" \/ (recovery.inFlight /\ offering["teacher"] # None)

\* A window that has been told of the end of the attendance holds no connection
\* for it again, whatever was under way then.
EndedStaysClosed == \A p \in Sides : ~session[p] => peer[p] = None

\* Sockets stay up, and at most one offer comes on top of those that the
\* attendance and the recovery of its media need.  With two of them the student's
\* window may be answering two offers at a time, outside the queue of its own: the
\* second answer finds the connection stable and handleWebRtcOffer closes it, with
\* an offer that has come meanwhile, for whose answer the professor waits for ever.
FewOffers == left.drop = 0 /\ left.change + left.early <= 1

\* No offer waits for ever: when everything has been delivered and executed, both
\* connections are stable, also after offers that crossed, were taken back or
\* came in the wrong order.
NoOfferWaits ==
    FewOffers =>
        [](~over /\ Settled => \A p \in Sides : peer[p] # None => peer[p].signaling = "stable")

\* The media comes back whenever it is lost, until the attendance ends.
MediaRecovers == FewOffers => []<>(ice = "connected" \/ over)

====
