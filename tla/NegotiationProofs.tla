------------------------- MODULE NegotiationProofs -------------------------
(***************************************************************************)
(* What the two windows keep to in every order of offers, answers,         *)
(* candidates, lost sockets and failures of the media: that an end is for  *)
(* good, that a failure is looked after, and that no offer waits for ever. *)
(***************************************************************************)
EXTENDS Negotiation, SequenceTheorems, TLAPS

\* A sequence, whatever its elements are.
IsSeq(queue) == queue \in Seq({queue[i] : i \in DOMAIN queue})

Has(queue, kind) == \E i \in DOMAIN queue : queue[i].kind = kind

\* The end is only told when it has come, no offer is told after it, and none
\* is left for a window that has been told.
Orderly(queue, ended, told) ==
    /\ IsSeq(queue)
    /\ Has(queue, "ended") => ended
    /\ \A i, j \in DOMAIN queue : i < j /\ queue[i].kind = "ended" => queue[j].kind # "offer"
    /\ told => ended /\ ~Has(queue, "offer")

\* The variables are functions on the two sides.
TwoSided ==
    /\ session \in [Sides -> BOOLEAN] /\ over \in BOOLEAN
    /\ DOMAIN wire = Sides /\ DOMAIN peer = Sides
    /\ DOMAIN chain = Sides /\ DOMAIN offering = Sides /\ DOMAIN media = Sides

\* A window that has been told of the end has nothing left that could make or
\* use a connection.
Dismissed(p) == peer[p] = None /\ chain[p] = <<>> /\ media[p] = None

EndInv ==
    /\ TwoSided
    /\ \A p \in Sides : Orderly(wire[p], over, ~session[p])
    /\ \A p \in Sides : ~session[p] => Dismissed(p)

\* What is in flight is a renegotiation that will end, and it or a timer looks
\* after a connection that is lost.
RecoveryInv ==
    /\ DOMAIN offering = Sides
    /\ recovery \in [timer : Timers, inFlight : BOOLEAN]
    /\ recovery.inFlight => offering["teacher"] # None
    /\ ice = "lost" => recovery.timer # "off" \/ recovery.inFlight

-----------------------------------------------------------------------------
(* Queues *)

\* A sequence over any set is one over its own elements.
LEMMA IsSeqLemma ==
    ASSUME NEW S, NEW queue \in Seq(S)
    PROVE  IsSeq(queue)
<1>1. queue \in [1 .. Len(queue) -> S] /\ Len(queue) \in Nat
  BY LenProperties
<1>2. queue \in [1 .. Len(queue) -> {queue[i] : i \in DOMAIN queue}]
  BY <1>1
<1> QED BY <1>1, <1>2, SeqDef DEF IsSeq

\* An offer is only sent before the end, the end only told after it.
LEMMA AppendLemma ==
    ASSUME NEW queue, NEW ended \in BOOLEAN, NEW told \in BOOLEAN, Orderly(queue, ended, told),
           NEW message, message.kind = "offer" => ~ended, message.kind = "ended" => ended
    PROVE  Orderly(Append(queue, message), ended, told)
<1> DEFINE longer == Append(queue, message)
           S == {queue[i] : i \in DOMAIN queue} \cup {message}
<1>1. queue \in Seq({queue[i] : i \in DOMAIN queue})
  BY DEF Orderly, IsSeq
<1>2. queue \in Seq(S) /\ message \in S
  BY <1>1, SeqMonotonic
<1> HIDE DEF S
<1>3. /\ longer \in Seq(S) /\ Len(longer) = Len(queue) + 1
      /\ \A i \in 1 .. Len(queue) : longer[i] = queue[i]
      /\ longer[Len(queue) + 1] = message
  BY <1>2, AppendProperties
<1>4. /\ DOMAIN queue = 1 .. Len(queue) /\ Len(queue) \in Nat
      /\ DOMAIN longer = 1 .. Len(queue) + 1
  BY <1>2, <1>3, LenProperties
<1> HIDE DEF longer
<1>5. IsSeq(longer)
  BY <1>3, IsSeqLemma
<1>6. \A i \in DOMAIN longer : \/ i \in DOMAIN queue /\ longer[i] = queue[i]
                               \/ i = Len(queue) + 1 /\ longer[i] = message
  BY <1>3, <1>4
<1>7. Has(longer, "ended") => ended
  BY <1>6 DEF Orderly, Has
<1>8. told => ended /\ ~Has(longer, "offer")
  BY <1>6 DEF Orderly, Has
<1>9. ASSUME NEW i \in DOMAIN longer, NEW j \in DOMAIN longer, i < j, longer[i].kind = "ended"
      PROVE  longer[j].kind # "offer"
  <2>1. ended
    BY <1>7, <1>9 DEF Has
  <2>2. CASE j \in DOMAIN queue
    <3>1. i \in DOMAIN queue
      BY <1>4, <1>9, <2>2
    <3> QED BY <1>3, <1>4, <1>9, <2>2, <3>1 DEF Orderly
  <2>3. CASE j = Len(queue) + 1
    BY <1>3, <2>1, <2>3
  <2> QED BY <1>6, <2>2, <2>3
<1>10. Orderly(longer, ended, told)
  BY <1>5, <1>7, <1>8, <1>9 DEF Orderly
<1> QED BY <1>10 DEF longer

\* What is read is gone, and nothing is offered after the end.
LEMMA TailLemma ==
    ASSUME NEW queue, NEW ended \in BOOLEAN, NEW told \in BOOLEAN, Orderly(queue, ended, told),
           queue # <<>>
    PROVE  /\ Orderly(Tail(queue), ended, told)
           /\ Head(queue).kind = "offer" => ~told
           /\ Head(queue).kind = "ended" => ended /\ Orderly(Tail(queue), ended, TRUE)
<1> DEFINE S == {queue[i] : i \in DOMAIN queue}
           rest == Tail(queue)
<1>1. queue \in Seq(S)
  BY DEF Orderly, IsSeq
<1> HIDE DEF S
<1>2. /\ rest \in Seq(S) /\ Len(rest) = Len(queue) - 1
      /\ \A i \in 1 .. Len(rest) : rest[i] = queue[i + 1]
  BY <1>1, HeadTailProperties
<1>3. /\ DOMAIN queue = 1 .. Len(queue) /\ Len(queue) \in Nat /\ Len(queue) # 0
      /\ DOMAIN rest = 1 .. Len(queue) - 1
  BY <1>1, <1>2, LenProperties, EmptySeq
<1>4. Head(queue) = queue[1] /\ 1 \in DOMAIN queue
  BY <1>1, <1>3, HeadTailProperties
<1> HIDE DEF rest
<1>5. \A i \in DOMAIN rest : /\ i + 1 \in DOMAIN queue /\ rest[i] = queue[i + 1]
                             /\ 1 < i + 1 /\ i \in Int
  BY <1>2, <1>3
<1>6. IsSeq(rest)
  BY <1>2, IsSeqLemma
<1>7. (Has(rest, "ended") => ended) /\ (told => ended /\ ~Has(rest, "offer"))
  BY <1>5 DEF Orderly, Has
<1>8. \A i, j \in DOMAIN rest : i < j /\ rest[i].kind = "ended" => rest[j].kind # "offer"
  <2> SUFFICES ASSUME NEW i \in DOMAIN rest, NEW j \in DOMAIN rest, i < j, rest[i].kind = "ended"
               PROVE  rest[j].kind # "offer"
    OBVIOUS
  <2>1. i + 1 < j + 1
    BY <1>5
  <2> QED BY <1>5, <2>1 DEF Orderly
<1>9. Orderly(rest, ended, told)
  BY <1>6, <1>7, <1>8 DEF Orderly
<1>10. Head(queue).kind = "offer" => ~told
  BY <1>4 DEF Orderly, Has
<1>11. ASSUME Head(queue).kind = "ended" PROVE ended /\ Orderly(rest, ended, TRUE)
  <2>1. ended
    BY <1>4, <1>11 DEF Orderly, Has
  <2>2. ~Has(rest, "offer")
    BY <1>4, <1>5, <1>11 DEF Orderly, Has
  <2> QED BY <1>9, <2>1, <2>2 DEF Orderly
<1> QED BY <1>9, <1>10, <1>11 DEF rest

\* What a lost socket leaves of a queue.
LEMMA PrefixLemma ==
    ASSUME NEW queue, NEW ended \in BOOLEAN, NEW told \in BOOLEAN, Orderly(queue, ended, told),
           NEW n \in 0 .. Len(queue)
    PROVE  Orderly(SubSeq(queue, 1, n), ended, told)
<1> DEFINE S == {queue[i] : i \in DOMAIN queue}
           front == SubSeq(queue, 1, n)
<1>1. queue \in Seq(S)
  BY DEF Orderly, IsSeq
<1> HIDE DEF S
<1>2. DOMAIN queue = 1 .. Len(queue) /\ Len(queue) \in Nat /\ n \in Nat /\ n <= Len(queue)
  BY <1>1, LenProperties
<1>3. \A i \in 1 .. n : queue[i] \in S
  BY <1>1, <1>2, ElementOfSeq
<1>4. /\ front \in Seq(S)
      /\ Len(front) = IF 1 <= n THEN n - 1 + 1 ELSE 0
      /\ \A i \in 1 .. (n - 1 + 1) : front[i] = queue[1 + i - 1]
  BY <1>1, <1>2, <1>3, SubSeqProperties
<1>5. DOMAIN front = 1 .. n
  BY <1>2, <1>4, LenProperties
<1> HIDE DEF front
<1>6. \A i \in DOMAIN front : front[i] = queue[i] /\ i \in DOMAIN queue
  BY <1>2, <1>4, <1>5
<1>7. Orderly(front, ended, told)
  BY <1>4, <1>6, IsSeqLemma DEF Orderly, Has
<1> QED BY <1>7 DEF front

\* A lost socket's own queue.
LEMMA EmptyLemma ==
    ASSUME NEW ended \in BOOLEAN, NEW told \in BOOLEAN, told => ended
    PROVE  Orderly(<<>>, ended, told)
BY DEF Orderly, IsSeq, Has

\* The end comes.
LEMMA EndedLemma ==
    ASSUME NEW queue, NEW ended \in BOOLEAN, NEW told \in BOOLEAN, Orderly(queue, ended, told)
    PROVE  Orderly(queue, TRUE, told)
BY DEF Orderly

-----------------------------------------------------------------------------
(* The end *)

\* The messages on their way are in order.
InOrder(w, ended) ==
    /\ DOMAIN w = Sides
    /\ \A q \in Sides : Orderly(w[q], ended, ~session[q])

\* A step of p's window: the other's stays, and p has not been told of the end.
LEMMA OneSided ==
    ASSUME EndInv, NEW p \in Sides, session[p], UNCHANGED <<session, over>>,
           DOMAIN peer' = Sides, DOMAIN chain' = Sides, DOMAIN offering' = Sides,
           DOMAIN media' = Sides, InOrder(wire', over),
           \A q \in Sides : q # p => /\ peer'[q] = peer[q] /\ chain'[q] = chain[q]
                                     /\ media'[q] = media[q]
    PROVE  EndInv'
BY DEF EndInv, TwoSided, Dismissed, InOrder

\* The windows stay, and the messages are in order.
LEMMA WindowsStay ==
    ASSUME EndInv, UNCHANGED <<session, peer, chain, media, offering>>,
           over' \in BOOLEAN, InOrder(wire', over')
    PROVE  EndInv'
BY DEF EndInv, TwoSided, Dismissed, InOrder

\* A message that may be told to p.
LEMMA ToldLemma ==
    ASSUME EndInv, NEW ended \in BOOLEAN, NEW w, InOrder(w, ended), NEW p \in Sides, NEW message,
           message.kind = "offer" => ~ended, message.kind = "ended" => ended
    PROVE  InOrder([w EXCEPT ![p] = Append(@, message)], ended)
<1>1. Orderly(Append(w[p], message), ended, ~session[p])
  BY AppendLemma DEF InOrder
<1> QED BY <1>1 DEF InOrder

\* What one window sends to the other over the relay.
LEMMA SendLemma ==
    ASSUME EndInv, NEW p \in Sides, NEW message, message.kind \in Relayed
    PROVE  InOrder(wire, over) /\ InOrder(Send(wire, p, message), over)
<1>1. InOrder(wire, over) /\ over \in BOOLEAN
  BY DEF EndInv, TwoSided, InOrder
<1>2. CASE MaySend(p) /\ Routed(p)
  <2>1. ~over /\ Other(p) \in Sides
    BY <1>2 DEF Routed, Other, Sides
  <2>2. InOrder([wire EXCEPT ![Other(p)] = Append(@, message)], over)
    BY <1>1, <2>1, ToldLemma DEF Relayed
  <2> QED BY <1>1, <1>2, <2>2 DEF Send
<1>3. CASE ~(MaySend(p) /\ Routed(p))
  BY <1>1, <1>3 DEF Send
<1> QED BY <1>2, <1>3

\* A notice of the server.
LEMMA NotifyLemma ==
    ASSUME EndInv, NEW ended \in BOOLEAN, NEW w, InOrder(w, ended), NEW p \in Sides, NEW kind,
           kind # "offer", kind = "ended" => ended
    PROVE  InOrder(Notify(w, p, kind), ended)
<1>1. Message(kind, None).kind = kind
  BY DEF Message
<1> QED BY <1>1, ToldLemma DEF Notify

\* p has read its first message.
LEMMA RestLemma ==
    ASSUME EndInv, NEW p \in Sides, wire[p] # <<>>
    PROVE  /\ InOrder(Rest(p), over)
           /\ Hears(p, "offer") => session[p]
           /\ Hears(p, "ended") => over /\ Orderly(Tail(wire[p]), over, TRUE)
<1>1. Orderly(wire[p], over, ~session[p]) /\ over \in BOOLEAN /\ (~session[p]) \in BOOLEAN
  BY DEF EndInv, TwoSided
<1>2. /\ Orderly(Tail(wire[p]), over, ~session[p])
      /\ Head(wire[p]).kind = "offer" => session[p]
      /\ Head(wire[p]).kind = "ended" => over /\ Orderly(Tail(wire[p]), over, TRUE)
  BY <1>1, TailLemma
<1>3. InOrder(Rest(p), over)
  BY <1>2 DEF EndInv, TwoSided, InOrder, Rest
<1> QED BY <1>2, <1>3 DEF Hears

\* Closing leaves nothing.
LEMMA CloseLemma ==
    ASSUME TwoSided, NEW p \in Sides, Close(p)
    PROVE  /\ DOMAIN peer' = Sides /\ DOMAIN chain' = Sides /\ DOMAIN offering' = Sides
           /\ DOMAIN media' = Sides /\ Dismissed(p)'
           /\ \A q \in Sides : q # p => /\ peer'[q] = peer[q] /\ chain'[q] = chain[q]
                                        /\ media'[q] = media[q]
BY DEF TwoSided, Close, Dismissed

\* The end of a renegotiation concerns one window.
LEMMA FinishLemma ==
    ASSUME TwoSided, NEW p \in Sides, Finish(p)
    PROVE  /\ DOMAIN chain' = Sides /\ DOMAIN offering' = Sides /\ DOMAIN media' = Sides
           /\ \A q \in Sides : q # p => chain'[q] = chain[q] /\ media'[q] = media[q]
BY DEF TwoSided, Finish, Then

\* So does a renegotiation that is queued.
LEMMA QueueLemma ==
    ASSUME TwoSided, NEW p \in Sides, NEW as, Queue(p, as)
    PROVE  /\ DOMAIN chain' = Sides /\ DOMAIN offering' = Sides
           /\ \A q \in Sides : q # p => chain'[q] = chain[q]
           /\ peer[p] = None => chain'[p] = chain[p]
BY DEF TwoSided, Queue, Calls, Stable

\* A connection executes an operation.
LEMMA ExecuteKeepsEnd ==
    ASSUME EndInv, NEW p \in Sides, Execute(p)
    PROVE  EndInv'
<1>1. TwoSided /\ InOrder(wire, over)
  BY DEF EndInv, TwoSided, InOrder
<1>2. session[p] /\ UNCHANGED <<session, over>>
  <2>1. chain[p] # <<>> /\ UNCHANGED <<session, over>>
    BY DEF Execute, CreateOffer, SetLocalOffer, SetRemoteOffer, CreateAnswer, SetLocalAnswer,
           AddCandidate, SetRemoteAnswer, Executes
  <2> QED BY <2>1 DEF EndInv, Dismissed
<1>3. ASSUME OfferFails(p, Head(chain[p]).as) \/ AnsweringFails(p, peer)
      PROVE  /\ DOMAIN peer' = Sides /\ DOMAIN chain' = Sides /\ DOMAIN offering' = Sides
             /\ DOMAIN media' = Sides
             /\ \A q \in Sides : q # p => /\ peer'[q] = peer[q] /\ chain'[q] = chain[q]
                                          /\ media'[q] = media[q]
  <2>1. CASE Close(p)
    BY <1>1, <2>1, CloseLemma
  <2>2. CASE Finish(p) /\ UNCHANGED peer
    BY <1>1, <2>2, FinishLemma DEF TwoSided
  <2>3. CASE peer' = peer /\ Then(p, <<>>) /\ UNCHANGED <<offering, media>>
    BY <1>1, <2>3 DEF TwoSided, Then
  <2> QED BY <1>3, <2>1, <2>2, <2>3 DEF OfferFails, AnsweringFails
<1>4. ASSUME UNCHANGED <<offering, media>>, \E next : Then(p, next),
             DOMAIN peer' = Sides, \A q \in Sides : q # p => peer'[q] = peer[q]
      PROVE  /\ DOMAIN chain' = Sides /\ DOMAIN offering' = Sides /\ DOMAIN media' = Sides
             /\ \A q \in Sides : q # p => chain'[q] = chain[q] /\ media'[q] = media[q]
  BY <1>1, <1>4 DEF TwoSided, Then
<1>5. CASE CreateOffer(p)
  <2>1. wire' = wire
    BY <1>5 DEF CreateOffer
  <2>2. CASE OfferFails(p, Head(chain[p]).as)
    BY <1>1, <1>2, <1>3, <2>1, <2>2, OneSided
  <2>3. CASE (\E next : Then(p, next)) /\ UNCHANGED <<peer, offering, media>>
    BY <1>1, <1>2, <1>4, <2>1, <2>3, OneSided DEF TwoSided
  <2> QED BY <1>5, <2>2, <2>3 DEF CreateOffer
<1>6. CASE SetLocalOffer(p)
  <2>1. CASE OfferFails(p, Head(chain[p]).as) /\ UNCHANGED wire
    BY <1>1, <1>2, <1>3, <2>1, OneSided
  <2>2. CASE Close(p) /\ UNCHANGED wire
    BY <1>1, <1>2, <2>2, CloseLemma, OneSided
  <2>3. ASSUME NEW creds,
               peer' = [peer EXCEPT ![p].signaling = "local", ![p].offered = creds],
               wire' = Send(wire, p, Message("offer", creds)),
               (Then(p, <<>>) /\ UNCHANGED <<offering, media, recovery>>) \/ Finish(p)
        PROVE  EndInv'
    <3>1. DOMAIN peer' = Sides /\ \A q \in Sides : q # p => peer'[q] = peer[q]
      BY <1>1, <2>3 DEF TwoSided
    <3>2. Message("offer", creds).kind \in Relayed
      BY DEF Message, Relayed
    <3>3. InOrder(wire', over)
      BY <2>3, <3>2, SendLemma
    <3>4. CASE Finish(p)
      BY <1>1, <1>2, <3>1, <3>3, <3>4, FinishLemma, OneSided
    <3>5. CASE Then(p, <<>>) /\ UNCHANGED <<offering, media>>
      BY <1>2, <1>4, <3>1, <3>3, <3>5, OneSided
    <3> QED BY <2>3, <3>4, <3>5
  <2> QED BY <1>6, <2>1, <2>2, <2>3 DEF SetLocalOffer
<1>7. CASE SetRemoteOffer(p)
  <2>1. UNCHANGED <<wire, offering, media>> /\ \E next : Then(p, next)
    BY <1>7, Zenon DEF SetRemoteOffer
  <2>2. DOMAIN peer' = Sides /\ \A q \in Sides : q # p => peer'[q] = peer[q]
    BY <1>1, <1>7 DEF SetRemoteOffer, TwoSided
  <2> QED BY <1>1, <1>2, <1>4, <2>1, <2>2, OneSided
<1>8. CASE CreateAnswer(p)
  <2>1. wire' = wire
    BY <1>8 DEF CreateAnswer
  <2>2. CASE AnsweringFails(p, peer)
    BY <1>1, <1>2, <1>3, <2>1, <2>2, OneSided
  <2>3. CASE (\E next : Then(p, next)) /\ UNCHANGED <<peer, offering, media>>
    BY <1>1, <1>2, <1>4, <2>1, <2>3, OneSided DEF TwoSided
  <2> QED BY <1>8, <2>2, <2>3 DEF CreateAnswer
<1>9. CASE SetLocalAnswer(p)
  <2> DEFINE creds == IF peer[p].renew THEN NewCredentials ELSE peer[p].mine
             peers == [peer EXCEPT ![p].signaling = "stable", ![p].mine = creds, ![p].renew = FALSE]
  <2>1. DOMAIN peers = Sides /\ \A q \in Sides : q # p => peers[q] = peer[q]
    <3> HIDE DEF creds
    <3> QED BY <1>1 DEF TwoSided
  <2>2. \/ AnsweringFails(p, peer) /\ UNCHANGED wire
        \/ AnsweringFails(p, peers) /\ UNCHANGED wire
        \/ /\ peer' = peers /\ wire' = Send(wire, p, Message("answer", creds))
           /\ Then(p, <<>>) /\ UNCHANGED <<offering, media>>
    BY <1>9 DEF SetLocalAnswer
  <2> HIDE DEF peers, creds
  <2>3. CASE AnsweringFails(p, peer) /\ UNCHANGED wire
    BY <1>1, <1>2, <1>3, <2>3, OneSided
  <2>4. CASE AnsweringFails(p, peers) /\ UNCHANGED wire
    <3>1. CASE Close(p)
      BY <1>1, <1>2, <2>4, <3>1, CloseLemma, OneSided
    <3>2. CASE peer' = peers /\ Then(p, <<>>) /\ UNCHANGED <<offering, media>>
      BY <1>1, <1>2, <1>4, <2>1, <2>4, <3>2, OneSided
    <3> QED BY <2>4, <3>1, <3>2 DEF AnsweringFails
  <2>5. CASE /\ peer' = peers /\ wire' = Send(wire, p, Message("answer", creds))
             /\ Then(p, <<>>) /\ UNCHANGED <<offering, media>>
    <3>1. Message("answer", creds).kind \in Relayed
      BY DEF Message, Relayed
    <3>2. InOrder(wire', over)
      BY <2>5, <3>1, SendLemma
    <3> QED BY <1>2, <1>4, <2>1, <2>5, <3>2, OneSided
  <2> QED BY <2>2, <2>3, <2>4, <2>5
<1>10. CASE AddCandidate(p)
  <2>1. /\ UNCHANGED <<wire, offering, media>> /\ Then(p, <<>>)
        /\ \/ peer' = peer
           \/ peer' = [peer EXCEPT ![p].reach = Head(chain[p]).cred]
    BY <1>10 DEF AddCandidate
  <2>2. DOMAIN peer' = Sides /\ \A q \in Sides : q # p => peer'[q] = peer[q]
    BY <1>1, <2>1 DEF TwoSided
  <2> QED BY <1>1, <1>2, <1>4, <2>1, <2>2, OneSided
<1>11. CASE SetRemoteAnswer(p)
  <2>1. /\ UNCHANGED <<wire, offering, media>> /\ Then(p, <<>>)
        /\ peer' = peer \/ \E new : peer' = [peer EXCEPT ![p] = new]
    BY <1>11 DEF SetRemoteAnswer
  <2>2. DOMAIN peer' = Sides /\ \A q \in Sides : q # p => peer'[q] = peer[q]
    BY <1>1, <2>1 DEF TwoSided
  <2> QED BY <1>1, <1>2, <1>4, <2>1, <2>2, OneSided
<1> QED BY <1>5, <1>6, <1>7, <1>8, <1>9, <1>10, <1>11 DEF Execute

\* A window does something on its own, or is told something.
LEMMA WindowKeepsEnd ==
    ASSUME EndInv, NEW p \in Sides,
           Execute(p) \/ MediaReady(p) \/ Gather(p) \/ Hear(p) \/ Change(p)
    PROVE  EndInv'
<1>1. TwoSided /\ InOrder(wire, over)
  BY DEF EndInv, TwoSided, InOrder
<1>2. ASSUME peer[p] # None \/ media[p] # None, UNCHANGED <<session, over>>
      PROVE  session[p]
  BY <1>2 DEF EndInv, Dismissed
<1>3. CASE MediaReady(p)
  <2>1. /\ session[p] /\ UNCHANGED <<session, over, wire, peer>>
        /\ DOMAIN media' = Sides /\ \A q \in Sides : q # p => media'[q] = media[q]
    BY <1>1, <1>2, <1>3 DEF MediaReady, TwoSided
  <2>2. CASE Queue(p, "sync")
    BY <1>1, <2>1, <2>2, QueueLemma, OneSided DEF TwoSided
  <2>3. CASE (\E operation : Calls(p, operation)) /\ UNCHANGED offering
    <3>1. DOMAIN chain' = Sides /\ \A q \in Sides : q # p => chain'[q] = chain[q]
      BY <1>1, <2>3 DEF TwoSided, Calls
    <3> QED BY <1>1, <2>1, <2>3, <3>1, OneSided DEF TwoSided
  <2> QED BY <1>3, <2>2, <2>3 DEF MediaReady
<1>4. CASE Gather(p)
  <2>1. /\ session[p] /\ UNCHANGED <<session, over, chain, offering, media>>
        /\ DOMAIN peer' = Sides /\ \A q \in Sides : q # p => peer'[q] = peer[q]
    BY <1>1, <1>2, <1>4 DEF Gather, TwoSided
  <2>2. Message("candidate", Local(p)).kind \in Relayed
    BY DEF Message, Relayed
  <2>3. InOrder(wire', over)
    BY <1>1, <1>4, <2>2, SendLemma DEF Gather
  <2> QED BY <1>1, <2>1, <2>3, OneSided DEF TwoSided
<1>5. CASE Change(p)
  <2>1. /\ session[p] /\ UNCHANGED <<session, over, wire, peer, media>> /\ Queue(p, "change")
    BY <1>2, <1>5 DEF Change, Stable
  <2> QED BY <1>1, <2>1, QueueLemma, OneSided DEF TwoSided
<1>6. CASE HearOffer(p)
  <2>1. /\ wire[p] # <<>> /\ wire' = Rest(p) /\ Hears(p, "offer")
        /\ UNCHANGED <<session, over, offering>>
    BY <1>6 DEF HearOffer, Hears
  <2>2. session[p] /\ InOrder(wire', over)
    BY <2>1, RestLemma
  <2>3. \/ UNCHANGED <<peer, media, chain>>
        \/ UNCHANGED <<peer, media>> /\ \E operation : Calls(p, operation)
        \/ /\ UNCHANGED chain /\ peer' = [peer EXCEPT ![p] = NewPeer]
           /\ \E new : media' = [media EXCEPT ![p] = new]
    <3>1. CASE peer[p] # None
      BY <1>6, <3>1, Zenon DEF HearOffer
    <3>2. CASE peer[p] = None /\ p = "student"
      BY <1>6, <3>2 DEF HearOffer
    <3>3. CASE peer[p] = None /\ p # "student"
      BY <1>6, <3>3 DEF HearOffer
    <3> QED BY <3>1, <3>2, <3>3
  <2>4. /\ DOMAIN peer' = Sides /\ DOMAIN chain' = Sides /\ DOMAIN media' = Sides
        /\ \A q \in Sides : q # p => /\ peer'[q] = peer[q] /\ chain'[q] = chain[q]
                                     /\ media'[q] = media[q]
    BY <1>1, <2>3 DEF TwoSided, Calls
  <2> QED BY <1>1, <2>1, <2>2, <2>4, OneSided DEF TwoSided
<1>7. CASE HearAnswer(p) \/ HearCandidate(p)
  <2>1. /\ wire[p] # <<>> /\ wire' = Rest(p)
        /\ UNCHANGED <<session, over, peer, offering, media>>
    BY <1>7 DEF HearAnswer, HearCandidate, Hears
  <2>2. InOrder(wire', over)
    BY <2>1, RestLemma
  <2>3. chain' = chain \/ (peer[p] # None /\ \E operation : Calls(p, operation))
    <3>1. CASE HearAnswer(p)
      BY <3>1, Zenon DEF HearAnswer
    <3>2. CASE HearCandidate(p)
      <4>1. CASE peer[p] = None \/ (peer[p] # None /\ ~peer[p].described)
        BY <3>2, <4>1 DEF HearCandidate
      <4>2. CASE peer[p] # None /\ peer[p].described
        <5>1. Calls(p, Operation("addCandidate", None, Head(wire[p]).cred))
          BY <3>2, <4>2 DEF HearCandidate
        <5> QED BY <4>2, <5>1
      <4> QED BY <4>1, <4>2
    <3> QED BY <1>7, <3>1, <3>2
  <2>4. CASE chain' = chain
    BY <2>1, <2>2, <2>4, WindowsStay DEF EndInv, TwoSided
  <2>5. CASE peer[p] # None /\ \E operation : Calls(p, operation)
    <3>1. DOMAIN chain' = Sides /\ \A q \in Sides : q # p => chain'[q] = chain[q]
      BY <1>1, <2>5 DEF TwoSided, Calls
    <3> QED BY <1>1, <1>2, <2>1, <2>2, <2>5, <3>1, OneSided DEF TwoSided
  <2> QED BY <2>3, <2>4, <2>5
<1>8. CASE HearNotice(p)
  <2>1. /\ wire[p] # <<>> /\ wire' = Rest(p)
        /\ UNCHANGED <<session, over, peer, chain, offering, media>>
    BY <1>8 DEF HearNotice, Hears, window
  <2>2. InOrder(wire', over)
    BY <2>1, RestLemma
  <2> QED BY <2>1, <2>2, WindowsStay DEF EndInv, TwoSided
<1>9. CASE HearEnded(p)
  <2>1. /\ wire[p] # <<>> /\ wire' = Rest(p) /\ Hears(p, "ended") /\ Close(p)
        /\ session' = [session EXCEPT ![p] = FALSE] /\ over' = over
    BY <1>9 DEF HearEnded, Hears
  <2>2. over /\ Orderly(Tail(wire[p]), over, TRUE)
    BY <2>1, RestLemma
  <2>3. /\ DOMAIN peer' = Sides /\ DOMAIN chain' = Sides /\ DOMAIN offering' = Sides
        /\ DOMAIN media' = Sides /\ Dismissed(p)'
        /\ \A q \in Sides : q # p => /\ peer'[q] = peer[q] /\ chain'[q] = chain[q]
                                     /\ media'[q] = media[q]
    BY <1>1, <2>1, CloseLemma
  <2>4. /\ DOMAIN wire' = Sides /\ session' \in [Sides -> BOOLEAN] /\ ~session'[p]
        /\ wire'[p] = Tail(wire[p])
        /\ \A q \in Sides : q # p => wire'[q] = wire[q] /\ session'[q] = session[q]
    BY <1>1, <2>1 DEF TwoSided, Rest
  <2>5. TwoSided'
    BY <1>1, <2>1, <2>3, <2>4 DEF TwoSided
  <2>6. \A q \in Sides : Orderly(wire'[q], over', ~session'[q])
    <3> SUFFICES ASSUME NEW q \in Sides PROVE Orderly(wire'[q], over', ~session'[q])
      OBVIOUS
    <3>1. CASE q = p
      <4>1. wire'[q] = Tail(wire[p]) /\ over' = over /\ (~session'[q]) = TRUE
        BY <2>1, <2>4, <3>1
      <4> QED BY <2>2, <4>1
    <3>2. CASE q # p
      BY <2>1, <2>4, <3>2 DEF EndInv
    <3> QED BY <3>1, <3>2
  <2>7. \A q \in Sides : ~session'[q] => Dismissed(q)'
    BY <2>3, <2>4 DEF EndInv, Dismissed
  <2> QED BY <2>5, <2>6, <2>7 DEF EndInv
<1> QED BY <1>3, <1>4, <1>5, <1>6, <1>7, <1>8, <1>9, ExecuteKeepsEnd DEF Hear

\* The professor's window starts a connection or renegotiates the one there is.
LEMMA TeacherKeepsEnd ==
    ASSUME EndInv, StartTeacherWebRtc \/ UseNotice \/ RecoveryTimer
    PROVE  EndInv'
<1>1. TwoSided /\ InOrder(wire, over) /\ "teacher" \in Sides
  BY DEF EndInv, TwoSided, InOrder, Sides
<1>2. CASE StartTeacherWebRtc
  <2>1. /\ session["teacher"] /\ UNCHANGED <<session, over, wire, chain, offering>>
        /\ DOMAIN peer' = Sides /\ DOMAIN media' = Sides
        /\ \A q \in Sides : q # "teacher" => peer'[q] = peer[q] /\ media'[q] = media[q]
    BY <1>1, <1>2 DEF StartTeacherWebRtc, TwoSided
  <2> QED BY <1>1, <2>1, OneSided DEF TwoSided
<1>3. ASSUME Queue("teacher", "restart"), Stable("teacher") \/ peer["teacher"] # None,
             UNCHANGED <<session, over, wire, peer, media>>
      PROVE  EndInv'
  <2>1. session["teacher"]
    BY <1>1, <1>3 DEF EndInv, Dismissed, Stable
  <2> QED BY <1>1, <1>3, <2>1, QueueLemma, OneSided DEF TwoSided
<1>4. CASE UseNotice
  BY <1>3, <1>4 DEF UseNotice
<1>5. CASE RecoveryTimer
  <2>1. CASE Stable("teacher") /\ Queue("teacher", "restart")
    BY <1>3, <1>5, <2>1 DEF RecoveryTimer
  <2>2. CASE UNCHANGED <<chain, offering>>
    BY <1>1, <1>5, <2>2, WindowsStay DEF RecoveryTimer, TwoSided
  <2> QED BY <1>5, <2>1, <2>2 DEF RecoveryTimer
<1> QED BY <1>2, <1>4, <1>5

\* The server and the sockets.
LEMMA ServerKeepsEnd ==
    ASSUME EndInv,
           End \/ \E p \in Sides : Rejoin(p) \/ LoseSocket(p) \/ Reconnect(p)
    PROVE  EndInv'
<1>1. TwoSided /\ InOrder(wire, over) /\ over \in BOOLEAN
  BY DEF EndInv, TwoSided, InOrder
<1>2. ASSUME NEW p \in Sides, Reconnect(p) PROVE EndInv'
  BY <1>1, <1>2, WindowsStay DEF Reconnect, window
<1>3. /\ \A kind : Message(kind, None).kind = kind
      /\ "teacher" \in Sides /\ "student" \in Sides
  BY DEF Message, Sides
<1>4. ASSUME NEW p \in Sides, Rejoin(p) PROVE EndInv'
  <2>1. UNCHANGED <<session, over, peer, chain, offering, media>>
    BY <1>4 DEF Rejoin, window
  <2>2. CASE over /\ wire' = [wire EXCEPT ![p] = Append(@, Message("ended", None))]
    <3>1. InOrder(wire', over)
      BY <1>1, <1>3, <2>2, ToldLemma
    <3> QED BY <1>1, <2>1, <3>1, WindowsStay
  <2>3. CASE wire' = [s \in Sides |-> Append(wire[s], Message("recovered", None))]
    <3>1. \A s \in Sides : Orderly(Append(wire[s], Message("recovered", None)), over, ~session[s])
      <4> SUFFICES ASSUME NEW s \in Sides
                   PROVE  Orderly(Append(wire[s], Message("recovered", None)), over, ~session[s])
        OBVIOUS
      <4>1. Orderly(wire[s], over, ~session[s]) /\ (~session[s]) \in BOOLEAN
        BY <1>1 DEF InOrder
      <4>2. Message("recovered", None).kind \notin {"offer", "ended"}
        BY <1>3
      <4> QED BY <1>1, <4>1, <4>2, AppendLemma
    <3>2. InOrder(wire', over)
      BY <2>3, <3>1 DEF InOrder
    <3> QED BY <1>1, <2>1, <3>2, WindowsStay
  <2>4. CASE wire' = wire
    BY <1>1, <2>1, <2>4, WindowsStay
  <2> QED BY <1>4, <2>2, <2>3, <2>4 DEF Rejoin
<1>5. ASSUME NEW p \in Sides, LoseSocket(p) PROVE EndInv'
  <2>1. UNCHANGED <<session, over, peer, chain, offering, media>> /\ Other(p) \in Sides
    BY <1>5 DEF LoseSocket, window, Other, Sides
  <2>2. PICK n \in 0 .. Len(wire[Other(p)]) :
          LET kept == [wire EXCEPT ![p] = <<>>, ![Other(p)] = SubSeq(@, 1, n)]
          IN  wire' = IF over THEN kept ELSE Notify(kept, Other(p), "reconnecting")
    BY <1>5 DEF LoseSocket
  <2> DEFINE kept == [wire EXCEPT ![p] = <<>>, ![Other(p)] = SubSeq(@, 1, n)]
  <2>3. wire' = IF over THEN kept ELSE Notify(kept, Other(p), "reconnecting")
    BY <2>2
  <2>4. InOrder(kept, over)
    <3>1. \A q \in Sides : Orderly(wire[q], over, ~session[q]) /\ (~session[q]) \in BOOLEAN
      BY <1>1 DEF InOrder
    <3>2. Orderly(SubSeq(wire[Other(p)], 1, n), over, ~session[Other(p)])
      BY <1>1, <2>1, <3>1, PrefixLemma
    <3>3. Orderly(<<>>, over, ~session[p])
      BY <1>1, <3>1, EmptyLemma DEF Orderly
    <3>4. Other(p) # p
      BY DEF Other, Sides
    <3>5. /\ DOMAIN kept = Sides /\ kept[p] = <<>>
          /\ kept[Other(p)] = SubSeq(wire[Other(p)], 1, n)
      BY <1>1, <2>1, <3>4 DEF InOrder
    <3>6. \A q \in Sides : q = p \/ q = Other(p)
      BY DEF Other, Sides
    <3> HIDE DEF kept
    <3> QED BY <3>2, <3>3, <3>5, <3>6 DEF InOrder
  <2> HIDE DEF kept
  <2>5. InOrder(Notify(kept, Other(p), "reconnecting"), over)
    BY <1>1, <2>1, <2>4, NotifyLemma
  <2>6. InOrder(wire', over)
    BY <2>3, <2>4, <2>5
  <2> QED BY <1>1, <2>1, <2>6, WindowsStay
<1>6. CASE End
  <2>1. /\ over' = TRUE /\ UNCHANGED <<session, peer, chain, offering, media>>
        /\ wire' = Notify(Notify(wire, "teacher", "ended"), "student", "ended")
    BY <1>6 DEF End, window
  <2>2. InOrder(wire, TRUE)
    BY <1>1, EndedLemma DEF InOrder
  <2>3. InOrder(Notify(wire, "teacher", "ended"), TRUE)
    BY <1>3, <2>2, NotifyLemma
  <2>4. InOrder(wire', TRUE)
    <3> DEFINE w == Notify(wire, "teacher", "ended")
    <3>1. InOrder(w, TRUE)
      BY <2>3
    <3> HIDE DEF w
    <3>2. InOrder(Notify(w, "student", "ended"), TRUE)
      BY <1>3, <3>1, NotifyLemma
    <3> QED BY <2>1, <3>2 DEF w
  <2> QED BY <2>1, <2>4, WindowsStay
<1> QED BY <1>2, <1>4, <1>5, <1>6

\* Every step keeps to the end.
LEMMA EndNext ==
    ASSUME EndInv, [Next]_vars
    PROVE  EndInv'
<1>1. TwoSided /\ InOrder(wire, over) /\ over \in BOOLEAN
  BY DEF EndInv, TwoSided, InOrder
<1>2. CASE Connect \/ GiveUp \/ Return \/ NetworkFails \/ UNCHANGED vars
  <2>1. UNCHANGED <<session, over, wire, peer, chain, offering, media>>
    BY <1>2 DEF Connect, GiveUp, Return, NetworkFails, vars, window
  <2> QED BY <1>1, <2>1, WindowsStay
<1>3. CASE Program
  BY <1>2, <1>3, WindowKeepsEnd, TeacherKeepsEnd, ServerKeepsEnd DEF Program
<1> QED BY <1>2, <1>3, WindowKeepsEnd, ServerKeepsEnd DEF Next

\* A window that has been told of the end of the attendance holds no connection
\* for it again (closeWebRtcSession, resolveSignalingRoute, handleWebRtcOffer).
THEOREM EndedStays == Spec => []EndedStaysClosed
<1>1. Init => EndInv
  BY EmptyLemma DEF Init, EndInv, TwoSided
<1>2. EndInv /\ [Next]_vars => EndInv'
  BY EndNext
<1>3. EndInv => EndedStaysClosed
  BY DEF EndInv, Dismissed, EndedStaysClosed
<1> QED BY <1>1, <1>2, <1>3, PTL DEF Spec

-----------------------------------------------------------------------------
(* The recovery of the media *)

\* Setting the timer leaves a recovery that looks after the connection.
LEMMA ScheduledLemma ==
    ASSUME NEW r \in [timer : Timers, inFlight : BOOLEAN], NEW when \in {"now", "later"}
    PROVE  /\ Scheduled(r, when) \in [timer : Timers, inFlight : BOOLEAN]
           /\ Scheduled(r, when).inFlight = r.inFlight
           /\ Scheduled(r, when).timer # "off" \/ r.inFlight
BY DEF Scheduled, Timers

\* The recovery, what the professor offers and the state of the media stay, or
\* the media is no longer lost.
LEMMA RecoveryStays ==
    ASSUME RecoveryInv, recovery' = recovery, DOMAIN offering' = Sides,
           offering'["teacher"] = offering["teacher"], ice' # "lost" \/ ice' = ice
    PROVE  RecoveryInv'
BY DEF RecoveryInv

\* A closed connection needs no recovery.
LEMMA CloseRecovers ==
    ASSUME RecoveryInv, NEW p \in Sides, Close(p)
    PROVE  RecoveryInv'
<1>1. CASE p = "teacher"
  <2>1. recovery' = NoRecovery /\ ice' = "new" /\ DOMAIN offering' = Sides
    BY <1>1 DEF Close, RecoveryInv
  <2> QED BY <2>1 DEF RecoveryInv, NoRecovery, Timers
<1>2. CASE p # "teacher"
  <2>1. UNCHANGED <<recovery, ice>> /\ DOMAIN offering' = Sides
        /\ offering'["teacher"] = offering["teacher"]
    BY <1>2 DEF Close, RecoveryInv
  <2> QED BY <2>1, RecoveryStays
<1> QED BY <1>1, <1>2

\* A renegotiation that ends leaves a lost connection to the timer.
LEMMA FinishRecovers ==
    ASSUME RecoveryInv, NEW p \in Sides, Finish(p), ice' = ice
    PROVE  RecoveryInv'
<1>1. DOMAIN offering' = Sides /\ \A q \in Sides : q # p => offering'[q] = offering[q]
  BY DEF Finish, RecoveryInv
<1>2. "teacher" \in Sides
  BY DEF Sides
<1>3. CASE p = "teacher" /\ recovery.inFlight
  <2> DEFINE r == [recovery EXCEPT !.inFlight = FALSE]
  <2>1. r \in [timer : Timers, inFlight : BOOLEAN] /\ ~r.inFlight
    BY DEF RecoveryInv
  <2>2. recovery' = IF ice = "lost" THEN Scheduled(r, "later") ELSE r
    BY <1>3 DEF Finish
  <2> HIDE DEF r
  <2>3. /\ Scheduled(r, "later") \in [timer : Timers, inFlight : BOOLEAN]
        /\ ~Scheduled(r, "later").inFlight /\ Scheduled(r, "later").timer # "off"
    BY <2>1, ScheduledLemma
  <2> QED BY <1>1, <2>1, <2>2, <2>3 DEF RecoveryInv
<1>4. CASE p = "teacher" /\ ~recovery.inFlight
  <2>1. recovery' = recovery
    BY <1>4 DEF Finish
  <2> QED BY <1>1, <1>4, <2>1 DEF RecoveryInv
<1>5. CASE p # "teacher"
  <2>1. recovery' = recovery
    BY <1>5 DEF Finish
  <2> QED BY <1>1, <1>2, <1>5, <2>1, RecoveryStays
<1> QED BY <1>3, <1>4, <1>5

\* A renegotiation that is queued is one under way, and none is taken back.
LEMMA QueueOffers ==
    ASSUME DOMAIN offering = Sides, NEW p \in Sides, NEW as \in Reasons, Queue(p, as)
    PROVE  /\ DOMAIN offering' = Sides
           /\ \A q \in Sides : offering[q] # None => offering'[q] # None
           /\ Stable(p) => offering'[p] # None
<1>1. as # None
  BY NegotiationAssumption
<1> QED BY <1>1 DEF Queue

\* A connection executes an operation.
LEMMA ExecuteRecovers ==
    ASSUME RecoveryInv, NEW p \in Sides, Execute(p)
    PROVE  RecoveryInv'
<1>1. ASSUME UNCHANGED <<offering, recovery>>, ice' \in {ice, "checking"}
      PROVE  RecoveryInv'
  BY <1>1, RecoveryStays DEF RecoveryInv
<1>2. ASSUME NEW as, OfferFails(p, as) PROVE RecoveryInv'
  BY <1>2, CloseRecovers, FinishRecovers DEF OfferFails
<1>3. ASSUME NEW peers, AnsweringFails(p, peers) PROVE RecoveryInv'
  BY <1>1, <1>3, CloseRecovers DEF AnsweringFails
<1>4. CASE CreateOffer(p)
  BY <1>1, <1>2, <1>4 DEF CreateOffer
<1>5. CASE SetLocalOffer(p)
  BY <1>1, <1>2, <1>5, CloseRecovers, FinishRecovers DEF SetLocalOffer
<1>6. CASE SetRemoteOffer(p)
  BY <1>1, <1>6 DEF SetRemoteOffer
<1>7. CASE CreateAnswer(p)
  BY <1>1, <1>3, <1>7 DEF CreateAnswer
<1>8. CASE SetLocalAnswer(p)
  BY <1>1, <1>3, <1>8 DEF SetLocalAnswer
<1>9. CASE AddCandidate(p)
  BY <1>1, <1>9 DEF AddCandidate
<1>10. CASE SetRemoteAnswer(p)
  BY <1>1, <1>10 DEF SetRemoteAnswer
<1> QED BY <1>4, <1>5, <1>6, <1>7, <1>8, <1>9, <1>10 DEF Execute

\* Every step keeps the recovery going.
LEMMA RecoveryNext ==
    ASSUME RecoveryInv, [Next]_vars
    PROVE  RecoveryInv'
<1>1. "teacher" \in Sides /\ DOMAIN offering = Sides
  BY DEF Sides, RecoveryInv
<1>2. ASSUME UNCHANGED <<offering, recovery, ice>> PROVE RecoveryInv'
  BY <1>2, RecoveryStays DEF RecoveryInv
<1>3. ASSUME NEW p \in Sides, NEW as \in Reasons, Queue(p, as), UNCHANGED <<recovery, ice>>
      PROVE  RecoveryInv'
  BY <1>1, <1>3, QueueOffers DEF RecoveryInv
<1>4. ASSUME NEW p \in Sides, MediaReady(p) PROVE RecoveryInv'
  BY <1>2, <1>3, <1>4 DEF MediaReady, Reasons
<1>5. ASSUME NEW p \in Sides, Hear(p) PROVE RecoveryInv'
  <2>1. CASE HearEnded(p)
    BY <2>1, CloseRecovers DEF HearEnded
  <2> QED BY <1>2, <1>5, <2>1
        DEF Hear, HearOffer, HearAnswer, HearCandidate, HearNotice, window
<1>6. ASSUME NEW p \in Sides, Change(p) PROVE RecoveryInv'
  BY <1>3, <1>6 DEF Change, Reasons
<1>7. CASE UseNotice
  BY <1>1, <1>3, <1>7 DEF UseNotice, Reasons
<1>8. CASE RecoveryTimer
  <2>1. CASE /\ Stable("teacher") /\ Queue("teacher", "restart")
             /\ recovery' = [timer |-> "off", inFlight |-> TRUE]
    <3>1. DOMAIN offering' = Sides /\ offering'["teacher"] # None
      BY <1>1, <2>1, QueueOffers DEF Reasons
    <3> QED BY <2>1, <3>1 DEF RecoveryInv, Timers
  <2>2. CASE /\ UNCHANGED offering
             /\ recovery' = [recovery EXCEPT !.timer = "later"]
    BY <1>8, <2>2 DEF RecoveryTimer, RecoveryInv, Timers
  <2> QED BY <1>8, <2>1, <2>2 DEF RecoveryTimer
<1>9. CASE Connect \/ Return
  <2>1. ice' = "connected" /\ recovery' = NoRecovery /\ offering' = offering
    BY <1>9 DEF Connect, Return, Reached, window
  <2> QED BY <2>1 DEF RecoveryInv, NoRecovery, Timers
<1>10. CASE GiveUp \/ NetworkFails
  <2>1. Lost /\ offering' = offering
    BY <1>10 DEF GiveUp, NetworkFails, window
  <2>2. PICK when \in {"now", "later"} : recovery' = Scheduled(recovery, when)
    BY <2>1 DEF Lost
  <2>3. recovery \in [timer : Timers, inFlight : BOOLEAN]
    BY DEF RecoveryInv
  <2> QED BY <2>1, <2>2, <2>3, ScheduledLemma DEF RecoveryInv
<1>11. ASSUME NEW p \in Sides, Gather(p) \/ Rejoin(p) \/ LoseSocket(p) \/ Reconnect(p)
       PROVE  RecoveryInv'
  BY <1>2, <1>11 DEF Gather, Rejoin, LoseSocket, Reconnect, window
<1>12. CASE StartTeacherWebRtc \/ End \/ UNCHANGED vars
  BY <1>2, <1>12 DEF StartTeacherWebRtc, End, vars, window
<1> QED BY <1>4, <1>5, <1>6, <1>7, <1>8, <1>9, <1>10, <1>11, <1>12, ExecuteRecovers DEF Next, Program

\* A connection of the professor that is lost is looked after by a timer or by
\* a renegotiation under way (scheduleWebRtcRecovery, queueRenegotiation).
THEOREM LostIsPursued == Spec => []FailureIsPursued
<1>1. Init => RecoveryInv
  BY DEF Init, RecoveryInv, NoRecovery, Timers
<1>2. RecoveryInv /\ [Next]_vars => RecoveryInv'
  BY RecoveryNext
<1>3. RecoveryInv => FailureIsPursued
  BY DEF RecoveryInv, FailureIsPursued
<1> QED BY <1>1, <1>2, <1>3, PTL DEF Spec

-----------------------------------------------------------------------------
(* Counting in a queue.  The names of what is counted stand in one field of *)
(* its elements.                                                            *)

Holds(queue, field, names) == \E i \in DOMAIN queue : queue[i][field] \in names

Twice(queue, field, names) ==
    \E i, j \in DOMAIN queue : i < j /\ queue[i][field] \in names /\ queue[j][field] \in names

Thrice(queue, field, names) ==
    \E i, j, k \in DOMAIN queue :
        /\ i < j /\ j < k
        /\ queue[i][field] \in names /\ queue[j][field] \in names /\ queue[k][field] \in names

\* The new queue has one element more than the old one, and `one` says whether it
\* is of those that are counted.
OneMoreOf(old, new, field, names, one) ==
    /\ Holds(new, field, names) <=> Holds(old, field, names) \/ one
    /\ Twice(new, field, names) <=>
          Twice(old, field, names) \/ (Holds(old, field, names) /\ one)
    /\ Thrice(new, field, names) <=>
          Thrice(old, field, names) \/ (Twice(old, field, names) /\ one)

\* Three are two, two are one, and an empty queue has none.
LEMMA Counted ==
    ASSUME NEW queue, NEW field, NEW names
    PROVE  /\ Thrice(queue, field, names) => Twice(queue, field, names)
           /\ Twice(queue, field, names) => Holds(queue, field, names)
           /\ queue = <<>> => ~Holds(queue, field, names)
BY DEF Holds, Twice, Thrice

\* What the elements of a longer queue are.
LEMMA LongerQueue ==
    ASSUME NEW queue, IsSeq(queue), NEW message
    PROVE  LET longer == Append(queue, message)
               n      == Len(queue)
           IN  /\ IsSeq(longer) /\ n \in Nat
               /\ DOMAIN queue = 1 .. n /\ DOMAIN longer = 1 .. n + 1
               /\ \A i \in 1 .. n : longer[i] = queue[i]
               /\ longer[n + 1] = message
<1> DEFINE longer == Append(queue, message)
           elements == {queue[i] : i \in DOMAIN queue} \cup {message}
<1>1. queue \in Seq({queue[i] : i \in DOMAIN queue})
  BY DEF IsSeq
<1>2. queue \in Seq(elements) /\ message \in elements
  BY <1>1, SeqMonotonic
<1> HIDE DEF elements
<1>3. /\ longer \in Seq(elements) /\ Len(longer) = Len(queue) + 1
      /\ \A i \in 1 .. Len(queue) : longer[i] = queue[i]
      /\ longer[Len(queue) + 1] = message
  BY <1>2, AppendProperties
<1>4. DOMAIN queue = 1 .. Len(queue) /\ Len(queue) \in Nat /\ DOMAIN longer = 1 .. Len(queue) + 1
  BY <1>2, <1>3, LenProperties
<1> HIDE DEF longer
<1>5. IsSeq(longer)
  BY <1>3, IsSeqLemma
<1> QED BY <1>3, <1>4, <1>5 DEF longer

\* What the elements of a queue are whose first has been read.
LEMMA ShorterQueue ==
    ASSUME NEW queue, IsSeq(queue), queue # <<>>
    PROVE  LET rest == Tail(queue)
               n    == Len(queue)
           IN  /\ IsSeq(rest) /\ n \in Nat /\ n >= 1
               /\ DOMAIN queue = 1 .. n /\ DOMAIN rest = 1 .. n - 1
               /\ \A i \in 1 .. n - 1 : rest[i] = queue[i + 1]
               /\ Head(queue) = queue[1]
<1> DEFINE elements == {queue[i] : i \in DOMAIN queue}
           rest == Tail(queue)
<1>1. queue \in Seq(elements)
  BY DEF IsSeq
<1> HIDE DEF elements
<1>2. /\ rest \in Seq(elements) /\ Len(rest) = Len(queue) - 1
      /\ \A i \in 1 .. Len(rest) : rest[i] = queue[i + 1]
      /\ Head(queue) = queue[1]
  BY <1>1, HeadTailProperties
<1>3. /\ DOMAIN queue = 1 .. Len(queue) /\ Len(queue) \in Nat /\ Len(queue) # 0
      /\ DOMAIN rest = 1 .. Len(queue) - 1
  BY <1>1, <1>2, LenProperties, EmptySeq
<1> HIDE DEF rest
<1>4. IsSeq(rest)
  BY <1>2, IsSeqLemma
<1> QED BY <1>2, <1>3, <1>4 DEF rest

\* A message at the end is one more of its kind.
LEMMA OneMore ==
    ASSUME NEW queue, IsSeq(queue), NEW message, NEW field, NEW names
    PROVE  OneMoreOf(queue, Append(queue, message), field, names, message[field] \in names)
<1> DEFINE longer == Append(queue, message)
           n == Len(queue)
<1>1. /\ n \in Nat /\ DOMAIN queue = 1 .. n /\ DOMAIN longer = 1 .. n + 1
      /\ \A i \in 1 .. n : longer[i] = queue[i]
      /\ longer[n + 1] = message
  BY LongerQueue
<1> HIDE DEF longer, n
<1>2. /\ \A i \in DOMAIN queue : i \in DOMAIN longer /\ i < n + 1 /\ longer[i] = queue[i]
      /\ \A i \in DOMAIN longer : i \in DOMAIN queue \/ i = n + 1
      /\ n + 1 \in DOMAIN longer
      /\ \A i, j \in DOMAIN longer : i < j => i \in DOMAIN queue
  BY <1>1
<1>3. Holds(longer, field, names) <=> Holds(queue, field, names) \/ message[field] \in names
  BY <1>1, <1>2 DEF Holds
<1>4. Twice(longer, field, names) <=>
         Twice(queue, field, names) \/ (Holds(queue, field, names) /\ message[field] \in names)
  BY <1>1, <1>2 DEF Holds, Twice
<1>5. Thrice(longer, field, names) <=>
         Thrice(queue, field, names) \/ (Twice(queue, field, names) /\ message[field] \in names)
  BY <1>1, <1>2 DEF Twice, Thrice
<1> QED BY <1>3, <1>4, <1>5 DEF longer, OneMoreOf

\* A message that has been read is one less.
LEMMA OneLess ==
    ASSUME NEW queue, IsSeq(queue), queue # <<>>, NEW field, NEW names
    PROVE  OneMoreOf(Tail(queue), queue, field, names, Head(queue)[field] \in names)
<1> DEFINE rest == Tail(queue)
           one == Head(queue)[field] \in names
           n == Len(queue)
<1>1. /\ n \in Nat /\ n >= 1 /\ DOMAIN queue = 1 .. n /\ DOMAIN rest = 1 .. n - 1
      /\ \A i \in 1 .. n - 1 : rest[i] = queue[i + 1]
      /\ one <=> queue[1][field] \in names
  BY ShorterQueue
<1> HIDE DEF rest, n, one
<1>2. /\ \A i \in DOMAIN rest : i + 1 \in DOMAIN queue /\ 1 < i + 1 /\ rest[i] = queue[i + 1]
      /\ \A i \in DOMAIN queue : i = 1 \/ (i - 1 \in DOMAIN rest /\ rest[i - 1] = queue[i])
      /\ 1 \in DOMAIN queue
      /\ \A i, j \in DOMAIN queue : i < j => j - 1 \in DOMAIN rest /\ j # 1
      /\ \A i, j \in DOMAIN queue : i < j => i - 1 < j - 1
      /\ \A i, j \in DOMAIN rest : i < j => i + 1 < j + 1
  BY <1>1
<1>3. Holds(queue, field, names) <=> Holds(rest, field, names) \/ one
  BY <1>1, <1>2 DEF Holds
<1>4. Twice(queue, field, names) <=>
         Twice(rest, field, names) \/ (Holds(rest, field, names) /\ one)
  <2>1. ASSUME Twice(queue, field, names)
        PROVE  Twice(rest, field, names) \/ (Holds(rest, field, names) /\ one)
    <3>1. PICK i \in DOMAIN queue, j \in DOMAIN queue :
             i < j /\ queue[i][field] \in names /\ queue[j][field] \in names
      BY <2>1 DEF Twice
    <3>2. /\ j - 1 \in DOMAIN rest /\ rest[j - 1][field] \in names
          /\ i = 1 \/ (i - 1 \in DOMAIN rest /\ rest[i - 1][field] \in names /\ i - 1 < j - 1)
      BY <1>2, <3>1
    <3> QED BY <1>1, <3>1, <3>2 DEF Holds, Twice
  <2>2. ASSUME Twice(rest, field, names) PROVE Twice(queue, field, names)
    <3>1. PICK i \in DOMAIN rest, j \in DOMAIN rest :
             i < j /\ rest[i][field] \in names /\ rest[j][field] \in names
      BY <2>2 DEF Twice
    <3> QED BY <1>2, <3>1 DEF Twice
  <2>3. ASSUME Holds(rest, field, names), one PROVE Twice(queue, field, names)
    BY <1>1, <1>2, <2>3 DEF Holds, Twice
  <2> QED BY <2>1, <2>2, <2>3
<1>5. Thrice(queue, field, names) <=>
         Thrice(rest, field, names) \/ (Twice(rest, field, names) /\ one)
  <2>1. ASSUME Thrice(queue, field, names)
        PROVE  Thrice(rest, field, names) \/ (Twice(rest, field, names) /\ one)
    <3>1. PICK i \in DOMAIN queue, j \in DOMAIN queue, k \in DOMAIN queue :
             /\ i < j /\ j < k
             /\ queue[i][field] \in names /\ queue[j][field] \in names /\ queue[k][field] \in names
      BY <2>1 DEF Thrice
    <3>2. /\ j - 1 \in DOMAIN rest /\ rest[j - 1][field] \in names
          /\ k - 1 \in DOMAIN rest /\ rest[k - 1][field] \in names /\ j - 1 < k - 1
          /\ i = 1 \/ (i - 1 \in DOMAIN rest /\ rest[i - 1][field] \in names /\ i - 1 < j - 1)
      BY <1>2, <3>1
    <3> QED BY <1>1, <3>1, <3>2 DEF Twice, Thrice
  <2>2. ASSUME Thrice(rest, field, names) PROVE Thrice(queue, field, names)
    <3>1. PICK i \in DOMAIN rest, j \in DOMAIN rest, k \in DOMAIN rest :
             /\ i < j /\ j < k
             /\ rest[i][field] \in names /\ rest[j][field] \in names /\ rest[k][field] \in names
      BY <2>2 DEF Thrice
    <3>2. /\ i + 1 \in DOMAIN queue /\ j + 1 \in DOMAIN queue /\ k + 1 \in DOMAIN queue
          /\ i + 1 < j + 1 /\ j + 1 < k + 1
          /\ queue[i + 1][field] \in names /\ queue[j + 1][field] \in names
          /\ queue[k + 1][field] \in names
      BY <1>2, <3>1
    <3> QED BY <3>2 DEF Thrice
  <2>3. ASSUME Twice(rest, field, names), one PROVE Thrice(queue, field, names)
    <3>1. PICK i \in DOMAIN rest, j \in DOMAIN rest :
             i < j /\ rest[i][field] \in names /\ rest[j][field] \in names
      BY <2>3 DEF Twice
    <3>2. /\ 1 \in DOMAIN queue /\ i + 1 \in DOMAIN queue /\ j + 1 \in DOMAIN queue
          /\ 1 < i + 1 /\ i + 1 < j + 1
          /\ queue[1][field] \in names /\ queue[i + 1][field] \in names
          /\ queue[j + 1][field] \in names
      BY <1>1, <1>2, <2>3, <3>1
    <3> QED BY <3>2 DEF Thrice
  <2> QED BY <2>1, <2>2, <2>3
<1> QED BY <1>3, <1>4, <1>5 DEF rest, one, OneMoreOf
-----------------------------------------------------------------------------
(* Offers and answers on their way.                                         *)

Making    == {"createOffer", "setLocalOffer"}
Answering == {"setRemoteOffer", "createAnswer", "setLocalAnswer"}
Replies   == {"createAnswer", "setLocalAnswer"}
Accepting == {"setRemoteAnswer"}

\* Why the operations of a connection make offers.
Purposes(queue) == {queue[i].as : i \in {j \in DOMAIN queue : queue[j].op \in Making}}

\* p is making an offer.
Offers(p)       == Holds(chain[p], "op", Making)
OffersTwice(p)  == Twice(chain[p], "op", Making)
OffersThrice(p) == Thrice(chain[p], "op", Making)

\* An offer is on its way to p, waits there for the camera, is being handled;
\* and has been applied.
Coming(p)        == Holds(wire[p], "kind", {"offer"})
ComingTwice(p)   == Twice(wire[p], "kind", {"offer"})
Parked(p)        == p = "student" /\ media[p] # None
Handling(p)      == Holds(chain[p], "op", Answering)
HandlingTwice(p) == Twice(chain[p], "op", Answering)
Replying(p)      == Holds(chain[p], "op", Replies)

\* An answer is on its way back to p, and is being applied.
Back(p)        == Holds(wire[p], "kind", {"answer"})
BackTwice(p)   == Twice(wire[p], "kind", {"answer"})
Taking(p)      == Holds(chain[p], "op", Accepting)
TakingTwice(p) == Twice(chain[p], "op", Accepting)

\* A queue has got a message: what of its kinds it has now.
LongerWire(old, new, kind) ==
    /\ OneMoreOf(old, new, "kind", {"offer"}, kind \in {"offer"})
    /\ OneMoreOf(old, new, "kind", {"answer"}, kind \in {"answer"})

\* A connection has got an operation.
LongerChain(old, new, op, as) ==
    /\ OneMoreOf(old, new, "op", Making, op \in Making)
    /\ OneMoreOf(old, new, "op", Answering, op \in Answering)
    /\ OneMoreOf(old, new, "op", Replies, op \in Replies)
    /\ OneMoreOf(old, new, "op", Accepting, op \in Accepting)
    /\ Purposes(new) = Purposes(old) \cup (IF op \in Making THEN {as} ELSE {})

\* What is received.
LEMMA WireLonger ==
    ASSUME NEW queue, IsSeq(queue), NEW message
    PROVE  LongerWire(queue, Append(queue, message), message.kind)
BY OneMore DEF LongerWire

\* And what is read.
LEMMA WireShorter ==
    ASSUME NEW queue, IsSeq(queue), queue # <<>>
    PROVE  LongerWire(Tail(queue), queue, Head(queue).kind)
BY OneLess DEF LongerWire

\* What is called.
LEMMA ChainLonger ==
    ASSUME NEW queue, IsSeq(queue), NEW message
    PROVE  LongerChain(queue, Append(queue, message), message.op, message.as)
<1> DEFINE longer == Append(queue, message)
           n == Len(queue)
<1>1. /\ OneMoreOf(queue, longer, "op", Making, message.op \in Making)
      /\ OneMoreOf(queue, longer, "op", Answering, message.op \in Answering)
      /\ OneMoreOf(queue, longer, "op", Replies, message.op \in Replies)
      /\ OneMoreOf(queue, longer, "op", Accepting, message.op \in Accepting)
  BY OneMore
<1>2. /\ n \in Nat /\ DOMAIN queue = 1 .. n /\ DOMAIN longer = 1 .. n + 1
      /\ \A i \in 1 .. n : longer[i] = queue[i]
      /\ longer[n + 1] = message
  BY LongerQueue
<1> HIDE DEF longer, n
<1>3. /\ \A i \in DOMAIN queue : i \in DOMAIN longer /\ longer[i] = queue[i]
      /\ \A i \in DOMAIN longer : (i \in DOMAIN queue /\ longer[i] = queue[i]) \/ longer[i] = message
      /\ n + 1 \in DOMAIN longer /\ longer[n + 1] = message
  BY <1>2
<1>4. Purposes(longer) = Purposes(queue) \cup (IF message.op \in Making THEN {message.as} ELSE {})
  BY <1>3 DEF Purposes
<1> QED BY <1>1, <1>4 DEF longer, LongerChain

\* What has been executed.
LEMMA ChainShorter ==
    ASSUME NEW queue, IsSeq(queue), queue # <<>>
    PROVE  LongerChain(Tail(queue), queue, Head(queue).op, Head(queue).as)
<1> DEFINE rest == Tail(queue)
           head == Head(queue)
           n == Len(queue)
<1>1. /\ OneMoreOf(rest, queue, "op", Making, head.op \in Making)
      /\ OneMoreOf(rest, queue, "op", Answering, head.op \in Answering)
      /\ OneMoreOf(rest, queue, "op", Replies, head.op \in Replies)
      /\ OneMoreOf(rest, queue, "op", Accepting, head.op \in Accepting)
  BY OneLess
<1>2. /\ n \in Nat /\ n >= 1 /\ DOMAIN queue = 1 .. n /\ DOMAIN rest = 1 .. n - 1
      /\ \A i \in 1 .. n - 1 : rest[i] = queue[i + 1]
      /\ head = queue[1]
  BY ShorterQueue
<1> HIDE DEF rest, n, head
<1>3. /\ \A i \in DOMAIN rest : i + 1 \in DOMAIN queue /\ rest[i] = queue[i + 1]
      /\ \A i \in DOMAIN queue : queue[i] = head \/ (i - 1 \in DOMAIN rest /\ rest[i - 1] = queue[i])
      /\ 1 \in DOMAIN queue /\ queue[1] = head
  BY <1>2
<1>4. Purposes(queue) = Purposes(rest) \cup (IF head.op \in Making THEN {head.as} ELSE {})
  BY <1>3 DEF Purposes
<1> QED BY <1>1, <1>4 DEF rest, head, LongerChain

\* A connection that makes offers has reasons to, and a queue with nothing in it
\* has nothing of this.
LEMMA OffersHavePurposes ==
    ASSUME NEW queue
    PROVE  /\ Holds(queue, "op", Making) <=> Purposes(queue) # {}
           /\ Holds(queue, "op", Replies) => Holds(queue, "op", Answering)
           /\ queue # <<>> /\ IsSeq(queue) /\ Head(queue).op \in Making =>
                 Head(queue).as \in Purposes(queue)
<1>1. Holds(queue, "op", Making) <=> Purposes(queue) # {}
  BY DEF Holds, Purposes
<1>2. Holds(queue, "op", Replies) => Holds(queue, "op", Answering)
  BY DEF Holds, Replies, Answering
<1>3. ASSUME queue # <<>>, IsSeq(queue) PROVE 1 \in DOMAIN queue /\ Head(queue) = queue[1]
  BY <1>3, ShorterQueue
<1> QED BY <1>1, <1>2, <1>3 DEF Purposes
-----------------------------------------------------------------------------
(* No offer waits for ever.                                                 *)

\* JavaScript's undefined is no object: neither a connection nor what waits for a
\* camera, which have these fields.
UndefinedIsNoObject == {"signaling", "stage"} \cap DOMAIN None = {}

\* Where an offer to p is between being sent and being answered.
Pipe(p) == Coming(p) \/ Parked(p) \/ Handling(p)

\* One at most.
OneAt(p) ==
    /\ ~(Coming(p) /\ Parked(p)) /\ ~(Coming(p) /\ Handling(p)) /\ ~(Parked(p) /\ Handling(p))
    /\ ~ComingTwice(p) /\ ~HandlingTwice(p)

\* Where an answer is between being sent and being applied by p; and one at most.
Returning(p) == Back(p) \/ Taking(p)
OneBack(p)   == ~(Back(p) /\ Taking(p)) /\ ~BackTwice(p) /\ ~TakingTwice(p)

Signals(p, state) == peer[p] # None /\ peer[p].signaling = state

\* The changes and the early devices that are still to come.
Extra == left.change + left.early

\* The professor may offer in the middle of a negotiation.
More == Extra > 0 \/ recovery.timer = "now"

\* The queue of messages to p, and p's window.
Readable(p) == IsSeq(wire[p]) /\ \A i \in DOMAIN wire[p] : wire[p][i].kind \in Relayed

Window(p) ==
    /\ IsSeq(chain[p])
    /\ peer[p] = None => chain[p] = <<>> /\ media[p] = None
    /\ peer[p] # None => /\ "signaling" \in DOMAIN peer[p]
                         /\ peer[p].signaling \in {"stable", "local", "remote"}
    /\ media[p] # None => "stage" \in DOMAIN media[p]

\* No socket is lost: both applications are connected and have the attendance.
Steady ==
    /\ left \in [Bounded -> Nat] /\ left.drop = 0 /\ Extra <= 1
    /\ notice = "none"
    /\ \A p \in Sides : session[p] /\ socket[p] = "up" /\ Readable(p) /\ Window(p)

\* Nobody has offered yet.
Blank ==
    /\ peer["student"] = None
    /\ ~Pipe("teacher") /\ ~Pipe("student") /\ ~Returning("teacher") /\ ~Returning("student")
    /\ ~Signals("teacher", "local") /\ ~Signals("teacher", "remote")
    /\ recovery = NoRecovery /\ ice = "new"

\* What p offers is offered once, waits for its answer, and what p has applied is
\* answered.
Settling(p) ==
    /\ OneAt(p)
    /\ Signals(p, "remote") <=> Replying(p)
    /\ Signals(p, "local") => Pipe(Other(p)) \/ Returning(p)
    /\ ~OffersTwice(p)
    /\ Offers(p) => ~Pipe(Other(p))

\* Each side has one offer under way at most, and the professor, who may offer in
\* the middle of a negotiation, has none then or waits for the answer.
Single ==
    /\ Settling("teacher") /\ Settling("student")
    /\ media["teacher"] # None =>
          ~Pipe("student") /\ ~Offers("teacher") /\ media["teacher"].stage = "starting"
    /\ Extra > 0 => ~Offers("student") /\ ~Pipe("teacher")
    /\ More =>
          /\ OneBack("teacher")
          /\ Returning("teacher") =>
                ~Offers("teacher") /\ media["teacher"] = None /\ ~Pipe("student")
          /\ Pipe("student") \/ Returning("teacher") => Signals("teacher", "local")
    /\ /\ recovery.timer = "now"
       /\ Offers("teacher") \/ media["teacher"] # None \/ Pipe("student") \/ Returning("teacher")
       => Extra = 0 /\ ~Offers("student") /\ ~Pipe("teacher")
    /\ peer["teacher"] = None \/ media["teacher"] # None
          \/ "first" \in Purposes(chain["teacher"]) => Blank
    /\ Purposes(chain["teacher"]) \subseteq {"first", "change", "restart"}
    /\ offering["teacher"] = None <=> Purposes(chain["teacher"]) \subseteq {"first"}
    /\ Purposes(chain["student"]) \subseteq {"sync", "change"}
    /\ "sync" \in Purposes(chain["student"]) =>
          media["student"] # None /\ media["student"].stage = "syncing"

\* The professor's first offer has another one before it or behind it, for a
\* device that was on early or changes at once, and nothing else is to come.
Twin ==
    /\ Extra = 0 /\ recovery = NoRecovery
    /\ ~Offers("student") /\ ~Pipe("teacher")
    /\ peer["teacher"] # None /\ ~Signals("teacher", "remote") /\ ~Signals("student", "local")
    /\ Signals("teacher", "local") => Pipe("student") \/ Returning("teacher")
    /\ Signals("student", "remote") => Replying("student")
    /\ Replying("student") /\ ~Signals("student", "remote") =>
          ~Signals("teacher", "local") \/ Returning("teacher")
    /\ Offers("teacher") =>
          OneAt("student") /\ (Replying("student") => Signals("student", "remote"))
    /\ OffersTwice("teacher") \/ media["teacher"] # None => ~Pipe("student")
    /\ ~OffersThrice("teacher")
    /\ media["teacher"] # None =>
          /\ Offers("teacher") /\ ~OffersTwice("teacher") /\ "first" \notin Purposes(chain["teacher"])
          /\ media["teacher"].stage = "syncing"

-----------------------------------------------------------------------------
(* What a step changes.                                                     *)

\* A side's queues are what they were.
LEMMA SameQueues ==
    ASSUME NEW p
    PROVE  /\ wire'[p] = wire[p] =>
                 /\ (Coming(p)' <=> Coming(p)) /\ (ComingTwice(p)' <=> ComingTwice(p))
                 /\ (Back(p)' <=> Back(p)) /\ (BackTwice(p)' <=> BackTwice(p))
           /\ chain'[p] = chain[p] =>
                 /\ (Offers(p)' <=> Offers(p)) /\ (OffersTwice(p)' <=> OffersTwice(p))
                 /\ OffersThrice(p)' <=> OffersThrice(p)
                 /\ (Handling(p)' <=> Handling(p)) /\ (HandlingTwice(p)' <=> HandlingTwice(p))
                 /\ Replying(p)' <=> Replying(p)
                 /\ (Taking(p)' <=> Taking(p)) /\ (TakingTwice(p)' <=> TakingTwice(p))
                 /\ Purposes(chain'[p]) = Purposes(chain[p])
<1>1. ASSUME wire'[p] = wire[p]
      PROVE  /\ (Coming(p)' <=> Coming(p)) /\ (ComingTwice(p)' <=> ComingTwice(p))
             /\ (Back(p)' <=> Back(p)) /\ (BackTwice(p)' <=> BackTwice(p))
  BY <1>1 DEF Coming, ComingTwice, Back, BackTwice
<1>2. ASSUME chain'[p] = chain[p]
      PROVE  /\ (Offers(p)' <=> Offers(p)) /\ (OffersTwice(p)' <=> OffersTwice(p))
             /\ OffersThrice(p)' <=> OffersThrice(p)
             /\ Purposes(chain'[p]) = Purposes(chain[p])
  BY <1>2 DEF Offers, OffersTwice, OffersThrice
<1>3. ASSUME chain'[p] = chain[p]
      PROVE  /\ (Handling(p)' <=> Handling(p)) /\ (HandlingTwice(p)' <=> HandlingTwice(p))
             /\ Replying(p)' <=> Replying(p)
             /\ (Taking(p)' <=> Taking(p)) /\ (TakingTwice(p)' <=> TakingTwice(p))
  BY <1>3 DEF Handling, HandlingTwice, Replying, Taking, TakingTwice
<1> QED BY <1>1, <1>2, <1>3

\* p has sent a message.
LEMMA Posted ==
    ASSUME TwoSided, Steady, ~over, NEW p \in Sides, NEW message, message.kind \in Relayed,
           wire' = Send(wire, p, message)
    PROVE  /\ wire'[p] = wire[p]
           /\ LongerWire(wire[Other(p)], wire'[Other(p)], message.kind)
           /\ Readable(Other(p))'
<1> DEFINE q == Other(p)
           n == Len(wire[q])
<1>1. q \in Sides /\ q # p /\ Readable(p) /\ Readable(q) /\ session[p] /\ socket[p] = "up" /\ socket[q] = "up"
  BY DEF Steady, Other, Sides
<1>2. MaySend(p) /\ Routed(p)
  BY <1>1 DEF MaySend, Routed
<1>3. wire' = [wire EXCEPT ![q] = Append(@, message)]
  BY <1>2 DEF Send
<1>4. wire'[p] = wire[p] /\ wire'[q] = Append(wire[q], message)
  BY <1>1, <1>3 DEF TwoSided
<1>5. /\ IsSeq(wire[q])
      /\ \A i \in DOMAIN wire[q] : wire[q][i].kind \in Relayed
  BY <1>1 DEF Readable
<1> HIDE DEF q
<1>6. /\ IsSeq(wire'[q]) /\ n \in Nat /\ DOMAIN wire[q] = 1 .. n /\ DOMAIN wire'[q] = 1 .. n + 1
      /\ \A i \in 1 .. n : wire'[q][i] = wire[q][i]
      /\ wire'[q][n + 1] = message
  BY <1>4, <1>5, LongerQueue
<1>7. LongerWire(wire[q], wire'[q], message.kind)
  BY <1>4, <1>5, WireLonger
<1> HIDE DEF n
<1>8. \A i \in DOMAIN wire'[q] : wire'[q][i].kind \in Relayed
  BY <1>5, <1>6
<1> QED BY <1>4, <1>6, <1>7, <1>8 DEF q, Readable

\* p has read its first message.
LEMMA Got ==
    ASSUME TwoSided, Steady, NEW p \in Sides, wire[p] # <<>>, wire' = Rest(p)
    PROVE  /\ wire'[Other(p)] = wire[Other(p)]
           /\ LongerWire(wire'[p], wire[p], Head(wire[p]).kind)
           /\ Head(wire[p]).kind \in Relayed
           /\ Readable(p)'
<1> DEFINE n == Len(wire[p])
<1>1. Other(p) \in Sides /\ Other(p) # p /\ Readable(p)
  BY DEF Steady, Other, Sides
<1>2. wire'[Other(p)] = wire[Other(p)] /\ wire'[p] = Tail(wire[p])
  BY <1>1 DEF TwoSided, Rest
<1>3. IsSeq(wire[p]) /\ \A i \in DOMAIN wire[p] : wire[p][i].kind \in Relayed
  BY <1>1 DEF Readable
<1>4. /\ IsSeq(wire'[p]) /\ n \in Nat /\ n >= 1
      /\ DOMAIN wire[p] = 1 .. n /\ DOMAIN wire'[p] = 1 .. n - 1
      /\ \A i \in 1 .. n - 1 : wire'[p][i] = wire[p][i + 1]
      /\ Head(wire[p]) = wire[p][1]
  BY <1>2, <1>3, ShorterQueue
<1>5. LongerWire(wire'[p], wire[p], Head(wire[p]).kind)
  BY <1>2, <1>3, WireShorter
<1> HIDE DEF n
<1>6. \A i \in DOMAIN wire'[p] : i + 1 \in DOMAIN wire[p] /\ wire'[p][i] = wire[p][i + 1]
  BY <1>4
<1>7. 1 \in DOMAIN wire[p]
  BY <1>4
<1> QED BY <1>2, <1>3, <1>4, <1>5, <1>6, <1>7 DEF Readable

\* p has called an operation.
LEMMA Called ==
    ASSUME TwoSided, Steady, NEW p \in Sides, NEW operation, Calls(p, operation)
    PROVE  /\ chain'[Other(p)] = chain[Other(p)] /\ DOMAIN chain' = Sides
           /\ LongerChain(chain[p], chain'[p], operation.op, operation.as)
           /\ IsSeq(chain'[p])
<1>1. Other(p) \in Sides /\ Other(p) # p /\ IsSeq(chain[p])
  BY DEF Steady, Window, Other, Sides
<1>2. /\ chain'[Other(p)] = chain[Other(p)] /\ DOMAIN chain' = Sides
      /\ chain'[p] = Append(chain[p], operation)
  BY <1>1 DEF TwoSided, Calls
<1> QED BY <1>1, <1>2, LongerQueue, ChainLonger

\* p's connection has executed its first operation.
LEMMA Done ==
    ASSUME TwoSided, Steady, NEW p \in Sides, chain[p] # <<>>, Then(p, <<>>)
    PROVE  /\ chain'[Other(p)] = chain[Other(p)] /\ DOMAIN chain' = Sides
           /\ LongerChain(chain'[p], chain[p], Head(chain[p]).op, Head(chain[p]).as)
           /\ IsSeq(chain'[p])
<1>1. Other(p) \in Sides /\ Other(p) # p /\ IsSeq(chain[p])
  BY DEF Steady, Window, Other, Sides
<1>2. /\ chain'[Other(p)] = chain[Other(p)] /\ DOMAIN chain' = Sides
      /\ chain'[p] = Tail(chain[p]) \o <<>>
  BY <1>1 DEF TwoSided, Then
<1>3. IsSeq(Tail(chain[p]))
  BY <1>1, ShorterQueue
<1>4. chain'[p] = Tail(chain[p])
  BY <1>2, <1>3, ConcatEmptySeq DEF IsSeq
<1> QED BY <1>1, <1>2, <1>3, <1>4, ChainShorter

\* And has called the next one then.
LEMMA Turned ==
    ASSUME TwoSided, Steady, NEW p \in Sides, chain[p] # <<>>, NEW operation,
           Then(p, <<operation>>)
    PROVE  /\ chain'[Other(p)] = chain[Other(p)] /\ DOMAIN chain' = Sides
           /\ LongerChain(Tail(chain[p]), chain[p], Head(chain[p]).op, Head(chain[p]).as)
           /\ LongerChain(Tail(chain[p]), chain'[p], operation.op, operation.as)
           /\ IsSeq(chain'[p])
<1> DEFINE rest == Tail(chain[p])
           elements == {rest[i] : i \in DOMAIN rest} \cup {operation}
<1>1. Other(p) \in Sides /\ Other(p) # p /\ IsSeq(chain[p])
  BY DEF Steady, Window, Other, Sides
<1>2. /\ chain'[Other(p)] = chain[Other(p)] /\ DOMAIN chain' = Sides
      /\ chain'[p] = rest \o <<operation>>
  BY <1>1 DEF TwoSided, Then
<1>3. IsSeq(rest)
  BY <1>1, ShorterQueue
<1>4. rest \in Seq(elements) /\ operation \in elements
  BY <1>3, SeqMonotonic DEF IsSeq
<1> HIDE DEF elements
<1>5. chain'[p] = Append(rest, operation)
  BY <1>2, <1>4, AppendIsConcat
<1> HIDE DEF rest
<1>6. LongerChain(rest, chain'[p], operation.op, operation.as) /\ IsSeq(chain'[p])
  BY <1>3, <1>5, ChainLonger, LongerQueue
<1>7. LongerChain(rest, chain[p], Head(chain[p]).op, Head(chain[p]).as)
  BY <1>1, ChainShorter DEF rest
<1> QED BY <1>2, <1>6, <1>7 DEF rest
-----------------------------------------------------------------------------
(* Both stay connected.                                                     *)

\* The window of one side has moved, and what is on the wire can be read.
LEMMA SteadyWindow ==
    ASSUME Steady, NEW p \in Sides,
           UNCHANGED <<session, socket, left, notice>>, Window(p)',
           \A q \in Sides : q # p => peer'[q] = peer[q] /\ chain'[q] = chain[q] /\ media'[q] = media[q],
           \A q \in Sides : wire'[q] = wire[q] \/ Readable(q)'
    PROVE  Steady'
<1>1. \A q \in Sides : Readable(q)'
  BY DEF Steady, Readable
<1>2. ASSUME NEW q \in Sides PROVE Window(q)'
  <2>1. CASE q = p
    BY <2>1
  <2>2. CASE q # p
    <3>1. Window(q) /\ peer'[q] = peer[q] /\ chain'[q] = chain[q] /\ media'[q] = media[q]
      BY <2>2 DEF Steady
    <3> QED BY <3>1 DEF Window
  <2> QED BY <2>1, <2>2
<1> QED BY <1>1, <1>2 DEF Steady, Extra

\* No window has moved.
LEMMA SteadyWire ==
    ASSUME Steady, UNCHANGED <<session, socket, notice, peer, chain, media>>,
           left' \in [Bounded -> Nat], left'.drop = 0, Extra' <= 1,
           \A q \in Sides : wire'[q] = wire[q] \/ Readable(q)'
    PROVE  Steady'
<1>1. \A q \in Sides : Readable(q)' /\ Window(q)'
  BY DEF Steady, Readable, Window
<1> QED BY <1>1 DEF Steady

\* What p sends can be read.
LEMMA SentReadable ==
    ASSUME TwoSided, Steady, ~over, NEW p \in Sides, NEW message, message.kind \in Relayed,
           wire' \in {wire, Send(wire, p, message)}
    PROVE  \A q \in Sides : wire'[q] = wire[q] \/ Readable(q)'
<1>1. \A q \in Sides : q = p \/ q = Other(p)
  BY DEF Sides, Other
<1>2. CASE wire' = wire
  BY <1>2
<1>3. CASE wire' = Send(wire, p, message)
  BY <1>1, <1>3, Posted
<1> QED BY <1>2, <1>3

\* A closed window.
LEMMA ClosedWindow ==
    ASSUME TwoSided, NEW p \in Sides, Close(p)
    PROVE  /\ Window(p)'
           /\ peer'[p] = None /\ chain'[p] = <<>> /\ media'[p] = None /\ offering'[p] = None
           /\ \A q \in Sides : q # p => /\ peer'[q] = peer[q] /\ chain'[q] = chain[q]
                                        /\ media'[q] = media[q] /\ offering'[q] = offering[q]
<1>1. /\ peer'[p] = None /\ chain'[p] = <<>> /\ media'[p] = None /\ offering'[p] = None
      /\ \A q \in Sides : q # p => /\ peer'[q] = peer[q] /\ chain'[q] = chain[q]
                                   /\ media'[q] = media[q] /\ offering'[q] = offering[q]
  BY DEF TwoSided, Close
<1>2. IsSeq(<<>>)
  BY DEF IsSeq
<1> QED BY <1>1, <1>2 DEF Window

\* The connection is kept, whatever it signals then.
LEMMA KeptWindow ==
    ASSUME TwoSided, Steady, UndefinedIsNoObject, NEW p \in Sides, chain[p] # <<>>,
           IsSeq(chain'[p]), media'[p] \in {media[p], None},
           peer'[p] = peer[p] \/
              (/\ "signaling" \in DOMAIN peer'[p]
               /\ peer'[p].signaling \in {"stable", "local", "remote"})
    PROVE  Window(p)' /\ peer'[p] # None
<1>1. Window(p) /\ peer[p] # None
  BY DEF Steady, Window
<1>2. "signaling" \in DOMAIN peer'[p] /\ peer'[p].signaling \in {"stable", "local", "remote"}
  BY <1>1 DEF Window
<1>3. peer'[p] # None
  BY <1>2 DEF UndefinedIsNoObject
<1> QED BY <1>1, <1>2, <1>3 DEF Window

-----------------------------------------------------------------------------
(* What each operation of a connection does.                                *)

\* queueRenegotiation is done with its head, and what waited for it goes on.
LEMMA Finished ==
    ASSUME TwoSided, Steady, RecoveryInv, NEW p \in Sides, chain[p] # <<>>, Finish(p)
    PROVE  /\ offering'[p] = None /\ offering'[Other(p)] = offering[Other(p)]
           /\ media'[Other(p)] = media[Other(p)] /\ chain'[Other(p)] = chain[Other(p)]
           /\ IsSeq(chain'[p])
           /\ \/ /\ media[p] # None /\ media[p].stage = "syncing" /\ media'[p] = None
                 /\ LongerChain(Tail(chain[p]), chain[p], Head(chain[p]).op, Head(chain[p]).as)
                 /\ p = "teacher" => LongerChain(Tail(chain[p]), chain'[p], "createOffer", "first")
                 /\ p = "student" => LongerChain(Tail(chain[p]), chain'[p], "setRemoteOffer", None)
              \/ /\ media[p] # None => media[p].stage # "syncing"
                 /\ media' = media
                 /\ LongerChain(chain'[p], chain[p], Head(chain[p]).op, Head(chain[p]).as)
           /\ recovery'.timer = "now" => recovery.timer = "now"
           /\ recovery = NoRecovery => recovery' = NoRecovery
           /\ p = "student" => recovery' = recovery
<1>1. Other(p) \in Sides /\ Other(p) # p
  BY DEF Other, Sides
<1>2. offering'[p] = None /\ offering'[Other(p)] = offering[Other(p)]
  BY <1>1 DEF TwoSided, Finish
<1>3. /\ recovery'.timer = "now" => recovery.timer = "now"
      /\ recovery = NoRecovery => recovery' = NoRecovery
      /\ p = "student" => recovery' = recovery
  <2>1. recovery \in [timer : Timers, inFlight : BOOLEAN]
    BY DEF RecoveryInv
  <2>2. CASE p = "teacher" /\ recovery.inFlight
    <3> DEFINE r == [recovery EXCEPT !.inFlight = FALSE]
    <3>1. r \in [timer : Timers, inFlight : BOOLEAN] /\ ~r.inFlight /\ r.timer = recovery.timer
      BY <2>1
    <3>2. recovery' = IF ice = "lost" THEN Scheduled(r, "later") ELSE r
      BY <2>2 DEF Finish
    <3> HIDE DEF r
    <3>3. recovery' = r \/ recovery' = [r EXCEPT !.timer = "later"]
      BY <3>2 DEF Scheduled
    <3> QED BY <2>2, <3>1, <3>3 DEF NoRecovery
  <2>3. CASE ~(p = "teacher" /\ recovery.inFlight)
    BY <2>3 DEF Finish
  <2> QED BY <2>2, <2>3
<1>4. CASE media[p] # None /\ media[p].stage = "syncing"
  <2>1. Then(p, Resumed(p)) /\ media' = [media EXCEPT ![p] = None]
    BY <1>4 DEF Finish
  <2>2. PICK operation : /\ Resumed(p) = <<operation>>
                         /\ p = "teacher" => operation.op = "createOffer" /\ operation.as = "first"
                         /\ p = "student" => operation.op = "setRemoteOffer" /\ operation.as = None
    <3>1. CASE p = "teacher"
      <4>1. Resumed(p) = <<Operation("createOffer", "first", None)>>
        BY <3>1 DEF Resumed
      <4>2. /\ Operation("createOffer", "first", None).op = "createOffer"
            /\ Operation("createOffer", "first", None).as = "first"
        BY DEF Operation
      <4> QED BY <3>1, <4>1, <4>2
    <3>2. CASE p # "teacher"
      BY <3>2 DEF Resumed, Operation
    <3> QED BY <3>1, <3>2
  <2>3. /\ chain'[Other(p)] = chain[Other(p)] /\ IsSeq(chain'[p])
        /\ LongerChain(Tail(chain[p]), chain[p], Head(chain[p]).op, Head(chain[p]).as)
        /\ LongerChain(Tail(chain[p]), chain'[p], operation.op, operation.as)
    BY <2>1, <2>2, Turned
  <2>4. media'[p] = None /\ media'[Other(p)] = media[Other(p)]
    BY <1>1, <2>1 DEF TwoSided
  <2> QED BY <1>2, <1>4, <2>2, <2>3, <2>4, <1>3
<1>5. CASE ~(media[p] # None /\ media[p].stage = "syncing")
  <2>1. Then(p, <<>>) /\ media' = media
    BY <1>5 DEF Finish
  <2> QED BY <1>2, <1>5, <2>1, Done, <1>3
<1> QED BY <1>4, <1>5

\* An offer that throws.
LEMMA OfferFailed ==
    ASSUME TwoSided, Steady, RecoveryInv, UndefinedIsNoObject, NEW p \in Sides, chain[p] # <<>>,
           NEW as, OfferFails(p, as), UNCHANGED <<session, socket, left, notice, wire>>
    PROVE  Steady' /\ (as \notin {"first", "sync"} => Finish(p) /\ UNCHANGED <<peer, ice>>)
<1>1. CASE as \in {"first", "sync"}
  BY <1>1, ClosedWindow, SteadyWindow DEF OfferFails
<1>2. CASE as \notin {"first", "sync"}
  <2>1. Finish(p) /\ UNCHANGED <<peer, pending, ice>>
    BY <1>2 DEF OfferFails
  <2>2. IsSeq(chain'[p]) /\ media'[p] \in {media[p], None}
    BY <2>1, Finished
  <2>3. Window(p)'
    BY <2>1, <2>2, KeptWindow
  <2>4. \A q \in Sides : q # p => peer'[q] = peer[q] /\ chain'[q] = chain[q] /\ media'[q] = media[q]
    BY <2>1, Finished DEF Other, Sides
  <2> QED BY <2>1, <2>3, <2>4, SteadyWindow
<1> QED BY <1>1, <1>2

\* A connection that is kept, with what it has signalled and sent.
LEMMA SteadyOperation ==
    ASSUME TwoSided, Steady, ~over, UndefinedIsNoObject, NEW p \in Sides, chain[p] # <<>>,
           UNCHANGED <<session, socket, left, notice, media>>,
           chain'[Other(p)] = chain[Other(p)], IsSeq(chain'[p]),
           peer'[Other(p)] = peer[Other(p)],
           \/ peer'[p] = peer[p]
           \/ /\ "signaling" \in DOMAIN peer'[p]
              /\ peer'[p].signaling \in {"stable", "local", "remote"},
           NEW message, message.kind \in Relayed, wire' \in {wire, Send(wire, p, message)}
    PROVE  Steady'
<1>1. Window(p)'
  BY KeptWindow
<1>2. \A q \in Sides : q # p => peer'[q] = peer[q] /\ chain'[q] = chain[q] /\ media'[q] = media[q]
  BY DEF Other, Sides
<1>3. \A q \in Sides : wire'[q] = wire[q] \/ Readable(q)'
  BY SentReadable
<1> QED BY <1>1, <1>2, <1>3, SteadyWindow

\* What p's connection signals changes to that of its description.
NewSignal(p, state) ==
    /\ peer'[Other(p)] = peer[Other(p)]
    /\ "signaling" \in DOMAIN peer'[p] /\ peer'[p].signaling = state /\ peer'[p] # None

\* CreateOffer: it fails, or calls the next operation.
LEMMA CreatesOffer ==
    ASSUME TwoSided, Steady, ~over, RecoveryInv, UndefinedIsNoObject, NEW p \in Sides,
           CreateOffer(p)
    PROVE  /\ chain[p] # <<>> /\ Head(chain[p]).op = "createOffer"
           /\ Steady' /\ UNCHANGED <<wire, left>>
           /\ \/ /\ Signals(p, "remote")
                 /\ Head(chain[p]).as \notin {"first", "sync"} => Finish(p) /\ UNCHANGED <<peer, ice>>
              \/ /\ ~Signals(p, "remote")
                 /\ chain'[Other(p)] = chain[Other(p)]
                 /\ LongerChain(Tail(chain[p]), chain[p], "createOffer", Head(chain[p]).as)
                 /\ LongerChain(Tail(chain[p]), chain'[p], "setLocalOffer", Head(chain[p]).as)
                 /\ UNCHANGED <<peer, offering, media, ice, recovery>>
<1> DEFINE as == Head(chain[p]).as
<1>1. /\ chain[p] # <<>> /\ Head(chain[p]).op = "createOffer"
      /\ UNCHANGED <<socket, session, over, wire, notice, left>>
  BY DEF CreateOffer, Executes
<1>2. peer[p] # None
  BY <1>1 DEF Steady, Window
<1>3. CASE peer[p].signaling = "remote"
  <2>1. OfferFails(p, as)
    BY <1>3 DEF CreateOffer
  <2> QED BY <1>1, <1>2, <1>3, <2>1, OfferFailed DEF Signals
<1>4. CASE peer[p].signaling # "remote"
  <2> DEFINE next == Operation("setLocalOffer", as, None)
  <2>1. Then(p, <<next>>) /\ UNCHANGED <<peer, offering, media, pending, ice, recovery>>
    BY <1>4 DEF CreateOffer
  <2>2. next.op = "setLocalOffer" /\ next.as = as
    BY DEF Operation
  <2> HIDE DEF next
  <2>3. /\ chain'[Other(p)] = chain[Other(p)]
        /\ LongerChain(Tail(chain[p]), chain[p], "createOffer", as)
        /\ LongerChain(Tail(chain[p]), chain'[p], "setLocalOffer", as)
        /\ IsSeq(chain'[p])
    BY <1>1, <2>1, <2>2, Turned
  <2>4. Message("candidate", None).kind \in Relayed
    BY DEF Message, Relayed
  <2>5. Steady'
    BY <1>1, <2>1, <2>3, <2>4, SteadyOperation
  <2> QED BY <1>1, <1>4, <2>1, <2>3, <2>5 DEF Signals
<1> QED BY <1>3, <1>4

\* SetLocalOffer: it fails, or the offer is sent.
LEMMA SetsLocalOffer ==
    ASSUME TwoSided, Steady, ~over, RecoveryInv, UndefinedIsNoObject, NEW p \in Sides,
           SetLocalOffer(p)
    PROVE  /\ chain[p] # <<>> /\ Head(chain[p]).op = "setLocalOffer" /\ UNCHANGED left
           /\ Steady'
           /\ \/ /\ Signals(p, "remote") /\ UNCHANGED wire
                 /\ Head(chain[p]).as \notin {"first", "sync"} => Finish(p) /\ UNCHANGED <<peer, ice>>
              \/ /\ ~Signals(p, "remote") /\ NewSignal(p, "local") /\ UNCHANGED ice
                 /\ wire'[p] = wire[p]
                 /\ LongerWire(wire[Other(p)], wire'[Other(p)], "offer")
                 /\ \/ /\ Head(chain[p]).as = "first"
                       /\ chain'[Other(p)] = chain[Other(p)]
                       /\ LongerChain(chain'[p], chain[p], "setLocalOffer", "first")
                       /\ UNCHANGED <<offering, media, recovery>>
                    \/ Head(chain[p]).as # "first" /\ Finish(p)
<1> DEFINE as == Head(chain[p]).as
<1>1. /\ chain[p] # <<>> /\ Head(chain[p]).op = "setLocalOffer"
      /\ UNCHANGED <<socket, session, over, notice, left>>
  BY DEF SetLocalOffer, Executes
<1>2. peer[p] # None /\ "signaling" \in DOMAIN peer[p] /\ Other(p) \in Sides /\ Other(p) # p
  BY <1>1 DEF Steady, Window, Other, Sides
<1>3. MaySend(p)
  BY DEF MaySend, Steady
<1>4. CASE peer[p].signaling = "remote"
  <2>1. OfferFails(p, as) /\ UNCHANGED wire
    BY <1>4 DEF SetLocalOffer
  <2> QED BY <1>1, <1>2, <1>4, <2>1, OfferFailed DEF Signals
<1>5. CASE peer[p].signaling # "remote"
  <2>1. PICK creds :
           /\ peer' = [peer EXCEPT ![p].signaling = "local", ![p].offered = creds]
           /\ wire' = Send(wire, p, Message("offer", creds))
           /\ IF as = "first" THEN Then(p, <<>>) /\ UNCHANGED <<offering, media, recovery>>
              ELSE Finish(p)
           /\ UNCHANGED <<pending, ice>>
    BY <1>3, <1>5, Zenon DEF SetLocalOffer
  <2>2. peer'[Other(p)] = peer[Other(p)] /\ "signaling" \in DOMAIN peer'[p]
        /\ peer'[p].signaling = "local"
    BY <1>2, <2>1 DEF TwoSided
  <2>3. peer'[p] # None
    BY <2>2 DEF UndefinedIsNoObject
  <2>4. Message("offer", creds).kind = "offer" /\ "offer" \in Relayed
    BY DEF Message, Relayed
  <2>5. wire'[p] = wire[p] /\ LongerWire(wire[Other(p)], wire'[Other(p)], "offer")
    BY <2>1, <2>4, Posted
  <2>6. /\ chain'[Other(p)] = chain[Other(p)] /\ media'[Other(p)] = media[Other(p)]
        /\ IsSeq(chain'[p]) /\ media'[p] \in {media[p], None}
    BY <1>1, <2>1, Done, Finished
  <2>7. as = "first" => LongerChain(chain'[p], chain[p], "setLocalOffer", "first")
    BY <1>1, <2>1, Done
  <2>8. Window(p)'
    BY <1>1, <2>2, <2>6, KeptWindow
  <2>9. \A q \in Sides : q # p => peer'[q] = peer[q] /\ chain'[q] = chain[q] /\ media'[q] = media[q]
    BY <2>2, <2>6 DEF Other, Sides
  <2>10. \A q \in Sides : wire'[q] = wire[q] \/ Readable(q)'
    BY <2>1, <2>4, SentReadable
  <2>11. Steady'
    BY <1>1, <2>8, <2>9, <2>10, SteadyWindow
  <2>12. ~Signals(p, "remote") /\ NewSignal(p, "local")
    BY <1>5, <2>2, <2>3 DEF Signals, NewSignal
  <2> QED BY <1>1, <2>1, <2>5, <2>6, <2>7, <2>11, <2>12
<1> QED BY <1>4, <1>5

\* SetRemoteOffer
LEMMA SetsRemoteOffer ==
    ASSUME TwoSided, Steady, ~over, UndefinedIsNoObject, NEW p \in Sides, SetRemoteOffer(p)
    PROVE  /\ chain[p] # <<>> /\ Steady'
           /\ NewSignal(p, "remote") /\ chain'[Other(p)] = chain[Other(p)]
           /\ LongerChain(Tail(chain[p]), chain[p], "setRemoteOffer", Head(chain[p]).as)
           /\ LongerChain(Tail(chain[p]), chain'[p], "createAnswer", None)
           /\ UNCHANGED <<wire, offering, media, ice, recovery, left>>
<1>1. /\ chain[p] # <<>> /\ Head(chain[p]).op = "setRemoteOffer"
      /\ UNCHANGED <<socket, session, over, wire, offering, media, ice, recovery, notice, left>>
      /\ Then(p, <<Operation("createAnswer", None, None)>>)
  BY DEF SetRemoteOffer, Executes
<1>2. peer[p] # None /\ "signaling" \in DOMAIN peer[p] /\ Other(p) \in Sides /\ Other(p) # p
  BY <1>1 DEF Steady, Window, Other, Sides
<1>3. PICK theirs, renew, reach :
         peer' = [peer EXCEPT ![p].signaling = "remote", ![p].described = TRUE,
                        ![p].offered = None, ![p].theirs = theirs,
                        ![p].renew = renew, ![p].reach = reach]
  BY Zenon DEF SetRemoteOffer
<1>4. peer'[Other(p)] = peer[Other(p)] /\ "signaling" \in DOMAIN peer'[p]
      /\ peer'[p].signaling = "remote"
  BY <1>2, <1>3 DEF TwoSided
<1>5. peer'[p] # None
  BY <1>4 DEF UndefinedIsNoObject
<1>6. /\ Operation("createAnswer", None, None).op = "createAnswer"
      /\ Operation("createAnswer", None, None).as = None
  BY DEF Operation
<1>7. /\ chain'[Other(p)] = chain[Other(p)] /\ IsSeq(chain'[p])
      /\ LongerChain(Tail(chain[p]), chain[p], "setRemoteOffer", Head(chain[p]).as)
      /\ LongerChain(Tail(chain[p]), chain'[p], "createAnswer", None)
  BY <1>1, <1>6, Turned
<1>8. Message("candidate", None).kind \in Relayed
  BY DEF Message, Relayed
<1>9. Steady'
  BY <1>1, <1>4, <1>7, <1>8, SteadyOperation
<1> QED BY <1>1, <1>4, <1>5, <1>7, <1>9 DEF NewSignal

\* An answer that fails.
LEMMA AnsweringFailed ==
    ASSUME TwoSided, Steady, ~over, UndefinedIsNoObject, NEW p \in Sides, chain[p] # <<>>,
           AnsweringFails(p, peer), UNCHANGED <<session, socket, left, notice, wire>>
    PROVE  Steady' /\ (p = "student" => Close(p))
<1>1. CASE p = "student"
  BY <1>1, ClosedWindow, SteadyWindow DEF AnsweringFails
<1>2. CASE p # "student"
  <2>1. peer' = peer /\ Then(p, <<>>) /\ UNCHANGED media
    BY <1>2 DEF AnsweringFails
  <2>2. chain'[Other(p)] = chain[Other(p)] /\ IsSeq(chain'[p])
    BY <2>1, Done
  <2>3. Message("candidate", None).kind \in Relayed
    BY DEF Message, Relayed
  <2> QED BY <1>2, <2>1, <2>2, <2>3, SteadyOperation
<1> QED BY <1>1, <1>2

\* CreateAnswer: it fails, or calls the next operation.
LEMMA CreatesAnswer ==
    ASSUME TwoSided, Steady, ~over, UndefinedIsNoObject, NEW p \in Sides, CreateAnswer(p)
    PROVE  /\ chain[p] # <<>> /\ Head(chain[p]).op = "createAnswer" /\ Steady'
           /\ UNCHANGED <<wire, left>>
           /\ \/ ~Signals(p, "remote") /\ (p = "student" => Close(p))
              \/ /\ Signals(p, "remote")
                 /\ chain'[Other(p)] = chain[Other(p)]
                 /\ LongerChain(Tail(chain[p]), chain[p], "createAnswer", Head(chain[p]).as)
                 /\ LongerChain(Tail(chain[p]), chain'[p], "setLocalAnswer", None)
                 /\ UNCHANGED <<peer, offering, media, ice, recovery>>
<1>1. /\ chain[p] # <<>> /\ Head(chain[p]).op = "createAnswer"
      /\ UNCHANGED <<socket, session, over, wire, notice, left>>
  BY DEF CreateAnswer, Executes
<1>2. peer[p] # None
  BY <1>1 DEF Steady, Window
<1>3. CASE peer[p].signaling # "remote"
  <2>1. AnsweringFails(p, peer)
    BY <1>3 DEF CreateAnswer
  <2> QED BY <1>1, <1>3, <2>1, AnsweringFailed DEF Signals
<1>4. CASE peer[p].signaling = "remote"
  <2>1. /\ Then(p, <<Operation("setLocalAnswer", None, None)>>)
        /\ UNCHANGED <<peer, offering, media, pending, ice, recovery>>
    BY <1>4 DEF CreateAnswer
  <2>2. /\ Operation("setLocalAnswer", None, None).op = "setLocalAnswer"
        /\ Operation("setLocalAnswer", None, None).as = None
    BY DEF Operation
  <2>3. /\ chain'[Other(p)] = chain[Other(p)] /\ IsSeq(chain'[p])
        /\ LongerChain(Tail(chain[p]), chain[p], "createAnswer", Head(chain[p]).as)
        /\ LongerChain(Tail(chain[p]), chain'[p], "setLocalAnswer", None)
    BY <1>1, <2>1, <2>2, Turned
  <2>4. Message("candidate", None).kind \in Relayed
    BY DEF Message, Relayed
  <2>5. Steady'
    BY <1>1, <2>1, <2>3, <2>4, SteadyOperation
  <2> QED BY <1>1, <1>2, <1>4, <2>1, <2>3, <2>5 DEF Signals
<1> QED BY <1>3, <1>4

\* SetLocalAnswer: it fails, or the answer is sent.
LEMMA SetsLocalAnswer ==
    ASSUME TwoSided, Steady, ~over, UndefinedIsNoObject, NEW p \in Sides, SetLocalAnswer(p)
    PROVE  /\ chain[p] # <<>> /\ Head(chain[p]).op = "setLocalAnswer" /\ Steady'
           /\ UNCHANGED left
           /\ \/ ~Signals(p, "remote") /\ (p = "student" => Close(p)) /\ UNCHANGED wire
              \/ /\ Signals(p, "remote") /\ NewSignal(p, "stable")
                 /\ wire'[p] = wire[p]
                 /\ LongerWire(wire[Other(p)], wire'[Other(p)], "answer")
                 /\ chain'[Other(p)] = chain[Other(p)]
                 /\ LongerChain(chain'[p], chain[p], "setLocalAnswer", Head(chain[p]).as)
                 /\ UNCHANGED <<offering, media, recovery>>
                 /\ p = "student" => UNCHANGED ice
<1>1. /\ chain[p] # <<>> /\ Head(chain[p]).op = "setLocalAnswer"
      /\ UNCHANGED <<socket, session, over, notice, left>>
  BY DEF SetLocalAnswer, Executes
<1>2. peer[p] # None /\ "signaling" \in DOMAIN peer[p] /\ Other(p) \in Sides /\ Other(p) # p
  BY <1>1 DEF Steady, Window, Other, Sides
<1>3. MaySend(p)
  BY DEF MaySend, Steady
<1>4. CASE peer[p].signaling # "remote"
  <2>1. AnsweringFails(p, peer) /\ UNCHANGED wire
    BY <1>4 DEF SetLocalAnswer
  <2> QED BY <1>1, <1>4, <2>1, AnsweringFailed DEF Signals
<1>5. CASE peer[p].signaling = "remote"
  <2>1. PICK creds :
           /\ peer' = [peer EXCEPT ![p].signaling = "stable", ![p].mine = creds, ![p].renew = FALSE]
           /\ wire' = Send(wire, p, Message("answer", creds))
           /\ Then(p, <<>>)
           /\ ice' = IF p = "teacher" /\ peer[p].renew THEN "checking" ELSE ice
           /\ UNCHANGED <<offering, media, pending, recovery>>
    BY <1>3, <1>5, Zenon DEF SetLocalAnswer
  <2>2. peer'[Other(p)] = peer[Other(p)] /\ "signaling" \in DOMAIN peer'[p]
        /\ peer'[p].signaling = "stable"
    BY <1>2, <2>1 DEF TwoSided
  <2>3. peer'[p] # None
    BY <2>2 DEF UndefinedIsNoObject
  <2>4. Message("answer", creds).kind = "answer" /\ "answer" \in Relayed
    BY DEF Message, Relayed
  <2>5. wire'[p] = wire[p] /\ LongerWire(wire[Other(p)], wire'[Other(p)], "answer")
    BY <2>1, <2>4, Posted
  <2>6. /\ chain'[Other(p)] = chain[Other(p)] /\ IsSeq(chain'[p])
        /\ LongerChain(chain'[p], chain[p], "setLocalAnswer", Head(chain[p]).as)
    BY <1>1, <2>1, Done
  <2>7. Steady'
    BY <1>1, <2>1, <2>2, <2>4, <2>6, SteadyOperation
  <2>8. p = "student" => UNCHANGED ice
    BY <2>1
  <2>9. Signals(p, "remote") /\ NewSignal(p, "stable")
    BY <1>2, <1>5, <2>2, <2>3 DEF Signals, NewSignal
  <2> QED BY <1>1, <2>1, <2>5, <2>6, <2>7, <2>8, <2>9
<1> QED BY <1>4, <1>5

\* SetRemoteAnswer
LEMMA SetsRemoteAnswer ==
    ASSUME TwoSided, Steady, ~over, UndefinedIsNoObject, NEW p \in Sides, SetRemoteAnswer(p)
    PROVE  /\ chain[p] # <<>> /\ Steady'
           /\ chain'[Other(p)] = chain[Other(p)]
           /\ LongerChain(chain'[p], chain[p], "setRemoteAnswer", Head(chain[p]).as)
           /\ UNCHANGED <<wire, offering, media, recovery, left>>
           /\ p = "student" => UNCHANGED ice
           /\ \/ ~Signals(p, "local") /\ UNCHANGED peer /\ UNCHANGED ice
              \/ Signals(p, "local") /\ NewSignal(p, "stable")
<1>1. /\ chain[p] # <<>> /\ Head(chain[p]).op = "setRemoteAnswer" /\ Then(p, <<>>)
      /\ UNCHANGED <<socket, session, over, wire, offering, media, recovery, notice, left>>
  BY DEF SetRemoteAnswer, Executes
<1>2. peer[p] # None /\ "signaling" \in DOMAIN peer[p] /\ Other(p) \in Sides /\ Other(p) # p
  BY <1>1 DEF Steady, Window, Other, Sides
<1>3. /\ chain'[Other(p)] = chain[Other(p)] /\ IsSeq(chain'[p])
      /\ LongerChain(chain'[p], chain[p], "setRemoteAnswer", Head(chain[p]).as)
  BY <1>1, Done
<1>4. Message("candidate", None).kind \in Relayed
  BY DEF Message, Relayed
<1>5. CASE peer[p].signaling # "local"
  <2>1. UNCHANGED <<peer, pending, ice>>
    BY <1>5 DEF SetRemoteAnswer
  <2>2. Steady'
    BY <1>1, <1>3, <1>4, <2>1, SteadyOperation
  <2> QED BY <1>1, <1>3, <1>5, <2>1, <2>2 DEF Signals
<1>6. CASE peer[p].signaling = "local"
  <2> DEFINE cred == Head(chain[p]).cred
             reach == IF cred # peer[p].theirs THEN Flushed(p, cred) ELSE peer[p].reach
  <2>1. peer' = [peer EXCEPT ![p].signaling = "stable", ![p].described = TRUE,
                        ![p].mine = peer[p].offered, ![p].offered = None,
                        ![p].theirs = cred, ![p].reach = reach]
    BY <1>6 DEF SetRemoteAnswer
  <2> HIDE DEF cred, reach
  <2>2. peer'[Other(p)] = peer[Other(p)] /\ "signaling" \in DOMAIN peer'[p]
        /\ peer'[p].signaling = "stable"
    BY <1>2, <2>1 DEF TwoSided
  <2>3. peer'[p] # None
    BY <2>2 DEF UndefinedIsNoObject
  <2>4. Steady'
    BY <1>1, <1>3, <1>4, <2>2, SteadyOperation
  <2>5. p = "student" => UNCHANGED ice
    BY <1>6 DEF SetRemoteAnswer
  <2> QED BY <1>1, <1>2, <1>3, <1>6, <2>2, <2>3, <2>4, <2>5 DEF Signals, NewSignal
<1> QED BY <1>5, <1>6

\* AddCandidate
LEMMA AddsCandidate ==
    ASSUME TwoSided, Steady, ~over, UndefinedIsNoObject, NEW p \in Sides, AddCandidate(p)
    PROVE  /\ chain[p] # <<>> /\ Steady'
           /\ chain'[Other(p)] = chain[Other(p)]
           /\ LongerChain(chain'[p], chain[p], "addCandidate", Head(chain[p]).as)
           /\ UNCHANGED <<wire, offering, media, ice, recovery, left>>
           /\ \A q \in Sides : \A state : Signals(q, state)' <=> Signals(q, state)
           /\ \A q \in Sides : peer'[q] = None <=> peer[q] = None
<1>1. /\ chain[p] # <<>> /\ Head(chain[p]).op = "addCandidate" /\ Then(p, <<>>)
      /\ UNCHANGED <<socket, session, over, wire, offering, media, ice, recovery, notice, left>>
  BY DEF AddCandidate, Executes
<1>2. /\ peer[p] # None /\ "signaling" \in DOMAIN peer[p] /\ Other(p) \in Sides /\ Other(p) # p
      /\ peer[p].signaling \in {"stable", "local", "remote"}
  BY <1>1 DEF Steady, Window, Other, Sides
<1>3. /\ chain'[Other(p)] = chain[Other(p)] /\ IsSeq(chain'[p])
      /\ LongerChain(chain'[p], chain[p], "addCandidate", Head(chain[p]).as)
  BY <1>1, Done
<1>4. Message("candidate", None).kind \in Relayed
  BY DEF Message, Relayed
<1>5. PICK cred : peer' = peer \/ peer' = [peer EXCEPT ![p].reach = cred]
  BY Zenon DEF AddCandidate
<1>6. /\ \A q \in Sides : q # p => peer'[q] = peer[q]
      /\ "signaling" \in DOMAIN peer'[p] /\ peer'[p].signaling = peer[p].signaling
  BY <1>2, <1>5 DEF TwoSided
<1>7. peer'[p] # None
  BY <1>6 DEF UndefinedIsNoObject
<1>8. Steady'
  BY <1>1, <1>2, <1>3, <1>4, <1>6, SteadyOperation
<1>9. /\ \A q \in Sides : \A state : Signals(q, state)' <=> Signals(q, state)
      /\ \A q \in Sides : peer'[q] = None <=> peer[q] = None
  BY <1>2, <1>6, <1>7 DEF Signals
<1> QED BY <1>1, <1>3, <1>8, <1>9
-----------------------------------------------------------------------------
(* One offer of each side at a time.                                        *)

\* What is counted of one side: two are one, an answer is an operation for an
\* offer, and there are reasons for the offers that are made.
LEMMA Counts ==
    ASSUME NEW p
    PROVE  /\ ComingTwice(p) => Coming(p)
           /\ HandlingTwice(p) => Handling(p)
           /\ OffersThrice(p) => OffersTwice(p)
           /\ OffersTwice(p) => Offers(p)
           /\ BackTwice(p) => Back(p)
           /\ TakingTwice(p) => Taking(p)
           /\ Replying(p) => Handling(p)
           /\ Offers(p) <=> Purposes(chain[p]) # {}
BY Counted, OffersHavePurposes
   DEF Coming, ComingTwice, Handling, HandlingTwice, Offers, OffersTwice, OffersThrice, Back,
       BackTwice, Taking, TakingTwice, Replying

\* The first operation of a connection.
LEMMA HeadCounts ==
    ASSUME Steady, NEW p \in Sides, chain[p] # <<>>
    PROVE  /\ Head(chain[p]).op \in Making =>
                 Offers(p) /\ Head(chain[p]).as \in Purposes(chain[p])
           /\ Head(chain[p]).op \in Answering => Handling(p)
           /\ Head(chain[p]).op \in Replies => Replying(p)
           /\ Head(chain[p]).op \in Accepting => Taking(p)
           /\ peer[p] # None
<1>1. IsSeq(chain[p]) /\ peer[p] # None
  BY DEF Steady, Window
<1>2. LongerChain(Tail(chain[p]), chain[p], Head(chain[p]).op, Head(chain[p]).as)
  BY <1>1, ChainShorter
<1> QED BY <1>1, <1>2 DEF LongerChain, OneMoreOf, Offers, Handling, Replying, Taking

\* p's connection has executed an operation that called none.
LEMMA LessCounts ==
    ASSUME NEW p, NEW op, NEW as, LongerChain(chain'[p], chain[p], op, as)
    PROVE  /\ Offers(p) <=> Offers(p)' \/ op \in Making
           /\ OffersTwice(p) <=> OffersTwice(p)' \/ (Offers(p)' /\ op \in Making)
           /\ OffersThrice(p) <=> OffersThrice(p)' \/ (OffersTwice(p)' /\ op \in Making)
           /\ Handling(p) <=> Handling(p)' \/ op \in Answering
           /\ HandlingTwice(p) <=> HandlingTwice(p)' \/ (Handling(p)' /\ op \in Answering)
           /\ Replying(p) <=> Replying(p)' \/ op \in Replies
           /\ Taking(p) <=> Taking(p)' \/ op \in Accepting
           /\ TakingTwice(p) <=> TakingTwice(p)' \/ (Taking(p)' /\ op \in Accepting)
           /\ Purposes(chain[p]) = Purposes(chain'[p]) \cup (IF op \in Making THEN {as} ELSE {})
BY DEF LongerChain, OneMoreOf, Offers, OffersTwice, OffersThrice, Handling, HandlingTwice, Replying,
       Taking, TakingTwice

\* It has called another one.
LEMMA MoreCounts ==
    ASSUME NEW p, NEW op, NEW as, LongerChain(chain[p], chain'[p], op, as)
    PROVE  /\ Offers(p)' <=> Offers(p) \/ op \in Making
           /\ OffersTwice(p)' <=> OffersTwice(p) \/ (Offers(p) /\ op \in Making)
           /\ OffersThrice(p)' <=> OffersThrice(p) \/ (OffersTwice(p) /\ op \in Making)
           /\ Handling(p)' <=> Handling(p) \/ op \in Answering
           /\ HandlingTwice(p)' <=> HandlingTwice(p) \/ (Handling(p) /\ op \in Answering)
           /\ Replying(p)' <=> Replying(p) \/ op \in Replies
           /\ Taking(p)' <=> Taking(p) \/ op \in Accepting
           /\ TakingTwice(p)' <=> TakingTwice(p) \/ (Taking(p) /\ op \in Accepting)
           /\ Purposes(chain'[p]) = Purposes(chain[p]) \cup (IF op \in Making THEN {as} ELSE {})
BY DEF LongerChain, OneMoreOf, Offers, OffersTwice, OffersThrice, Handling, HandlingTwice, Replying,
       Taking, TakingTwice

\* An operation has called the next one of the same offer or of the same answer.
LEMMA TurnCounts ==
    ASSUME NEW p, NEW op, NEW as, NEW next, NEW reason,
           LongerChain(Tail(chain[p]), chain[p], op, as),
           LongerChain(Tail(chain[p]), chain'[p], next, reason)
    PROVE  /\ op \in Making /\ next \in Making =>
                 /\ Offers(p)' /\ (OffersTwice(p)' <=> OffersTwice(p))
                 /\ OffersThrice(p)' <=> OffersThrice(p)
           /\ op \notin Making /\ next \notin Making =>
                 /\ (Offers(p)' <=> Offers(p)) /\ (OffersTwice(p)' <=> OffersTwice(p))
                 /\ OffersThrice(p)' <=> OffersThrice(p)
           /\ (op \in Making <=> next \in Making) /\ as = reason =>
                 Purposes(chain'[p]) = Purposes(chain[p])
           /\ op \in Answering /\ next \in Answering =>
                 Handling(p)' /\ (HandlingTwice(p)' <=> HandlingTwice(p))
           /\ op \notin Answering /\ next \notin Answering =>
                 (Handling(p)' <=> Handling(p)) /\ (HandlingTwice(p)' <=> HandlingTwice(p))
           /\ next \in Replies => Replying(p)'
           /\ op \notin Replies /\ next \notin Replies => (Replying(p)' <=> Replying(p))
           /\ op \notin Accepting /\ next \notin Accepting =>
                 (Taking(p)' <=> Taking(p)) /\ (TakingTwice(p)' <=> TakingTwice(p))
<1>1. ASSUME op \in Making <=> next \in Making, as = reason
      PROVE  Purposes(chain'[p]) = Purposes(chain[p])
  BY <1>1 DEF LongerChain
<1>2. /\ op \in Making /\ next \in Making =>
            /\ Offers(p)' /\ (OffersTwice(p)' <=> OffersTwice(p))
            /\ OffersThrice(p)' <=> OffersThrice(p)
      /\ op \notin Making /\ next \notin Making =>
            /\ (Offers(p)' <=> Offers(p)) /\ (OffersTwice(p)' <=> OffersTwice(p))
            /\ OffersThrice(p)' <=> OffersThrice(p)
  BY DEF LongerChain, OneMoreOf, Offers, OffersTwice, OffersThrice
<1>3. /\ op \in Answering /\ next \in Answering =>
            Handling(p)' /\ (HandlingTwice(p)' <=> HandlingTwice(p))
      /\ op \notin Answering /\ next \notin Answering =>
            (Handling(p)' <=> Handling(p)) /\ (HandlingTwice(p)' <=> HandlingTwice(p))
  BY DEF LongerChain, OneMoreOf, Handling, HandlingTwice
<1>4. /\ next \in Replies => Replying(p)'
      /\ op \notin Replies /\ next \notin Replies => (Replying(p)' <=> Replying(p))
  BY DEF LongerChain, OneMoreOf, Replying
<1>5. op \notin Accepting /\ next \notin Accepting =>
         (Taking(p)' <=> Taking(p)) /\ (TakingTwice(p)' <=> TakingTwice(p))
  BY DEF LongerChain, OneMoreOf, Taking, TakingTwice
<1> QED BY <1>1, <1>2, <1>3, <1>4, <1>5

\* A message has come, or has been read.
LEMMA WireCounts ==
    ASSUME NEW p, NEW kind
    PROVE  /\ LongerWire(wire[p], wire'[p], kind) =>
                 /\ Coming(p)' <=> Coming(p) \/ kind = "offer"
                 /\ ComingTwice(p)' <=> ComingTwice(p) \/ (Coming(p) /\ kind = "offer")
                 /\ Back(p)' <=> Back(p) \/ kind = "answer"
                 /\ BackTwice(p)' <=> BackTwice(p) \/ (Back(p) /\ kind = "answer")
           /\ LongerWire(wire'[p], wire[p], kind) =>
                 /\ Coming(p) <=> Coming(p)' \/ kind = "offer"
                 /\ ComingTwice(p) <=> ComingTwice(p)' \/ (Coming(p)' /\ kind = "offer")
                 /\ Back(p) <=> Back(p)' \/ kind = "answer"
                 /\ BackTwice(p) <=> BackTwice(p)' \/ (Back(p)' /\ kind = "answer")
BY DEF LongerWire, OneMoreOf, Coming, ComingTwice, Back, BackTwice

\* An offer that cannot be made any more is only dropped: it was not the first.
LEMMA DroppedSingle ==
    ASSUME TwoSided, Steady, Single, RecoveryInv, NEW p \in Sides, chain[p] # <<>>,
           Head(chain[p]).op \in Making, Signals(p, "remote"),
           Head(chain[p]).as \notin {"first", "sync"} => Finish(p) /\ UNCHANGED <<peer, ice>>,
           UNCHANGED <<wire, left>>
    PROVE  Single'
<1> DEFINE as == Head(chain[p]).as
           op == Head(chain[p]).op
<1>1. Offers(p) /\ as \in Purposes(chain[p])
  BY HeadCounts
<1>2. as \notin {"first", "sync"} /\ ~Parked(p)
      /\ (media[p] # None => media[p].stage = "starting")
  <2>1. CASE p = "teacher"
    BY <1>1, <2>1 DEF Single, Blank, Parked
  <2>2. CASE p = "student"
    <3>1. ~Parked(p)
      BY <2>2, Counts DEF Single, Settling, OneAt
    <3> QED BY <1>1, <2>2, <3>1 DEF Single, Parked
  <2> QED BY <2>1, <2>2 DEF Sides
<1>3. Finish(p) /\ UNCHANGED <<peer, ice>>
  BY <1>2
<1>4. /\ offering'[p] = None /\ offering'[Other(p)] = offering[Other(p)]
      /\ media' = media /\ chain'[Other(p)] = chain[Other(p)]
      /\ LongerChain(chain'[p], chain[p], op, as)
      /\ recovery'.timer = "now" => recovery.timer = "now"
      /\ recovery = NoRecovery => recovery' = NoRecovery
      /\ p = "student" => recovery' = recovery
  BY <1>2, <1>3, Finished
<1>5. /\ ~Offers(p)' /\ Purposes(chain'[p]) = {} /\ ~OffersTwice(p)'
      /\ (Handling(p)' <=> Handling(p)) /\ (HandlingTwice(p)' <=> HandlingTwice(p))
      /\ (Replying(p)' <=> Replying(p))
      /\ (Taking(p)' <=> Taking(p)) /\ (TakingTwice(p)' <=> TakingTwice(p))
  <2> HIDE DEF as, op
  <2>1. op \in Making /\ op \notin Answering /\ op \notin Accepting /\ op \notin Replies
    BY DEF op, Making, Answering, Replies, Accepting
  <2>2. ~OffersTwice(p)
    BY DEF Single, Settling, Sides
  <2>3. ~Offers(p)'
    BY <1>4, <2>1, <2>2, LessCounts
  <2>4. Purposes(chain'[p]) = {} /\ ~OffersTwice(p)'
    BY <2>3, OffersHavePurposes, Counted DEF Offers, OffersTwice
  <2> QED BY <1>4, <2>1, <2>3, <2>4, LessCounts
<1> HIDE DEF as, op
<1>6. \A q \in Sides : /\ (Coming(q)' <=> Coming(q)) /\ (ComingTwice(q)' <=> ComingTwice(q))
                       /\ (Back(q)' <=> Back(q)) /\ (BackTwice(q)' <=> BackTwice(q))
                       /\ (Parked(q)' <=> Parked(q))
                       /\ \A state : Signals(q, state)' <=> Signals(q, state)
  BY <1>3, <1>4, SameQueues DEF Parked, Signals
<1>7. CASE p = "teacher"
  BY <1>3, <1>4, <1>5, <1>6, <1>7, SameQueues
     DEF Single, Settling, OneAt, OneBack, Pipe, Returning, Extra, More, Blank, Other, Sides
<1>8. CASE p = "student"
  BY <1>3, <1>4, <1>5, <1>6, <1>8, SameQueues
     DEF Single, Settling, OneAt, OneBack, Pipe, Returning, Extra, More, Blank, Other, Sides
<1> QED BY <1>7, <1>8 DEF Sides

\* An offer is sent: the one that its side was making.
LEMMA SentSingle ==
    ASSUME TwoSided, Steady, Single, RecoveryInv, NEW p \in Sides, chain[p] # <<>>,
           Head(chain[p]).op = "setLocalOffer", UNCHANGED <<left, ice>>,
           ~Signals(p, "remote"), NewSignal(p, "local"),
           wire'[p] = wire[p], LongerWire(wire[Other(p)], wire'[Other(p)], "offer"),
           \/ /\ Head(chain[p]).as = "first"
              /\ chain'[Other(p)] = chain[Other(p)]
              /\ LongerChain(chain'[p], chain[p], "setLocalOffer", "first")
              /\ UNCHANGED <<offering, media, recovery>>
           \/ Head(chain[p]).as # "first" /\ Finish(p)
    PROVE  Single'
<1> DEFINE as == Head(chain[p]).as
<1>1. Offers(p) /\ as \in Purposes(chain[p]) /\ ~OffersTwice(p) /\ peer[p] # None
  <2>1. Head(chain[p]).op \in Making
    BY DEF Making
  <2> QED BY <2>1, HeadCounts DEF Single, Settling, Sides
<1>2. /\ "setLocalOffer" \in Making /\ "setLocalOffer" \notin Answering
      /\ "setLocalOffer" \notin Accepting /\ "setLocalOffer" \notin Replies
  BY DEF Making, Answering, Replies, Accepting
<1>3. /\ Coming(Other(p))' /\ (ComingTwice(Other(p))' <=> ComingTwice(Other(p)) \/ Coming(Other(p)))
      /\ (Back(Other(p))' <=> Back(Other(p))) /\ (BackTwice(Other(p))' <=> BackTwice(Other(p)))
  BY WireCounts
<1>4. /\ (Coming(p)' <=> Coming(p)) /\ (ComingTwice(p)' <=> ComingTwice(p))
      /\ (Back(p)' <=> Back(p)) /\ (BackTwice(p)' <=> BackTwice(p))
  BY SameQueues
<1>5. /\ chain'[Other(p)] = chain[Other(p)] /\ media'[Other(p)] = media[Other(p)]
      /\ offering'[Other(p)] = offering[Other(p)]
      /\ recovery'.timer = "now" => recovery.timer = "now"
      /\ recovery = NoRecovery => recovery' = NoRecovery
      /\ p = "student" => recovery' = recovery
  BY Finished
<1>6. p = "teacher" => media["teacher"] = None
  BY <1>1 DEF Single
<1>7. \/ /\ media'[p] = media[p] /\ LongerChain(chain'[p], chain[p], "setLocalOffer", as)
      \/ /\ p = "student" /\ Parked(p) /\ media'[p] = None
         /\ LongerChain(Tail(chain[p]), chain[p], "setLocalOffer", as)
         /\ LongerChain(Tail(chain[p]), chain'[p], "setRemoteOffer", None)
  <2>1. CASE as = "first"
    BY <2>1
  <2>2. CASE as # "first"
    BY <1>6, <2>2, Finished DEF Sides, Parked
  <2> QED BY <2>1, <2>2
<1> HIDE DEF as
<1>8. ASSUME LongerChain(chain'[p], chain[p], "setLocalOffer", as), media'[p] = media[p]
      PROVE  /\ ~Offers(p)' /\ Purposes(chain'[p]) = {} /\ ~OffersTwice(p)'
             /\ (Handling(p)' <=> Handling(p)) /\ (HandlingTwice(p)' <=> HandlingTwice(p))
             /\ (Replying(p)' <=> Replying(p)) /\ (Parked(p)' <=> Parked(p))
             /\ (Taking(p)' <=> Taking(p)) /\ (TakingTwice(p)' <=> TakingTwice(p))
  <2>1. ~Offers(p)'
    BY <1>1, <1>2, <1>8, LessCounts
  <2>2. Purposes(chain'[p]) = {} /\ ~OffersTwice(p)'
    BY <2>1, OffersHavePurposes, Counted DEF Offers, OffersTwice
  <2> QED BY <1>2, <1>8, <2>1, <2>2, LessCounts DEF Parked
<1>9. ASSUME LongerChain(Tail(chain[p]), chain[p], "setLocalOffer", as), media'[p] = None,
             LongerChain(Tail(chain[p]), chain'[p], "setRemoteOffer", None), p = "student", Parked(p)
      PROVE  /\ ~Offers(p)' /\ Purposes(chain'[p]) = {} /\ ~OffersTwice(p)'
             /\ Handling(p)' /\ ~HandlingTwice(p)' /\ ~Replying(p)' /\ ~Replying(p) /\ ~Parked(p)'
             /\ ~Coming(p)
             /\ (Taking(p)' <=> Taking(p)) /\ (TakingTwice(p)' <=> TakingTwice(p))
  <2>1. /\ "setRemoteOffer" \notin Making /\ "setRemoteOffer" \in Answering
        /\ "setRemoteOffer" \notin Accepting /\ "setRemoteOffer" \notin Replies
    BY DEF Making, Answering, Replies, Accepting
  <2>2. ~Handling(p) /\ ~Replying(p) /\ ~Coming(p) /\ ~HandlingTwice(p)
    BY <1>9, Counts DEF Single, Settling, OneAt
  <2>3. ~Offers(p)'
    BY <1>1, <1>2, <1>9, <2>1 DEF LongerChain, OneMoreOf, Offers, OffersTwice
  <2>4. Purposes(chain'[p]) = {} /\ ~OffersTwice(p)'
    BY <2>3, OffersHavePurposes, Counted DEF Offers, OffersTwice
  <2>5. Handling(p)' /\ ~HandlingTwice(p)'
    BY <1>2, <1>9, <2>1, <2>2 DEF LongerChain, OneMoreOf, Handling, HandlingTwice
  <2> QED BY <1>2, <1>9, <2>1, <2>2, <2>3, <2>4, <2>5, TurnCounts DEF Parked
<1>10. /\ Signals(p, "local")' /\ ~Signals(p, "remote")' /\ peer'[p] # None
       /\ peer'[Other(p)] = peer[Other(p)]
       /\ \A state : Signals(Other(p), state)' <=> Signals(Other(p), state)
  BY DEF NewSignal, Signals
<1>11. CASE p = "teacher"
  <2>1. /\ ~Offers(p)' /\ Purposes(chain'[p]) = {} /\ ~OffersTwice(p)'
        /\ (Handling(p)' <=> Handling(p)) /\ (HandlingTwice(p)' <=> HandlingTwice(p))
        /\ (Replying(p)' <=> Replying(p)) /\ (Parked(p)' <=> Parked(p))
        /\ (Taking(p)' <=> Taking(p)) /\ (TakingTwice(p)' <=> TakingTwice(p))
        /\ media'[p] = media[p]
    BY <1>7, <1>8, <1>11
  <2>2. Parked("student")' <=> Parked("student")
    BY <1>5, <1>11 DEF Parked, Other
  <2>3. offering'[p] = None
    <3>1. CASE as # "first"
      BY <3>1, Finished DEF as
    <3>2. CASE as = "first"
      <4>1. LongerChain(chain'[p], chain[p], "setLocalOffer", as) /\ offering' = offering
        BY <3>2 DEF as
      <4>2. Purposes(chain[p]) = {"first"}
        BY <1>2, <2>1, <3>2, <4>1 DEF LongerChain
      <4> QED BY <1>11, <4>1, <4>2 DEF Single
    <3> QED BY <3>1, <3>2
  <2> QED BY <1>1, <1>3, <1>4, <1>5, <1>6, <1>10, <1>11, <2>1, <2>2, <2>3, SameQueues
          DEF Single, Settling, OneAt, OneBack, Pipe, Returning, Extra, More, Blank, Other
<1>12. CASE p = "student"
  <2>1. ~Parked("teacher")' /\ ~Parked("teacher")
    BY DEF Parked
  <2>2. CASE media'[p] = media[p] /\ LongerChain(chain'[p], chain[p], "setLocalOffer", as)
    BY <1>1, <1>3, <1>4, <1>5, <1>8, <1>10, <1>12, <2>1, <2>2, SameQueues
       DEF Single, Settling, OneAt, OneBack, Pipe, Returning, Extra, More, Blank, Other
  <2>3. CASE ~(media'[p] = media[p] /\ LongerChain(chain'[p], chain[p], "setLocalOffer", as))
    <3>1. /\ ~Offers(p)' /\ Purposes(chain'[p]) = {} /\ ~OffersTwice(p)'
          /\ Handling(p)' /\ ~HandlingTwice(p)' /\ ~Replying(p)' /\ ~Replying(p) /\ ~Parked(p)'
          /\ ~Coming(p) /\ Parked(p)
          /\ (Taking(p)' <=> Taking(p)) /\ (TakingTwice(p)' <=> TakingTwice(p))
      BY <1>7, <1>9, <2>3
    <3> QED BY <1>1, <1>3, <1>4, <1>5, <1>10, <1>12, <2>1, <3>1, SameQueues
            DEF Single, Settling, OneAt, OneBack, Pipe, Returning, Extra, More, Blank, Other
  <2> QED BY <2>2, <2>3
<1> QED BY <1>11, <1>12 DEF Sides

\* What an operation is for.
OfKind(op, making, answering, replies, accepting) ==
    /\ (op \in Making) = making /\ (op \in Answering) = answering
    /\ (op \in Replies) = replies /\ (op \in Accepting) = accepting

\* All of them.
LEMMA OperationKinds ==
    /\ OfKind("createOffer", TRUE, FALSE, FALSE, FALSE)
    /\ OfKind("setLocalOffer", TRUE, FALSE, FALSE, FALSE)
    /\ OfKind("setRemoteOffer", FALSE, TRUE, FALSE, FALSE)
    /\ OfKind("createAnswer", FALSE, TRUE, TRUE, FALSE)
    /\ OfKind("setLocalAnswer", FALSE, TRUE, TRUE, FALSE)
    /\ OfKind("setRemoteAnswer", FALSE, FALSE, FALSE, TRUE)
    /\ OfKind("addCandidate", FALSE, FALSE, FALSE, FALSE)
BY DEF OfKind, Making, Answering, Replies, Accepting

\* A camera that waits stays waiting.
LEMMA SameParked == media' = media => \A q : Parked(q)' <=> Parked(q)
BY DEF Parked

\* An offer of the other side is applied, and an own one taken back.
LEMMA AppliedSingle ==
    ASSUME TwoSided, Steady, Single, NEW p \in Sides, chain[p] # <<>>, NEW as,
           NewSignal(p, "remote"), chain'[Other(p)] = chain[Other(p)],
           LongerChain(Tail(chain[p]), chain[p], "setRemoteOffer", as),
           LongerChain(Tail(chain[p]), chain'[p], "createAnswer", None),
           UNCHANGED <<wire, offering, media, ice, recovery, left>>
    PROVE  Single'
<1>1. /\ Handling(p) /\ Handling(p)' /\ (HandlingTwice(p)' <=> HandlingTwice(p)) /\ Replying(p)'
      /\ (Offers(p)' <=> Offers(p)) /\ (OffersTwice(p)' <=> OffersTwice(p))
      /\ (Taking(p)' <=> Taking(p)) /\ (TakingTwice(p)' <=> TakingTwice(p))
  <2>1. Handling(p)
    BY OperationKinds DEF OfKind, LongerChain, OneMoreOf, Handling
  <2>2. /\ "setRemoteOffer" \notin Making /\ "createAnswer" \notin Making
        /\ "setRemoteOffer" \in Answering /\ "createAnswer" \in Answering
        /\ "setRemoteOffer" \notin Accepting /\ "createAnswer" \notin Accepting
        /\ "createAnswer" \in Replies
    BY OperationKinds DEF OfKind
  <2> QED BY <2>1, <2>2, TurnCounts
<1>2. Purposes(chain'[p]) = Purposes(chain[p])
  BY OperationKinds DEF OfKind, LongerChain
<1>3. /\ Signals(p, "remote")' /\ ~Signals(p, "local")' /\ peer'[p] # None
      /\ peer'[Other(p)] = peer[Other(p)]
      /\ \A state : Signals(Other(p), state)' <=> Signals(Other(p), state)
  BY DEF NewSignal, Signals
<1>4. \A q \in Sides : /\ (Coming(q)' <=> Coming(q)) /\ (ComingTwice(q)' <=> ComingTwice(q))
                       /\ (Back(q)' <=> Back(q)) /\ (BackTwice(q)' <=> BackTwice(q))
                       /\ (Parked(q)' <=> Parked(q))
  BY SameQueues, SameParked
<1>5. CASE p = "teacher"
  BY <1>1, <1>2, <1>3, <1>4, <1>5, SameQueues
     DEF Single, Settling, OneAt, OneBack, Pipe, Returning, Extra, More, Blank, Other, Sides
<1>6. CASE p = "student"
  BY <1>1, <1>2, <1>3, <1>4, <1>6, SameQueues
     DEF Single, Settling, OneAt, OneBack, Pipe, Returning, Extra, More, Blank, Other, Sides
<1> QED BY <1>5, <1>6 DEF Sides

\* It is answered.
LEMMA AnsweredSingle ==
    ASSUME TwoSided, Steady, Single, NEW p \in Sides, chain[p] # <<>>, NEW as,
           Signals(p, "remote"), NewSignal(p, "stable"), wire'[p] = wire[p],
           LongerWire(wire[Other(p)], wire'[Other(p)], "answer"),
           chain'[Other(p)] = chain[Other(p)],
           LongerChain(chain'[p], chain[p], "setLocalAnswer", as),
           UNCHANGED <<offering, media, recovery, left>>, p = "student" => UNCHANGED ice
    PROVE  Single'
<1>1. /\ Handling(p) /\ ~HandlingTwice(p)
      /\ (Offers(p)' <=> Offers(p)) /\ (OffersTwice(p)' <=> OffersTwice(p))
      /\ (Taking(p)' <=> Taking(p)) /\ (TakingTwice(p)' <=> TakingTwice(p))
      /\ Purposes(chain'[p]) = Purposes(chain[p])
  <2>1. /\ "setLocalAnswer" \notin Making /\ "setLocalAnswer" \in Answering
        /\ "setLocalAnswer" \notin Accepting
    BY OperationKinds DEF OfKind
  <2>2. ~HandlingTwice(p)
    BY DEF Single, Settling, OneAt, Sides
  <2> QED BY <2>1, <2>2, LessCounts
<1>2. ~Handling(p)' /\ ~HandlingTwice(p)' /\ ~Replying(p)'
  <2>1. ~Handling(p)'
    BY <1>1, OperationKinds, LessCounts DEF OfKind
  <2> QED BY <2>1, OffersHavePurposes, Counted DEF Handling, HandlingTwice, Replying
<1>3. /\ ~Signals(p, "remote")' /\ ~Signals(p, "local")' /\ peer'[p] # None
      /\ peer'[Other(p)] = peer[Other(p)] /\ peer[p] # None
      /\ \A state : Signals(Other(p), state)' <=> Signals(Other(p), state)
  BY DEF NewSignal, Signals
<1>4. /\ \A q \in Sides : Parked(q)' <=> Parked(q)
      /\ (Coming(p)' <=> Coming(p)) /\ (ComingTwice(p)' <=> ComingTwice(p))
      /\ (Back(p)' <=> Back(p)) /\ (BackTwice(p)' <=> BackTwice(p))
      /\ (Coming(Other(p))' <=> Coming(Other(p)))
      /\ (ComingTwice(Other(p))' <=> ComingTwice(Other(p)))
      /\ Back(Other(p))' /\ (BackTwice(Other(p))' <=> BackTwice(Other(p)) \/ Back(Other(p)))
  <2>1. \A q \in Sides : Parked(q)' <=> Parked(q)
    BY SameParked
  <2>2. /\ (Coming(p)' <=> Coming(p)) /\ (ComingTwice(p)' <=> ComingTwice(p))
        /\ (Back(p)' <=> Back(p)) /\ (BackTwice(p)' <=> BackTwice(p))
    BY SameQueues
  <2>3. "answer" # "offer"
    OBVIOUS
  <2>4. /\ Coming(Other(p))' <=> Coming(Other(p)) \/ "answer" = "offer"
        /\ ComingTwice(Other(p))' <=> ComingTwice(Other(p)) \/ (Coming(Other(p)) /\ "answer" = "offer")
        /\ Back(Other(p))' <=> Back(Other(p)) \/ "answer" = "answer"
        /\ BackTwice(Other(p))' <=> BackTwice(Other(p)) \/ (Back(Other(p)) /\ "answer" = "answer")
    BY WireCounts
  <2> QED BY <2>1, <2>2, <2>3, <2>4
<1>5. CASE p = "teacher"
  BY <1>1, <1>2, <1>3, <1>4, <1>5, SameQueues, Counts
     DEF Single, Settling, OneAt, OneBack, Pipe, Returning, Extra, More, Blank, Other, Sides
<1>6. CASE p = "student"
  BY <1>1, <1>2, <1>3, <1>4, <1>6, SameQueues, Counts
     DEF Single, Settling, OneAt, OneBack, Pipe, Returning, Extra, More, Blank, Other, Sides
<1> QED BY <1>5, <1>6 DEF Sides

\* An answer is applied, or refused.
LEMMA TakenSingle ==
    ASSUME TwoSided, Steady, Single, NEW p \in Sides, chain[p] # <<>>, NEW as,
           chain'[Other(p)] = chain[Other(p)],
           LongerChain(chain'[p], chain[p], "setRemoteAnswer", as),
           UNCHANGED <<wire, offering, media, recovery, left>>, p = "student" => UNCHANGED ice,
           \/ ~Signals(p, "local") /\ UNCHANGED peer /\ UNCHANGED ice
           \/ Signals(p, "local") /\ NewSignal(p, "stable")
    PROVE  Single'
<1>1. /\ (Offers(p)' <=> Offers(p)) /\ (OffersTwice(p)' <=> OffersTwice(p))
      /\ (Handling(p)' <=> Handling(p)) /\ (HandlingTwice(p)' <=> HandlingTwice(p))
      /\ (Replying(p)' <=> Replying(p))
      /\ Taking(p) /\ (TakingTwice(p) <=> TakingTwice(p)' \/ Taking(p)')
      /\ Purposes(chain'[p]) = Purposes(chain[p])
  <2>1. /\ "setRemoteAnswer" \notin Making /\ "setRemoteAnswer" \notin Answering
        /\ "setRemoteAnswer" \notin Replies /\ "setRemoteAnswer" \in Accepting
    BY OperationKinds DEF OfKind
  <2> QED BY <2>1, LessCounts
<1>2. /\ ~Signals(p, "local")' /\ (Signals(p, "remote")' <=> Signals(p, "remote"))
      /\ peer'[p] = None <=> peer[p] = None
      /\ peer'[Other(p)] = peer[Other(p)]
      /\ \A state : Signals(Other(p), state)' <=> Signals(Other(p), state)
  BY DEF NewSignal, Signals
<1>3. \A q \in Sides : /\ (Coming(q)' <=> Coming(q)) /\ (ComingTwice(q)' <=> ComingTwice(q))
                       /\ (Back(q)' <=> Back(q)) /\ (BackTwice(q)' <=> BackTwice(q))
                       /\ (Parked(q)' <=> Parked(q))
  BY SameQueues, SameParked
<1>4. p = "teacher" => ~Blank
  BY <1>1 DEF Blank, Returning
<1>5. CASE p = "teacher"
  BY <1>1, <1>2, <1>3, <1>4, <1>5, SameQueues, Counts
     DEF Single, Settling, OneAt, OneBack, Pipe, Returning, Extra, More, Blank, Other, Sides
<1>6. CASE p = "student"
  BY <1>1, <1>2, <1>3, <1>6, SameQueues, Counts
     DEF Single, Settling, OneAt, OneBack, Pipe, Returning, Extra, More, Blank, Other, Sides
<1> QED BY <1>5, <1>6 DEF Sides

-----------------------------------------------------------------------------
(* Steps that make, send and apply no offer and no answer.                  *)

\* What counts of p's queues and connection is what it was.
SameCounts(p) ==
    /\ (Coming(p)' <=> Coming(p)) /\ (ComingTwice(p)' <=> ComingTwice(p))
    /\ (Back(p)' <=> Back(p)) /\ (BackTwice(p)' <=> BackTwice(p))
    /\ (Offers(p)' <=> Offers(p)) /\ (OffersTwice(p)' <=> OffersTwice(p))
    /\ (OffersThrice(p)' <=> OffersThrice(p))
    /\ (Handling(p)' <=> Handling(p)) /\ (HandlingTwice(p)' <=> HandlingTwice(p))
    /\ (Replying(p)' <=> Replying(p))
    /\ (Taking(p)' <=> Taking(p)) /\ (TakingTwice(p)' <=> TakingTwice(p))
    /\ Purposes(chain'[p]) = Purposes(chain[p])

SameSignals(p) ==
    /\ (peer'[p] = None <=> peer[p] = None)
    /\ \A state : Signals(p, state)' <=> Signals(p, state)

\* Queues that are what they were count what they did.
LEMMA SameQueuesCount ==
    ASSUME NEW p, wire'[p] = wire[p], chain'[p] = chain[p]
    PROVE  SameCounts(p)
BY SameQueues DEF SameCounts

\* So does a connection that nobody has touched.
LEMMA SamePeerSignals == ASSUME NEW p, peer'[p] = peer[p] PROVE SameSignals(p)
BY DEF SameSignals, Signals

\* Such a step keeps to one offer of each side.
LEMMA SameSingle ==
    ASSUME Single, \A p \in Sides : SameCounts(p) /\ SameSignals(p),
           UNCHANGED <<media, offering, ice, recovery, left>>
    PROVE  Single'
<1>1. \A p \in Sides : Parked(p)' <=> Parked(p)
  BY SameParked
<1>2. SameCounts("teacher") /\ SameCounts("student")
      /\ SameSignals("teacher") /\ SameSignals("student")
      /\ (Parked("teacher")' <=> Parked("teacher")) /\ (Parked("student")' <=> Parked("student"))
  BY <1>1 DEF Sides
<1> QED BY <1>2
        DEF Single, Settling, OneAt, OneBack, Pipe, Returning, Extra, More, Blank, Other,
            SameCounts, SameSignals

\* And leaves the professor's first two offers as they are.
LEMMA SameTwin ==
    ASSUME Twin, \A p \in Sides : SameCounts(p) /\ SameSignals(p),
           UNCHANGED <<media, offering, ice, recovery, left>>
    PROVE  Twin'
<1>1. \A p \in Sides : Parked(p)' <=> Parked(p)
  BY SameParked
<1>2. SameCounts("teacher") /\ SameCounts("student")
      /\ SameSignals("teacher") /\ SameSignals("student")
      /\ (Parked("teacher")' <=> Parked("teacher")) /\ (Parked("student")' <=> Parked("student"))
  BY <1>1 DEF Sides
<1> QED BY <1>2 DEF Twin, OneAt, Pipe, Returning, Extra, Other, SameCounts, SameSignals

\* An operation that calls the next one of the same offer, or of the same answer.
LEMMA TurnSame ==
    ASSUME NEW p \in Sides, NEW op, NEW as, NEW next, NEW reason,
           LongerChain(Tail(chain[p]), chain[p], op, as),
           LongerChain(Tail(chain[p]), chain'[p], next, reason),
           \/ op = "createOffer" /\ next = "setLocalOffer" /\ as = reason
           \/ op = "createAnswer" /\ next = "setLocalAnswer",
           chain'[Other(p)] = chain[Other(p)], wire' = wire
    PROVE  \A q \in Sides : SameCounts(q)
<1>1. SameCounts(Other(p))
  BY SameQueuesCount
<1>2. /\ (Coming(p)' <=> Coming(p)) /\ (ComingTwice(p)' <=> ComingTwice(p))
      /\ (Back(p)' <=> Back(p)) /\ (BackTwice(p)' <=> BackTwice(p))
  BY SameQueues
<1>3. CASE op = "createOffer" /\ next = "setLocalOffer" /\ as = reason
  <2>1. /\ op \in Making /\ next \in Making /\ op \notin Answering /\ next \notin Answering
        /\ op \notin Replies /\ next \notin Replies /\ op \notin Accepting /\ next \notin Accepting
    BY <1>3, OperationKinds DEF OfKind
  <2>2. Offers(p)
    BY <2>1 DEF LongerChain, OneMoreOf, Offers
  <2> QED BY <1>1, <1>2, <1>3, <2>1, <2>2, TurnCounts DEF SameCounts, Other, Sides
<1>4. CASE op = "createAnswer" /\ next = "setLocalAnswer"
  <2>1. /\ op \notin Making /\ next \notin Making /\ op \in Answering /\ next \in Answering
        /\ op \in Replies /\ next \in Replies /\ op \notin Accepting /\ next \notin Accepting
    BY <1>4, OperationKinds DEF OfKind
  <2>2. Handling(p) /\ Replying(p)
    BY <2>1 DEF LongerChain, OneMoreOf, Handling, Replying
  <2>3. Purposes(chain'[p]) = Purposes(chain[p])
    BY <2>1 DEF LongerChain
  <2> QED BY <1>1, <1>2, <2>1, <2>2, <2>3, TurnCounts DEF SameCounts, Other, Sides
<1> QED BY <1>3, <1>4

\* A candidate is no offer: it is applied.
LEMMA CandidateDone ==
    ASSUME NEW p \in Sides, NEW as, LongerChain(chain'[p], chain[p], "addCandidate", as),
           chain'[Other(p)] = chain[Other(p)], wire' = wire
    PROVE  \A q \in Sides : SameCounts(q)
<1>1. SameCounts(Other(p))
  BY SameQueuesCount
<1>2. /\ (Coming(p)' <=> Coming(p)) /\ (ComingTwice(p)' <=> ComingTwice(p))
      /\ (Back(p)' <=> Back(p)) /\ (BackTwice(p)' <=> BackTwice(p))
  BY SameQueues
<1>3. /\ "addCandidate" \notin Making /\ "addCandidate" \notin Answering
      /\ "addCandidate" \notin Replies /\ "addCandidate" \notin Accepting
  BY OperationKinds DEF OfKind
<1> QED BY <1>1, <1>2, <1>3, LessCounts DEF SameCounts, Other, Sides

\* It is heard.
LEMMA CandidateHeard ==
    ASSUME NEW p \in Sides, LongerWire(wire'[p], wire[p], "candidate"),
           wire'[Other(p)] = wire[Other(p)], chain'[Other(p)] = chain[Other(p)],
           chain'[p] = chain[p] \/ \E as : LongerChain(chain[p], chain'[p], "addCandidate", as)
    PROVE  \A q \in Sides : SameCounts(q)
<1>1. SameCounts(Other(p))
  BY SameQueuesCount
<1>2. /\ (Coming(p)' <=> Coming(p)) /\ (ComingTwice(p)' <=> ComingTwice(p))
      /\ (Back(p)' <=> Back(p)) /\ (BackTwice(p)' <=> BackTwice(p))
  <2>1. "candidate" # "offer" /\ "candidate" # "answer"
    OBVIOUS
  <2> QED BY <2>1, WireCounts
<1>3. CASE chain'[p] = chain[p]
  BY <1>1, <1>2, <1>3, SameQueues DEF SameCounts, Other, Sides
<1>4. ASSUME NEW as, LongerChain(chain[p], chain'[p], "addCandidate", as)
      PROVE  SameCounts(p)
  <2>1. /\ "addCandidate" \notin Making /\ "addCandidate" \notin Answering
        /\ "addCandidate" \notin Replies /\ "addCandidate" \notin Accepting
    BY OperationKinds DEF OfKind
  <2> QED BY <1>2, <1>4, <2>1, MoreCounts DEF SameCounts
<1> QED BY <1>1, <1>3, <1>4 DEF Other, Sides

\* It is sent.
LEMMA CandidateSent ==
    ASSUME NEW p \in Sides, wire'[p] = wire[p], chain' = chain,
           wire'[Other(p)] = wire[Other(p)] \/ LongerWire(wire[Other(p)], wire'[Other(p)], "candidate")
    PROVE  \A q \in Sides : SameCounts(q)
<1>1. SameCounts(p)
  BY SameQueuesCount
<1>2. "candidate" # "offer" /\ "candidate" # "answer"
  OBVIOUS
<1>3. CASE wire'[Other(p)] = wire[Other(p)]
  BY <1>1, <1>3, SameQueuesCount DEF Other, Sides
<1>4. CASE LongerWire(wire[Other(p)], wire'[Other(p)], "candidate")
  <2> DEFINE q == Other(p)
  <2>1. /\ (Coming(q)' <=> Coming(q)) /\ (ComingTwice(q)' <=> ComingTwice(q))
        /\ (Back(q)' <=> Back(q)) /\ (BackTwice(q)' <=> BackTwice(q))
    BY <1>2, <1>4, WireCounts
  <2>2. SameCounts(q)
    BY <2>1, SameQueues DEF SameCounts
  <2> QED BY <1>1, <2>2 DEF Other, Sides
<1> QED BY <1>3, <1>4

-----------------------------------------------------------------------------
(* What the windows do.                                                     *)

\* A stable connection waits for nothing.
LEMMA StableSignals ==
    ASSUME NEW p, Stable(p)
    PROVE  peer[p] # None /\ ~Signals(p, "local") /\ ~Signals(p, "remote")
BY DEF Stable, Signals

\* queueRenegotiation
LEMMA Queued ==
    ASSUME TwoSided, Steady, NEW p \in Sides, NEW as, Queue(p, as)
    PROVE  /\ chain'[Other(p)] = chain[Other(p)] /\ offering'[Other(p)] = offering[Other(p)]
           /\ IsSeq(chain'[p])
           /\ \/ /\ offering[p] # None \/ ~Stable(p)
                 /\ UNCHANGED <<offering, chain>>
              \/ /\ offering[p] = None /\ Stable(p)
                 /\ offering'[p] = as
                 /\ LongerChain(chain[p], chain'[p], "createOffer", as)
<1>1. Other(p) \in Sides /\ Other(p) # p /\ IsSeq(chain[p])
  BY DEF Steady, Window, Other, Sides
<1>2. CASE offering[p] # None \/ ~Stable(p)
  BY <1>1, <1>2 DEF Queue
<1>3. CASE ~(offering[p] # None \/ ~Stable(p))
  <2> DEFINE operation == Operation("createOffer", as, None)
  <2>1. offering' = [offering EXCEPT ![p] = as] /\ Calls(p, operation)
    BY <1>3 DEF Queue
  <2>2. operation.op = "createOffer" /\ operation.as = as
    BY DEF Operation
  <2> HIDE DEF operation
  <2>3. /\ chain'[Other(p)] = chain[Other(p)] /\ IsSeq(chain'[p])
        /\ LongerChain(chain[p], chain'[p], "createOffer", as)
    BY <2>1, <2>2, Called
  <2> QED BY <1>1, <1>3, <2>1, <2>3 DEF TwoSided
<1> QED BY <1>2, <1>3

\* A window that has only called operations.
LEMMA LongerWindow ==
    ASSUME Steady, NEW p \in Sides, peer[p] # None, peer'[p] = peer[p], IsSeq(chain'[p]),
           media'[p] # None => "stage" \in DOMAIN media'[p]
    PROVE  Window(p)'
BY DEF Steady, Window

\* StartTeacherWebRtc
LEMMA StartsTeacher ==
    ASSUME TwoSided, Steady, UndefinedIsNoObject, StartTeacherWebRtc
    PROVE  /\ Steady' /\ peer["teacher"] = None /\ NewSignal("teacher", "stable")
           /\ media'["teacher"] # None /\ media'["teacher"].stage = "starting"
           /\ media'["student"] = media["student"]
           /\ UNCHANGED <<wire, chain, offering, ice, recovery, left>>
<1> DEFINE starting == [stage |-> "starting", offer |-> None]
<1>1. /\ peer["teacher"] = None
      /\ peer' = [peer EXCEPT !["teacher"] = NewPeer]
      /\ media' = [media EXCEPT !["teacher"] = starting]
      /\ UNCHANGED <<socket, session, over, wire, chain, offering, ice, recovery, notice, left>>
  BY DEF StartTeacherWebRtc
<1>2. "signaling" \in DOMAIN NewPeer /\ NewPeer.signaling = "stable"
      /\ "stage" \in DOMAIN starting /\ starting.stage = "starting"
  BY DEF NewPeer
<1>3. NewPeer # None /\ starting # None
  BY <1>2 DEF UndefinedIsNoObject
<1> HIDE DEF starting
<1>4. /\ peer'["teacher"] = NewPeer /\ peer'["student"] = peer["student"]
      /\ media'["teacher"] = starting /\ media'["student"] = media["student"]
  BY <1>1 DEF TwoSided, Sides
<1>5. Window("teacher")'
  BY <1>1, <1>2, <1>3, <1>4 DEF Steady, Window, Sides
<1>6. Steady'
  BY <1>1, <1>4, <1>5, SteadyWindow DEF Sides
<1> QED BY <1>1, <1>2, <1>3, <1>4, <1>6 DEF NewSignal, Other

\* MediaReady
LEMMA ReadiesMedia ==
    ASSUME TwoSided, Steady, UndefinedIsNoObject, NEW p \in Sides, MediaReady(p)
    PROVE  /\ Steady' /\ media[p] # None /\ media[p].stage = "starting"
           /\ media'[Other(p)] = media[Other(p)]
           /\ offering'[Other(p)] = offering[Other(p)]
           /\ chain'[Other(p)] = chain[Other(p)]
           /\ UNCHANGED <<wire, peer, ice, recovery>>
           /\ \/ /\ media'[p] = None /\ UNCHANGED <<offering, left>>
                 /\ p = "teacher" => LongerChain(chain[p], chain'[p], "createOffer", "first")
                 /\ p = "student" => LongerChain(chain[p], chain'[p], "setRemoteOffer", None)
              \/ /\ Stable(p) /\ Extra = 1 /\ Extra' = 0
                 /\ media'[p] # None /\ media'[p].stage = "syncing"
                 /\ \/ offering[p] # None /\ UNCHANGED <<offering, chain>>
                    \/ /\ offering[p] = None /\ offering'[p] = "sync"
                       /\ LongerChain(chain[p], chain'[p], "createOffer", "sync")
<1>1. /\ media[p] # None /\ media[p].stage = "starting"
      /\ UNCHANGED <<socket, session, over, wire, peer, pending, ice, recovery, notice>>
  BY DEF MediaReady
<1>2. Other(p) \in Sides /\ Other(p) # p /\ peer[p] # None /\ "stage" \in DOMAIN media[p]
  BY <1>1 DEF Steady, Window, Other, Sides
<1>3. \A q \in Sides : q = p \/ q = Other(p)
  BY DEF Other, Sides
<1>4. CASE Calls(p, Head(Resumed(p))) /\ media' = [media EXCEPT ![p] = None]
           /\ UNCHANGED <<offering, left>>
  <2>1. PICK operation : /\ Head(Resumed(p)) = operation
                         /\ p = "teacher" => operation.op = "createOffer" /\ operation.as = "first"
                         /\ p = "student" => operation.op = "setRemoteOffer" /\ operation.as = None
    <3>1. CASE p = "teacher"
      <4>1. Resumed(p) = <<Operation("createOffer", "first", None)>>
        BY <3>1 DEF Resumed
      <4>2. /\ Operation("createOffer", "first", None).op = "createOffer"
            /\ Operation("createOffer", "first", None).as = "first"
        BY DEF Operation
      <4> QED BY <3>1, <4>1, <4>2
    <3>2. CASE p # "teacher"
      <4>1. Resumed(p) = <<Operation("setRemoteOffer", None, media[p].offer)>>
        BY <3>2 DEF Resumed
      <4>2. /\ Operation("setRemoteOffer", None, media[p].offer).op = "setRemoteOffer"
            /\ Operation("setRemoteOffer", None, media[p].offer).as = None
        BY DEF Operation
      <4> QED BY <3>2, <4>1, <4>2
    <3> QED BY <3>1, <3>2
  <2>2. /\ chain'[Other(p)] = chain[Other(p)] /\ IsSeq(chain'[p])
        /\ LongerChain(chain[p], chain'[p], operation.op, operation.as)
    BY <1>4, <2>1, Called
  <2>3. media'[p] = None /\ media'[Other(p)] = media[Other(p)]
    BY <1>2, <1>4 DEF TwoSided
  <2>4. Window(p)'
    BY <1>1, <1>2, <2>2, <2>3, LongerWindow
  <2>5. Steady'
    BY <1>1, <1>3, <1>4, <2>2, <2>3, <2>4, SteadyWindow
  <2> QED BY <1>1, <1>4, <2>1, <2>2, <2>3, <2>5
<1>5. CASE /\ Stable(p) /\ left.early > 0 /\ left' = [left EXCEPT !.early = @ - 1]
           /\ media' = [media EXCEPT ![p].stage = "syncing"] /\ Queue(p, "sync")
  <2>1. /\ left \in [Bounded -> Nat] /\ left.drop = 0 /\ left.change + left.early <= 1
        /\ left.early > 0
    BY <1>5 DEF Steady, Extra
  <2>2. left' \in [Bounded -> Nat] /\ left'.drop = 0 /\ Extra = 1 /\ Extra' = 0
    BY <1>5, <2>1 DEF Bounded, Extra
  <2>3. /\ media'[p].stage = "syncing" /\ "stage" \in DOMAIN media'[p]
        /\ media'[Other(p)] = media[Other(p)] /\ media'[p] # None
    <3>1. /\ media'[p] = [media[p] EXCEPT !.stage = "syncing"]
          /\ media'[Other(p)] = media[Other(p)]
      BY <1>2, <1>5 DEF TwoSided
    <3>2. media'[p].stage = "syncing" /\ "stage" \in DOMAIN media'[p]
      BY <1>2, <3>1
    <3> QED BY <3>1, <3>2 DEF UndefinedIsNoObject
  <2>4. chain'[Other(p)] = chain[Other(p)] /\ IsSeq(chain'[p])
        /\ offering'[Other(p)] = offering[Other(p)]
    BY <1>5, Queued
  <2>5. Window(p)'
    BY <1>1, <1>2, <2>3, <2>4, LongerWindow
  <2>6. Steady'
    <3>1. \A q \in Sides : Readable(q)'
      BY <1>1 DEF Steady, Readable
    <3>2. Window(Other(p))'
      BY <1>1, <1>2, <2>3, <2>4 DEF Steady, Window
    <3> QED BY <1>1, <1>3, <2>2, <2>5, <3>1, <3>2 DEF Steady
  <2>7. \/ offering[p] # None /\ UNCHANGED <<offering, chain>>
        \/ /\ offering[p] = None /\ offering'[p] = "sync"
           /\ LongerChain(chain[p], chain'[p], "createOffer", "sync")
    BY <1>5, Queued
  <2> QED BY <1>1, <1>5, <2>2, <2>3, <2>4, <2>6, <2>7
<1> QED BY <1>4, <1>5 DEF MediaReady

\* Change
LEMMA Changes ==
    ASSUME TwoSided, Steady, NEW p \in Sides, Change(p)
    PROVE  /\ Steady' /\ Stable(p) /\ media[p] = None /\ Extra = 1 /\ Extra' = 0
           /\ UNCHANGED <<wire, peer, media, ice, recovery>>
           /\ offering'[Other(p)] = offering[Other(p)]
           /\ chain'[Other(p)] = chain[Other(p)]
           /\ \/ offering[p] # None /\ UNCHANGED <<offering, chain>>
              \/ /\ offering[p] = None /\ offering'[p] = "change"
                 /\ LongerChain(chain[p], chain'[p], "createOffer", "change")
<1>1. /\ left.change > 0 /\ left' = [left EXCEPT !.change = @ - 1]
      /\ Stable(p) /\ media[p] = None /\ Queue(p, "change")
      /\ UNCHANGED <<socket, session, over, wire, peer, media, pending, ice, recovery, notice>>
  BY DEF Change
<1>2. \A q \in Sides : q = p \/ q = Other(p)
  BY DEF Other, Sides
<1>3. left \in [Bounded -> Nat] /\ left.drop = 0 /\ left.change + left.early <= 1
  BY DEF Steady, Extra
<1>4. left' \in [Bounded -> Nat] /\ left'.drop = 0 /\ Extra = 1 /\ Extra' = 0
  BY <1>1, <1>3 DEF Bounded, Extra
<1>5. /\ chain'[Other(p)] = chain[Other(p)] /\ IsSeq(chain'[p])
      /\ offering'[Other(p)] = offering[Other(p)]
      /\ \/ offering[p] # None /\ UNCHANGED <<offering, chain>>
         \/ /\ offering[p] = None /\ offering'[p] = "change"
            /\ LongerChain(chain[p], chain'[p], "createOffer", "change")
  BY <1>1, Queued
<1>6. Window(p)' /\ Window(Other(p))'
  <2>1. peer[p] # None /\ Window(Other(p)) /\ Other(p) \in Sides
    BY <1>1, StableSignals DEF Steady, Other, Sides
  <2>2. Window(p)'
    BY <1>1, <1>5, <2>1, LongerWindow
  <2> QED BY <1>1, <1>5, <2>1, <2>2 DEF Window
<1>7. \A q \in Sides : Readable(q)'
  BY <1>1 DEF Steady, Readable
<1>8. Steady'
  BY <1>1, <1>2, <1>4, <1>6, <1>7 DEF Steady
<1> QED BY <1>1, <1>4, <1>5, <1>8

\* Gather
LEMMA Gathers ==
    ASSUME TwoSided, Steady, ~over, UndefinedIsNoObject, NEW p \in Sides, Gather(p)
    PROVE  /\ Steady' /\ UNCHANGED <<media, offering, ice, recovery, left>>
           /\ \A q \in Sides : SameCounts(q) /\ SameSignals(q)
<1>1. /\ peer[p] # None /\ peer' = [peer EXCEPT ![p].gathered = Local(p)]
      /\ wire' = wire \/ wire' = Send(wire, p, Message("candidate", Local(p)))
      /\ UNCHANGED <<socket, session, over, chain, offering, media, ice, recovery, notice, left>>
  BY DEF Gather
<1>2. /\ Other(p) \in Sides /\ Other(p) # p /\ Window(p) /\ "signaling" \in DOMAIN peer[p]
      /\ \A q \in Sides : q = p \/ q = Other(p)
  BY <1>1 DEF Steady, Window, Other, Sides
<1>3. /\ peer'[Other(p)] = peer[Other(p)] /\ "signaling" \in DOMAIN peer'[p]
      /\ peer'[p].signaling = peer[p].signaling
  <2>1. /\ peer'[p] = [peer[p] EXCEPT !.gathered = Local(p)]
        /\ peer'[Other(p)] = peer[Other(p)]
    BY <1>1, <1>2 DEF TwoSided
  <2> QED BY <1>2, <2>1
<1>4. peer'[p] # None
  BY <1>3 DEF UndefinedIsNoObject
<1>5. Message("candidate", Local(p)).kind = "candidate" /\ "candidate" \in Relayed
  BY DEF Message, Relayed
<1>6. \A q \in Sides : wire'[q] = wire[q] \/ Readable(q)'
  BY <1>1, <1>5, SentReadable
<1>7. Window(p)'
  BY <1>1, <1>2, <1>3, <1>4 DEF Window
<1>8. Steady'
  BY <1>1, <1>2, <1>3, <1>6, <1>7, SteadyWindow
<1>9. \A q \in Sides : SameSignals(q)
  BY <1>1, <1>2, <1>3, <1>4 DEF SameSignals, Signals
<1>10. \A q \in Sides : SameCounts(q)
  <2>1. CASE wire' = wire
    BY <1>1, <2>1, SameQueuesCount
  <2>2. CASE wire' = Send(wire, p, Message("candidate", Local(p)))
    <3>1. wire'[p] = wire[p] /\ LongerWire(wire[Other(p)], wire'[Other(p)], "candidate")
      BY <1>5, <2>2, Posted
    <3> QED BY <1>1, <3>1, CandidateSent
  <2> QED BY <1>1, <2>1, <2>2
<1> QED BY <1>1, <1>8, <1>9, <1>10

\* RecoveryTimer
LEMMA TimesRecovery ==
    ASSUME TwoSided, Steady, RecoveryInv, RecoveryTimer
    PROVE  /\ Steady' /\ UNCHANGED <<wire, peer, media, ice, left>>
           /\ recovery.timer # "off" /\ recovery'.timer # "now"
           /\ recovery.timer = "now" \/ Settled
           /\ offering'["student"] = offering["student"] /\ chain'["student"] = chain["student"]
           /\ \/ UNCHANGED <<offering, chain>>
              \/ /\ Stable("teacher")
                 /\ offering["teacher"] = None /\ offering'["teacher"] = "restart"
                 /\ LongerChain(chain["teacher"], chain'["teacher"], "createOffer", "restart")
<1>1. /\ recovery.timer = "now" \/ (recovery.timer = "later" /\ Settled)
      /\ UNCHANGED <<socket, session, over, wire, peer, media, pending, ice, notice, left>>
  BY DEF RecoveryTimer
<1>2. recovery \in [timer : Timers, inFlight : BOOLEAN]
  BY DEF RecoveryInv
<1>3. "teacher" \in Sides /\ "student" \in Sides /\ Other("teacher") = "student"
  BY DEF Sides, Other
<1>4. \A q \in Sides : Readable(q)' /\ (q # "teacher" => q = "student")
  BY <1>1 DEF Steady, Readable, Sides
<1>5. CASE Stable("teacher") /\ recovery' = [timer |-> "off", inFlight |-> TRUE]
           /\ Queue("teacher", "restart")
  <2>1. recovery'.timer # "now"
    BY <1>5
  <2>2. /\ chain'["student"] = chain["student"] /\ IsSeq(chain'["teacher"])
        /\ offering'["student"] = offering["student"]
        /\ \/ UNCHANGED <<offering, chain>>
           \/ /\ offering["teacher"] = None /\ offering'["teacher"] = "restart"
              /\ LongerChain(chain["teacher"], chain'["teacher"], "createOffer", "restart")
    BY <1>3, <1>5, Queued
  <2>3. Window("teacher")' /\ Window("student")'
    <3>1. peer["teacher"] # None /\ Window("student") /\ Window("teacher")
      BY <1>3, <1>5, StableSignals DEF Steady
    <3>2. Window("teacher")'
      BY <1>1, <1>3, <2>2, <3>1, LongerWindow DEF Window
    <3> QED BY <1>1, <2>2, <3>1, <3>2 DEF Window
  <2>4. Steady'
    BY <1>1, <1>4, <2>3 DEF Steady, Extra
  <2> QED BY <1>1, <1>5, <2>1, <2>2, <2>4
<1>6. CASE recovery' = [recovery EXCEPT !.timer = "later"] /\ UNCHANGED <<chain, offering>>
  <2>1. recovery'.timer = "later"
    BY <1>2, <1>6
  <2>2. Steady'
    BY <1>1, <1>4, <1>6 DEF Steady, Window, Extra
  <2> QED BY <1>1, <1>6, <2>1, <2>2
<1> QED BY <1>5, <1>6 DEF RecoveryTimer

\* What is read when no socket is lost.
LEMMA HearsRelayed ==
    ASSUME TwoSided, Steady, NEW p \in Sides, Hear(p)
    PROVE  HearOffer(p) \/ HearAnswer(p) \/ HearCandidate(p)
<1>1. SUFFICES ASSUME HearNotice(p) \/ HearEnded(p) PROVE FALSE
  BY DEF Hear
<1>2. /\ wire[p] # <<>> /\ wire' = Rest(p)
      /\ Head(wire[p]).kind \in Notices
  BY <1>1 DEF HearNotice, HearEnded, Hears, Notices
<1>3. Head(wire[p]).kind \in Relayed
  BY <1>2, Got
<1> QED BY <1>2, <1>3 DEF Relayed, Notices

\* HearOffer
LEMMA HearsOffer ==
    ASSUME TwoSided, Steady, UndefinedIsNoObject, NEW p \in Sides, HearOffer(p)
    PROVE  /\ Steady' /\ UNCHANGED <<offering, ice, recovery, left>>
           /\ wire'[Other(p)] = wire[Other(p)] /\ LongerWire(wire'[p], wire[p], "offer")
           /\ chain'[Other(p)] = chain[Other(p)]
           /\ \/ /\ peer[p] # None /\ UNCHANGED <<peer, media>>
                 /\ LongerChain(chain[p], chain'[p], "setRemoteOffer", None)
              \/ /\ peer[p] = None /\ p = "student" /\ NewSignal(p, "stable")
                 /\ media'[p] # None /\ media'[p].stage = "starting"
                 /\ media'[Other(p)] = media[Other(p)] /\ UNCHANGED chain
              \/ peer[p] = None /\ p = "teacher" /\ UNCHANGED <<peer, media, chain>>
<1> DEFINE cred == Head(wire[p]).cred
<1>1. /\ wire[p] # <<>> /\ Head(wire[p]).kind = "offer" /\ wire' = Rest(p)
      /\ UNCHANGED <<socket, session, over, offering, pending, ice, recovery, notice, left>>
  BY DEF HearOffer, Hears
<1>2. /\ wire'[Other(p)] = wire[Other(p)] /\ LongerWire(wire'[p], wire[p], "offer")
      /\ Readable(p)'
  BY <1>1, Got
<1>3. /\ Other(p) \in Sides /\ Other(p) # p /\ Window(p)
      /\ \A q \in Sides : q = p \/ q = Other(p)
  BY DEF Steady, Other, Sides
<1>4. \A q \in Sides : wire'[q] = wire[q] \/ Readable(q)'
  BY <1>2, <1>3
<1>5. CASE peer[p] # None
  <2> DEFINE operation == Operation("setRemoteOffer", None, cred)
  <2>1. Calls(p, operation) /\ UNCHANGED <<peer, media>>
    BY <1>5 DEF HearOffer
  <2>2. operation.op = "setRemoteOffer" /\ operation.as = None
    BY DEF Operation
  <2> HIDE DEF operation
  <2>3. /\ chain'[Other(p)] = chain[Other(p)] /\ IsSeq(chain'[p])
        /\ LongerChain(chain[p], chain'[p], "setRemoteOffer", None)
    BY <2>1, <2>2, Called
  <2>4. Window(p)'
    BY <1>3, <1>5, <2>1, <2>3, LongerWindow DEF Window
  <2>5. Steady'
    BY <1>1, <1>3, <1>4, <2>1, <2>3, <2>4, SteadyWindow
  <2> QED BY <1>1, <1>2, <1>5, <2>1, <2>3, <2>5
<1>6. CASE peer[p] = None /\ p = "student"
  <2> DEFINE starting == [stage |-> "starting", offer |-> cred]
  <2>1. /\ peer' = [peer EXCEPT ![p] = NewPeer] /\ media' = [media EXCEPT ![p] = starting]
        /\ UNCHANGED chain
    BY <1>6 DEF HearOffer
  <2>2. "signaling" \in DOMAIN NewPeer /\ NewPeer.signaling = "stable"
        /\ "stage" \in DOMAIN starting /\ starting.stage = "starting"
    BY DEF NewPeer
  <2>3. NewPeer # None /\ starting # None
    BY <2>2 DEF UndefinedIsNoObject
  <2> HIDE DEF starting
  <2>4. /\ peer'[p] = NewPeer /\ peer'[Other(p)] = peer[Other(p)]
        /\ media'[p] = starting /\ media'[Other(p)] = media[Other(p)]
    BY <1>3, <2>1 DEF TwoSided
  <2>5. Window(p)'
    BY <1>3, <2>1, <2>2, <2>3, <2>4 DEF Window
  <2>6. Steady'
    BY <1>1, <1>3, <1>4, <2>1, <2>4, <2>5, SteadyWindow
  <2> QED BY <1>1, <1>2, <1>6, <2>1, <2>2, <2>3, <2>4, <2>6 DEF NewSignal
<1>7. CASE peer[p] = None /\ p = "teacher"
  <2>1. UNCHANGED <<peer, media, chain>>
    BY <1>7 DEF HearOffer
  <2>2. Window(p)'
    BY <1>3, <2>1 DEF Window
  <2>3. Steady'
    BY <1>1, <1>4, <2>1, <2>2, SteadyWindow
  <2> QED BY <1>1, <1>2, <1>7, <2>1, <2>3
<1> QED BY <1>5, <1>6, <1>7 DEF Sides

\* HearAnswer
LEMMA HearsAnswer ==
    ASSUME TwoSided, Steady, NEW p \in Sides, HearAnswer(p)
    PROVE  /\ Steady' /\ UNCHANGED <<peer, media, offering, ice, recovery, left>>
           /\ wire'[Other(p)] = wire[Other(p)] /\ LongerWire(wire'[p], wire[p], "answer")
           /\ chain'[Other(p)] = chain[Other(p)]
           /\ \/ peer[p] # None /\ LongerChain(chain[p], chain'[p], "setRemoteAnswer", None)
              \/ peer[p] = None /\ UNCHANGED chain
<1> DEFINE operation == Operation("setRemoteAnswer", None, Head(wire[p]).cred)
<1>1. /\ wire[p] # <<>> /\ Head(wire[p]).kind = "answer" /\ wire' = Rest(p)
      /\ UNCHANGED <<socket, session, over, peer, media, offering, pending, ice, recovery, notice, left>>
      /\ IF peer[p] = None THEN UNCHANGED chain ELSE Calls(p, operation)
  BY DEF HearAnswer, Hears
<1>2. /\ wire'[Other(p)] = wire[Other(p)] /\ LongerWire(wire'[p], wire[p], "answer")
      /\ Readable(p)'
  BY <1>1, Got
<1>3. /\ Other(p) \in Sides /\ Other(p) # p /\ Window(p)
      /\ \A q \in Sides : q = p \/ q = Other(p)
  BY DEF Steady, Other, Sides
<1>4. \A q \in Sides : wire'[q] = wire[q] \/ Readable(q)'
  BY <1>2, <1>3
<1>5. operation.op = "setRemoteAnswer" /\ operation.as = None
  BY DEF Operation
<1> HIDE DEF operation
<1>6. CASE peer[p] # None
  <2>1. /\ chain'[Other(p)] = chain[Other(p)] /\ IsSeq(chain'[p])
        /\ LongerChain(chain[p], chain'[p], "setRemoteAnswer", None)
    BY <1>1, <1>5, <1>6, Called
  <2>2. Window(p)'
    BY <1>1, <1>3, <1>6, <2>1, LongerWindow DEF Window
  <2>3. Steady'
    BY <1>1, <1>3, <1>4, <2>1, <2>2, SteadyWindow
  <2> QED BY <1>1, <1>2, <1>6, <2>1, <2>3
<1>7. CASE peer[p] = None
  <2>1. UNCHANGED <<peer, media, chain>>
    BY <1>1, <1>7
  <2>2. Window(p)'
    BY <1>3, <2>1 DEF Window
  <2>3. Steady'
    BY <1>1, <1>4, <2>1, <2>2, SteadyWindow
  <2> QED BY <1>1, <1>2, <1>7, <2>1, <2>3
<1> QED BY <1>6, <1>7

\* HearCandidate
LEMMA HearsCandidate ==
    ASSUME TwoSided, Steady, NEW p \in Sides, HearCandidate(p)
    PROVE  /\ Steady' /\ UNCHANGED <<media, offering, ice, recovery, left>>
           /\ \A q \in Sides : SameCounts(q) /\ SameSignals(q)
<1> DEFINE operation == Operation("addCandidate", None, Head(wire[p]).cred)
<1>1. /\ wire[p] # <<>> /\ Head(wire[p]).kind = "candidate" /\ wire' = Rest(p)
      /\ UNCHANGED <<socket, session, over, peer, media, offering, ice, recovery, notice, left>>
      /\ UNCHANGED chain \/ (peer[p] # None /\ Calls(p, operation))
  BY DEF HearCandidate, Hears
<1>2. /\ wire'[Other(p)] = wire[Other(p)] /\ LongerWire(wire'[p], wire[p], "candidate")
      /\ Readable(p)'
  BY <1>1, Got
<1>3. /\ Other(p) \in Sides /\ Other(p) # p /\ Window(p)
      /\ \A q \in Sides : q = p \/ q = Other(p)
  BY DEF Steady, Other, Sides
<1>4. \A q \in Sides : wire'[q] = wire[q] \/ Readable(q)'
  BY <1>2, <1>3
<1>5. operation.op = "addCandidate" /\ operation.as = None
  BY DEF Operation
<1> HIDE DEF operation
<1>6. \A q \in Sides : SameSignals(q)
  BY <1>1, SamePeerSignals
<1>7. CASE UNCHANGED chain
  <2>1. Window(p)'
    BY <1>1, <1>3, <1>7 DEF Window
  <2>2. Steady'
    BY <1>1, <1>4, <1>7, <2>1, SteadyWindow
  <2> QED BY <1>1, <1>2, <1>6, <1>7, <2>2, CandidateHeard
<1>8. CASE peer[p] # None /\ Calls(p, operation)
  <2>1. /\ chain'[Other(p)] = chain[Other(p)] /\ IsSeq(chain'[p])
        /\ LongerChain(chain[p], chain'[p], "addCandidate", None)
    BY <1>5, <1>8, Called
  <2>2. Window(p)'
    BY <1>1, <1>3, <1>8, <2>1, LongerWindow DEF Window
  <2>3. Steady'
    BY <1>1, <1>3, <1>4, <2>1, <2>2, SteadyWindow
  <2> QED BY <1>1, <1>2, <1>6, <2>1, <2>3, CandidateHeard
<1> QED BY <1>1, <1>7, <1>8

-----------------------------------------------------------------------------
(* From one offer of each side at a time.                                   *)

\* An operation of a connection.
LEMMA ExecutedSingle ==
    ASSUME TwoSided, Steady, ~over, Single, RecoveryInv, UndefinedIsNoObject, NEW p \in Sides,
           Execute(p)
    PROVE  Steady' /\ Single'
<1>1. CASE CreateOffer(p)
  <2>1. /\ chain[p] # <<>> /\ Head(chain[p]).op = "createOffer"
        /\ Steady' /\ UNCHANGED <<wire, left>>
        /\ \/ /\ Signals(p, "remote")
              /\ Head(chain[p]).as \notin {"first", "sync"} => Finish(p) /\ UNCHANGED <<peer, ice>>
           \/ /\ ~Signals(p, "remote")
              /\ chain'[Other(p)] = chain[Other(p)]
              /\ LongerChain(Tail(chain[p]), chain[p], "createOffer", Head(chain[p]).as)
              /\ LongerChain(Tail(chain[p]), chain'[p], "setLocalOffer", Head(chain[p]).as)
              /\ UNCHANGED <<peer, offering, media, ice, recovery>>
    BY <1>1, CreatesOffer
  <2>2. Head(chain[p]).op \in Making
    BY <2>1 DEF Making
  <2>3. CASE Signals(p, "remote")
    BY <2>1, <2>2, <2>3, DroppedSingle
  <2>4. CASE ~Signals(p, "remote")
    <3>1. \A q \in Sides : SameCounts(q)
      BY <2>1, <2>4, TurnSame
    <3>2. \A q \in Sides : SameSignals(q)
      BY <2>1, <2>4, SamePeerSignals
    <3> QED BY <2>1, <2>4, <3>1, <3>2, SameSingle
  <2> QED BY <2>3, <2>4
<1>2. CASE SetLocalOffer(p)
  <2>1. /\ chain[p] # <<>> /\ Head(chain[p]).op = "setLocalOffer" /\ UNCHANGED left
        /\ Steady'
        /\ \/ /\ Signals(p, "remote") /\ UNCHANGED wire
              /\ Head(chain[p]).as \notin {"first", "sync"} => Finish(p) /\ UNCHANGED <<peer, ice>>
           \/ /\ ~Signals(p, "remote") /\ NewSignal(p, "local") /\ UNCHANGED ice
              /\ wire'[p] = wire[p]
              /\ LongerWire(wire[Other(p)], wire'[Other(p)], "offer")
              /\ \/ /\ Head(chain[p]).as = "first"
                    /\ chain'[Other(p)] = chain[Other(p)]
                    /\ LongerChain(chain'[p], chain[p], "setLocalOffer", "first")
                    /\ UNCHANGED <<offering, media, recovery>>
                 \/ Head(chain[p]).as # "first" /\ Finish(p)
    BY <1>2, SetsLocalOffer
  <2>2. Head(chain[p]).op \in Making
    BY <2>1 DEF Making
  <2>3. CASE Signals(p, "remote")
    BY <2>1, <2>2, <2>3, DroppedSingle
  <2>4. CASE ~Signals(p, "remote")
    BY <2>1, <2>4, SentSingle
  <2> QED BY <2>1, <2>3, <2>4
<1>3. CASE SetRemoteOffer(p)
  BY <1>3, SetsRemoteOffer, AppliedSingle
<1>4. ASSUME chain[p] # <<>>, Head(chain[p]).op \in Replies PROVE Signals(p, "remote")
  <2>1. Replying(p)
    BY <1>4, HeadCounts
  <2> QED BY <2>1 DEF Single, Settling, Sides
<1>5. CASE CreateAnswer(p)
  <2>1. chain[p] # <<>> /\ Head(chain[p]).op = "createAnswer" /\ Steady' /\ UNCHANGED <<wire, left>>
    BY <1>5, CreatesAnswer
  <2>2. Signals(p, "remote")
    BY <1>4, <2>1 DEF Replies
  <2>3. /\ chain'[Other(p)] = chain[Other(p)]
        /\ LongerChain(Tail(chain[p]), chain[p], "createAnswer", Head(chain[p]).as)
        /\ LongerChain(Tail(chain[p]), chain'[p], "setLocalAnswer", None)
        /\ UNCHANGED <<peer, offering, media, ice, recovery>>
    BY <1>5, <2>2, CreatesAnswer
  <2>4. \A q \in Sides : SameCounts(q)
    BY <2>1, <2>3, TurnSame
  <2>5. \A q \in Sides : SameSignals(q)
    BY <2>3, SamePeerSignals
  <2> QED BY <2>1, <2>3, <2>4, <2>5, SameSingle
<1>6. CASE SetLocalAnswer(p)
  <2>1. chain[p] # <<>> /\ Head(chain[p]).op = "setLocalAnswer" /\ Steady' /\ UNCHANGED left
    BY <1>6, SetsLocalAnswer
  <2>2. Signals(p, "remote")
    BY <1>4, <2>1 DEF Replies
  <2>3. /\ NewSignal(p, "stable") /\ wire'[p] = wire[p]
        /\ LongerWire(wire[Other(p)], wire'[Other(p)], "answer")
        /\ chain'[Other(p)] = chain[Other(p)]
        /\ LongerChain(chain'[p], chain[p], "setLocalAnswer", Head(chain[p]).as)
        /\ UNCHANGED <<offering, media, recovery>>
        /\ p = "student" => UNCHANGED ice
    BY <1>6, <2>2, SetsLocalAnswer
  <2> QED BY <2>1, <2>2, <2>3, AnsweredSingle
<1>7. CASE SetRemoteAnswer(p)
  BY <1>7, SetsRemoteAnswer, TakenSingle
<1>8. CASE AddCandidate(p)
  <2>1. /\ Steady' /\ UNCHANGED <<wire, offering, media, ice, recovery, left>>
        /\ chain'[Other(p)] = chain[Other(p)]
        /\ LongerChain(chain'[p], chain[p], "addCandidate", Head(chain[p]).as)
        /\ \A q \in Sides : SameSignals(q)
    BY <1>8, AddsCandidate DEF SameSignals
  <2> QED BY <2>1, CandidateDone, SameSingle
<1> QED BY <1>1, <1>2, <1>3, <1>5, <1>6, <1>7, <1>8 DEF Execute

\* The professor's window makes its connection.
LEMMA StartedSingle ==
    ASSUME TwoSided, Steady, Single, UndefinedIsNoObject, StartTeacherWebRtc
    PROVE  Steady' /\ Single'
<1>1. /\ Steady' /\ peer["teacher"] = None /\ NewSignal("teacher", "stable")
      /\ media'["teacher"] # None /\ media'["teacher"].stage = "starting"
      /\ media'["student"] = media["student"]
      /\ UNCHANGED <<wire, chain, offering, ice, recovery, left>>
  BY StartsTeacher
<1>2. Blank /\ chain["teacher"] = <<>>
  BY <1>1 DEF Single, Steady, Window, Sides
<1>3. /\ ~Signals("teacher", "local")' /\ ~Signals("teacher", "remote")' /\ peer'["teacher"] # None
      /\ SameSignals("student") /\ SameCounts("teacher") /\ SameCounts("student")
  <2>1. SameSignals("student") /\ SameCounts("teacher") /\ SameCounts("student")
    BY <1>1, SameQueuesCount, SamePeerSignals DEF NewSignal, Other
  <2> QED BY <1>1, <2>1 DEF NewSignal, Signals
<1>4. /\ (Parked("teacher")' <=> Parked("teacher")) /\ (Parked("student")' <=> Parked("student"))
      /\ ~Offers("teacher") /\ ~Replying("teacher") /\ Purposes(chain["teacher"]) = {}
  <2>1. ~Offers("teacher") /\ ~Replying("teacher")
    BY <1>2, Counted DEF Offers, Replying
  <2> QED BY <1>1, <2>1, Counts DEF Parked
<1>5. Blank'
  BY <1>1, <1>2, <1>3, <1>4 DEF Blank, Pipe, Returning, SameCounts, SameSignals
<1>6. Settling("teacher")' /\ Settling("student")'
  BY <1>2, <1>3, <1>4
     DEF Single, Settling, OneAt, Pipe, Returning, Blank, Other, SameCounts, SameSignals
<1>7. More' => OneBack("teacher")' /\ ~Returning("teacher")' /\ ~Pipe("student")'
  BY <1>1, <1>2, <1>3, <1>4 DEF Single, OneBack, Pipe, Returning, Extra, More, Blank, SameCounts
<1>8. /\ ~Pipe("student")' /\ ~Pipe("teacher")' /\ ~Offers("teacher")' /\ recovery'.timer # "now"
      /\ Extra' > 0 => ~Offers("student")'
  BY <1>1, <1>2, <1>3, <1>4, <1>5
     DEF Single, Pipe, Returning, Extra, Blank, NoRecovery, SameCounts
<1>9. UNCHANGED <<chain, offering, ice, recovery>>
  BY <1>1
<1> QED BY <1>1, <1>3, <1>4, <1>5, <1>6, <1>7, <1>8, <1>9 DEF Single, More

\* Camera and microphone are on.
LEMMA ReadiedSingle ==
    ASSUME TwoSided, Steady, Single, UndefinedIsNoObject, NEW p \in Sides, MediaReady(p)
    PROVE  Steady' /\ (Single' \/ Twin')
<1>1. /\ Steady' /\ media[p] # None /\ media[p].stage = "starting"
      /\ media'[Other(p)] = media[Other(p)]
      /\ offering'[Other(p)] = offering[Other(p)]
      /\ chain'[Other(p)] = chain[Other(p)]
      /\ UNCHANGED <<wire, peer, ice, recovery>>
  BY ReadiesMedia
<1>2. \/ /\ media'[p] = None /\ UNCHANGED <<offering, left>>
         /\ p = "teacher" => LongerChain(chain[p], chain'[p], "createOffer", "first")
         /\ p = "student" => LongerChain(chain[p], chain'[p], "setRemoteOffer", None)
      \/ /\ Stable(p) /\ Extra = 1 /\ Extra' = 0
         /\ media'[p] # None /\ media'[p].stage = "syncing"
         /\ \/ offering[p] # None /\ UNCHANGED <<offering, chain>>
            \/ /\ offering[p] = None /\ offering'[p] = "sync"
               /\ LongerChain(chain[p], chain'[p], "createOffer", "sync")
  BY ReadiesMedia
<1>3. SameSignals("teacher") /\ SameSignals("student") /\ peer' = peer
  BY <1>1, SamePeerSignals
<1>4. /\ "createOffer" \in Making /\ "createOffer" \notin Answering
      /\ "createOffer" \notin Replies /\ "createOffer" \notin Accepting
      /\ "setRemoteOffer" \notin Making /\ "setRemoteOffer" \in Answering
      /\ "setRemoteOffer" \notin Replies /\ "setRemoteOffer" \notin Accepting
  BY OperationKinds DEF OfKind
<1>5. CASE p = "teacher"
  <2>1. /\ Blank /\ ~Offers("teacher") /\ SameCounts("student")
        /\ (Parked("teacher")' <=> Parked("teacher")) /\ (Parked("student")' <=> Parked("student"))
    BY <1>1, <1>5, SameQueuesCount DEF Single, Parked, Other
  <2>2. Purposes(chain["teacher"]) = {} /\ offering["teacher"] = None /\ ~OffersTwice("teacher")
    BY <2>1, Counts DEF Single
  <2>3. ASSUME NEW as, LongerChain(chain["teacher"], chain'["teacher"], "createOffer", as)
        PROVE  /\ Offers("teacher")' /\ ~OffersTwice("teacher")' /\ ~OffersThrice("teacher")'
               /\ Purposes(chain'["teacher"]) = {as}
               /\ (Handling("teacher")' <=> Handling("teacher"))
               /\ (HandlingTwice("teacher")' <=> HandlingTwice("teacher"))
               /\ (Replying("teacher")' <=> Replying("teacher"))
               /\ (Taking("teacher")' <=> Taking("teacher"))
               /\ (TakingTwice("teacher")' <=> TakingTwice("teacher"))
    <3>1. ~OffersThrice("teacher")
      BY <2>2, Counts
    <3>2. Purposes(chain'["teacher"]) = Purposes(chain["teacher"]) \cup {as}
      BY <1>4, <2>3 DEF LongerChain
    <3>3. Offers("teacher")' /\ ~OffersTwice("teacher")' /\ ~OffersThrice("teacher")'
      BY <1>4, <2>1, <2>2, <2>3, <3>1, MoreCounts
    <3>4. /\ (Handling("teacher")' <=> Handling("teacher"))
          /\ (HandlingTwice("teacher")' <=> HandlingTwice("teacher"))
          /\ (Replying("teacher")' <=> Replying("teacher"))
          /\ (Taking("teacher")' <=> Taking("teacher"))
          /\ (TakingTwice("teacher")' <=> TakingTwice("teacher"))
      BY <1>4, <2>3, MoreCounts
    <3> QED BY <2>2, <3>2, <3>3, <3>4
  <2>4. CASE /\ media'["teacher"] = None /\ UNCHANGED <<offering, left>>
             /\ LongerChain(chain["teacher"], chain'["teacher"], "createOffer", "first")
    <3>1. Single'
      BY <1>1, <1>3, <2>1, <2>2, <2>3, <2>4, SameQueues
         DEF Single, Settling, OneAt, OneBack, Pipe, Returning, Extra, More, Blank, Other,
             SameCounts, SameSignals
    <3> QED BY <1>1, <3>1
  <2>5. CASE /\ Extra = 1 /\ Extra' = 0
             /\ media'["teacher"] # None /\ media'["teacher"].stage = "syncing"
             /\ LongerChain(chain["teacher"], chain'["teacher"], "createOffer", "sync")
    <3>1. peer["teacher"] # None
      BY <1>1, <1>5 DEF Steady, Window, Sides
    <3>2. Twin'
      BY <1>1, <1>3, <2>1, <2>2, <2>3, <2>5, <3>1, SameQueues, Counts
         DEF Single, Twin, Settling, OneAt, Pipe, Returning, Blank, Other, Signals,
             SameCounts, SameSignals
    <3> QED BY <1>1, <3>2
  <2> QED BY <1>2, <1>5, <2>2, <2>4, <2>5
<1>6. CASE p = "student"
  <2>1. /\ Parked("student") /\ SameCounts("teacher") /\ ~Parked("teacher") /\ ~Parked("teacher")'
        /\ ~Handling("student") /\ ~Coming("student") /\ ~HandlingTwice("student")
        /\ "sync" \notin Purposes(chain["student"])
        /\ ~Blank /\ peer["teacher"] # None /\ media["teacher"] = None
        /\ "first" \notin Purposes(chain["teacher"])
    <3>1. Parked("student") /\ ~Parked("teacher") /\ ~Parked("teacher")' /\ SameCounts("teacher")
      BY <1>1, <1>6, SameQueuesCount DEF Parked, Other
    <3>2. ~Handling("student") /\ ~Coming("student") /\ ~HandlingTwice("student")
          /\ "sync" \notin Purposes(chain["student"])
      BY <1>1, <1>6, <3>1 DEF Single, Settling, OneAt
    <3>3. ~Blank
      BY <3>1 DEF Blank, Pipe
    <3> QED BY <3>1, <3>2, <3>3 DEF Single
  <2>2. CASE /\ media'["student"] = None /\ UNCHANGED <<offering, left>>
             /\ LongerChain(chain["student"], chain'["student"], "setRemoteOffer", None)
    <3>1. /\ Handling("student")' /\ ~HandlingTwice("student")' /\ ~Parked("student")'
          /\ (Offers("student")' <=> Offers("student"))
          /\ (OffersTwice("student")' <=> OffersTwice("student"))
          /\ (Replying("student")' <=> Replying("student"))
          /\ (Taking("student")' <=> Taking("student"))
          /\ (TakingTwice("student")' <=> TakingTwice("student"))
          /\ Purposes(chain'["student"]) = Purposes(chain["student"])
      <4>1. Purposes(chain'["student"]) = Purposes(chain["student"])
        BY <1>4, <2>2 DEF LongerChain
      <4>2. Handling("student")' /\ ~HandlingTwice("student")' /\ ~Parked("student")'
        BY <1>4, <2>1, <2>2, MoreCounts DEF Parked
      <4>3. /\ (Offers("student")' <=> Offers("student"))
            /\ (OffersTwice("student")' <=> OffersTwice("student"))
            /\ (Replying("student")' <=> Replying("student"))
            /\ (Taking("student")' <=> Taking("student"))
            /\ (TakingTwice("student")' <=> TakingTwice("student"))
        BY <1>4, <2>2, MoreCounts
      <4> QED BY <4>1, <4>2, <4>3
    <3>2. Single'
      BY <1>1, <1>3, <1>6, <2>1, <2>2, <3>1, SameQueues
         DEF Single, Settling, OneAt, OneBack, Pipe, Returning, Extra, More, Other,
             SameCounts, SameSignals
    <3> QED BY <1>1, <3>2
  <2>3. CASE /\ Extra = 1 /\ Extra' = 0 /\ Stable("student")
             /\ media'["student"] # None /\ media'["student"].stage = "syncing"
             /\ \/ offering["student"] # None /\ UNCHANGED <<offering, chain>>
                \/ LongerChain(chain["student"], chain'["student"], "createOffer", "sync")
    <3>1. ~Offers("student") /\ ~Pipe("teacher") /\ recovery.timer # "now"
      BY <2>1, <2>3 DEF Single, Pipe
    <3>2. ~OffersTwice("student") /\ Purposes(chain["student"]) = {}
      BY <3>1, Counts
    <3>3. /\ ~OffersTwice("student")' /\ Purposes(chain'["student"]) \subseteq {"sync"}
          /\ (Handling("student")' <=> Handling("student"))
          /\ (HandlingTwice("student")' <=> HandlingTwice("student"))
          /\ (Replying("student")' <=> Replying("student"))
          /\ (Taking("student")' <=> Taking("student"))
          /\ (TakingTwice("student")' <=> TakingTwice("student"))
      <4>1. CASE UNCHANGED chain
        BY <3>2, <4>1, SameQueues
      <4>2. CASE LongerChain(chain["student"], chain'["student"], "createOffer", "sync")
        BY <1>4, <3>1, <3>2, <4>2, MoreCounts
      <4> QED BY <2>3, <4>1, <4>2
    <3>4. Parked("student")' /\ offering'["teacher"] = offering["teacher"]
      BY <1>1, <1>6, <2>3 DEF Parked, Other
    <3>5. Single'
      BY <1>1, <1>3, <1>6, <2>1, <2>3, <3>1, <3>3, <3>4, SameQueues
         DEF Single, Settling, OneAt, OneBack, Pipe, Returning, More, Other,
             SameCounts, SameSignals
    <3> QED BY <1>1, <3>5
  <2> QED BY <1>2, <1>6, <2>2, <2>3
<1> QED BY <1>5, <1>6 DEF Sides

\* A device or the shared screen changes.
LEMMA ChangedSingle ==
    ASSUME TwoSided, Steady, Single, NEW p \in Sides, Change(p)
    PROVE  Steady' /\ (Single' \/ Twin')
<1>1. /\ Steady' /\ Stable(p) /\ media[p] = None /\ Extra = 1 /\ Extra' = 0
      /\ UNCHANGED <<wire, peer, media, ice, recovery>>
      /\ offering'[Other(p)] = offering[Other(p)]
      /\ chain'[Other(p)] = chain[Other(p)]
      /\ \/ offering[p] # None /\ UNCHANGED <<offering, chain>>
         \/ /\ offering[p] = None /\ offering'[p] = "change"
            /\ LongerChain(chain[p], chain'[p], "createOffer", "change")
  BY Changes
<1>2. /\ SameSignals("teacher") /\ SameSignals("student")
      /\ (Parked("teacher")' <=> Parked("teacher")) /\ (Parked("student")' <=> Parked("student"))
      /\ SameCounts(Other(p))
  BY <1>1, SamePeerSignals, SameQueuesCount, SameParked
<1>3. /\ ~Offers("student") /\ ~Pipe("teacher")
      /\ peer[p] # None /\ ~Signals(p, "local") /\ ~Signals(p, "remote")
  BY <1>1, StableSignals DEF Single
<1>4. CASE UNCHANGED <<offering, chain>>
  <2>1. SameCounts("teacher") /\ SameCounts("student")
    BY <1>1, <1>4, SameQueuesCount
  <2>2. Single'
    BY <1>1, <1>2, <1>4, <2>1
       DEF Single, Settling, OneAt, OneBack, Pipe, Returning, More, Blank, Other,
           SameCounts, SameSignals
  <2> QED BY <1>1, <2>2
<1>5. CASE /\ offering[p] = None /\ offering'[p] = "change"
           /\ LongerChain(chain[p], chain'[p], "createOffer", "change")
  <2>1. /\ Offers(p)' /\ (OffersTwice(p)' <=> OffersTwice(p) \/ Offers(p))
        /\ (OffersThrice(p)' <=> OffersThrice(p) \/ OffersTwice(p))
        /\ (Handling(p)' <=> Handling(p)) /\ (HandlingTwice(p)' <=> HandlingTwice(p))
        /\ (Replying(p)' <=> Replying(p))
        /\ (Taking(p)' <=> Taking(p)) /\ (TakingTwice(p)' <=> TakingTwice(p))
    <3>1. /\ "createOffer" \in Making /\ "createOffer" \notin Answering
          /\ "createOffer" \notin Replies /\ "createOffer" \notin Accepting
      BY OperationKinds DEF OfKind
    <3>2. /\ Offers(p)' /\ (OffersTwice(p)' <=> OffersTwice(p) \/ Offers(p))
          /\ (OffersThrice(p)' <=> OffersThrice(p) \/ OffersTwice(p))
      BY <1>5, <3>1, MoreCounts
    <3> QED BY <1>5, <3>1, <3>2, MoreCounts
  <2>2. Purposes(chain'[p]) = Purposes(chain[p]) \cup {"change"}
    BY <1>5, OperationKinds DEF OfKind, LongerChain
  <2>3. ~OffersTwice(p) /\ ~OffersThrice(p)
    BY Counts DEF Single, Settling, Sides
  <2>4. /\ (Coming(p)' <=> Coming(p)) /\ (ComingTwice(p)' <=> ComingTwice(p))
        /\ (Back(p)' <=> Back(p)) /\ (BackTwice(p)' <=> BackTwice(p))
    BY <1>1, SameQueues
  <2>5. CASE p = "teacher"
    <3>1. SameCounts("student") /\ Purposes(chain["teacher"]) \subseteq {"first"}
      BY <1>2, <1>5, <2>5 DEF Single, Other
    <3>2. CASE Offers("teacher")
      <4>1. Blank
        BY <3>1, <3>2, Counts DEF Single
      <4>2. Twin'
        BY <1>1, <1>2, <1>3, <2>1, <2>3, <2>4, <2>5, <3>1, <3>2, <4>1, Counts
           DEF Twin, Single, Settling, OneAt, Pipe, Returning, Blank, Other, Signals,
               SameCounts, SameSignals
      <4> QED BY <1>1, <4>2
    <3>3. CASE ~Offers("teacher")
      <4>1. Purposes(chain'["teacher"]) = {"change"}
        BY <2>2, <2>5, <3>3, Counts
      <4>2. ~Pipe("student") /\ ~Returning("teacher")
        BY <1>1, <1>3, <2>5 DEF Single, More
      <4>3. /\ ~Pipe("student")' /\ ~Returning("teacher")' /\ ~Pipe("teacher")' /\ ~Offers("student")'
            /\ ~Signals("teacher", "local")'
        BY <1>2, <1>3, <2>1, <2>4, <2>5, <3>1, <4>2 DEF Pipe, Returning, SameCounts, SameSignals
      <4>4. Settling("teacher")' /\ Settling("student")'
        BY <1>2, <1>3, <2>1, <2>3, <2>4, <2>5, <3>1, <3>3, <4>3
           DEF Single, Settling, OneAt, Other, Pipe, Returning, SameCounts, SameSignals
      <4>5. media'["teacher"] = None /\ peer'["teacher"] # None /\ "first" \notin Purposes(chain'["teacher"])
            /\ offering'["teacher"] # None
        BY <1>1, <1>3, <1>5, <2>5, <4>1, NegotiationAssumption DEF Reasons
      <4>6. More' => OneBack("teacher")'
        BY <1>1, <2>1, <2>4, <2>5 DEF Single, More, OneBack
      <4>7. Purposes(chain'["student"]) = {}
        BY <1>3, <3>1, Counts DEF SameCounts
      <4>8. Single'
        BY <1>1, <4>1, <4>3, <4>4, <4>5, <4>6, <4>7 DEF Single
      <4> QED BY <1>1, <4>8
    <3> QED BY <3>2, <3>3
  <2>6. CASE p = "student"
    <3>1. SameCounts("teacher") /\ Purposes(chain["student"]) = {} /\ offering'["teacher"] = offering["teacher"]
      BY <1>1, <1>2, <1>3, <2>6, Counts DEF Other
    <3>2. ~Blank /\ recovery.timer = recovery'.timer /\ ~Pipe("student")' = ~Pipe("student")
      BY <1>1, <1>2, <1>3, <2>1, <2>4, <2>6 DEF Blank, Pipe
    <3>3. Single'
      BY <1>1, <1>2, <1>3, <2>1, <2>2, <2>3, <2>4, <2>6, <3>1, <3>2
         DEF Single, Settling, OneAt, OneBack, Pipe, Returning, More, Other, SameCounts, SameSignals
    <3> QED BY <1>1, <3>3
  <2> QED BY <2>5, <2>6 DEF Sides
<1> QED BY <1>1, <1>4, <1>5

\* The recovery's timer.
LEMMA TimedSingle ==
    ASSUME TwoSided, Steady, Single, RecoveryInv, RecoveryTimer
    PROVE  Steady' /\ Single'
<1>1. /\ Steady' /\ UNCHANGED <<wire, peer, media, ice, left>>
      /\ recovery.timer # "off" /\ recovery'.timer # "now"
      /\ recovery.timer = "now" \/ Settled
      /\ offering'["student"] = offering["student"] /\ chain'["student"] = chain["student"]
      /\ \/ UNCHANGED <<offering, chain>>
         \/ /\ Stable("teacher")
            /\ offering["teacher"] = None /\ offering'["teacher"] = "restart"
            /\ LongerChain(chain["teacher"], chain'["teacher"], "createOffer", "restart")
  BY TimesRecovery
<1>2. /\ SameSignals("teacher") /\ SameSignals("student")
      /\ (Parked("teacher")' <=> Parked("teacher")) /\ (Parked("student")' <=> Parked("student"))
      /\ SameCounts("student")
  BY <1>1, SamePeerSignals, SameQueuesCount, SameParked
<1>3. ~Blank
  BY <1>1 DEF Blank, NoRecovery
<1>4. peer["teacher"] # None /\ media["teacher"] = None /\ "first" \notin Purposes(chain["teacher"])
  BY <1>3 DEF Single
<1>5. CASE UNCHANGED <<offering, chain>>
  <2>1. SameCounts("teacher")
    BY <1>1, <1>5, SameQueuesCount
  <2> QED BY <1>1, <1>2, <1>4, <1>5, <2>1
          DEF Single, Settling, OneAt, OneBack, Pipe, Returning, Extra, More, Other,
              SameCounts, SameSignals
<1>6. CASE /\ Stable("teacher")
           /\ offering["teacher"] = None /\ offering'["teacher"] = "restart"
           /\ LongerChain(chain["teacher"], chain'["teacher"], "createOffer", "restart")
  <2>1. /\ Purposes(chain["teacher"]) = {} /\ ~Offers("teacher") /\ ~OffersTwice("teacher")
    <3>1. Purposes(chain["teacher"]) = {}
      BY <1>4, <1>6 DEF Single
    <3> QED BY <3>1, Counts
  <2>2. /\ Offers("teacher")' /\ ~OffersTwice("teacher")'
        /\ (Handling("teacher")' <=> Handling("teacher"))
        /\ (HandlingTwice("teacher")' <=> HandlingTwice("teacher"))
        /\ (Replying("teacher")' <=> Replying("teacher"))
        /\ (Taking("teacher")' <=> Taking("teacher"))
        /\ (TakingTwice("teacher")' <=> TakingTwice("teacher"))
    <3>1. /\ "createOffer" \in Making /\ "createOffer" \notin Answering
          /\ "createOffer" \notin Replies /\ "createOffer" \notin Accepting
      BY OperationKinds DEF OfKind
    <3>2. Offers("teacher")' /\ ~OffersTwice("teacher")'
      BY <1>6, <2>1, <3>1, MoreCounts
    <3> QED BY <1>6, <3>1, <3>2, MoreCounts
  <2>3. Purposes(chain'["teacher"]) = {"restart"}
    BY <1>6, <2>1, OperationKinds DEF OfKind, LongerChain
  <2>4. /\ (Coming("teacher")' <=> Coming("teacher"))
        /\ (ComingTwice("teacher")' <=> ComingTwice("teacher"))
        /\ (Back("teacher")' <=> Back("teacher")) /\ (BackTwice("teacher")' <=> BackTwice("teacher"))
    BY <1>1, SameQueues
  <2>5. ~Pipe("student") /\ ~Returning("teacher") /\ ~Signals("teacher", "local")
    <3>1. ~Signals("teacher", "local")
      BY <1>6, StableSignals
    <3>2. CASE recovery.timer = "now"
      BY <3>1, <3>2 DEF Single, More
    <3>3. CASE Settled
      BY <3>1, <3>3, Counted DEF Settled, Pipe, Returning, Coming, Parked, Handling, Back, Taking, Sides
    <3> QED BY <1>1, <3>1, <3>2, <3>3
  <2>6. /\ ~Pipe("student")' /\ ~Returning("teacher")' /\ ~Signals("teacher", "local")'
    BY <1>2, <2>2, <2>4, <2>5 DEF Pipe, Returning, SameCounts, SameSignals
  <2>7. Settling("teacher")' /\ Settling("student")'
    BY <1>2, <2>2, <2>4, <2>6
       DEF Single, Settling, OneAt, Other, Pipe, Returning, SameCounts, SameSignals
  <2>8. /\ offering'["teacher"] # None /\ "first" \notin Purposes(chain'["teacher"])
        /\ ~(Purposes(chain'["teacher"]) \subseteq {"first"})
    BY <1>6, <2>3, NegotiationAssumption DEF Reasons
  <2>9. More' => OneBack("teacher")'
    BY <1>1, <2>2, <2>4 DEF Single, More, OneBack, Extra
  <2>10. Extra' > 0 => ~Offers("student")' /\ ~Pipe("teacher")'
    BY <1>1, <1>2, <2>2, <2>4 DEF Single, Extra, Pipe, SameCounts
  <2>11. /\ Purposes(chain'["student"]) \subseteq {"sync", "change"}
         /\ "sync" \in Purposes(chain'["student"]) =>
               media'["student"] # None /\ media'["student"].stage = "syncing"
    BY <1>1, <1>2 DEF Single, SameCounts
  <2> QED BY <1>1, <1>4, <2>3, <2>6, <2>7, <2>8, <2>9, <2>10, <2>11 DEF Single
<1> QED BY <1>1, <1>5, <1>6

\* An offer is heard.
LEMMA HeardOfferSingle ==
    ASSUME TwoSided, Steady, Single, UndefinedIsNoObject, NEW p \in Sides, HearOffer(p)
    PROVE  Steady' /\ Single'
<1>1. /\ Steady' /\ UNCHANGED <<offering, ice, recovery, left>>
      /\ wire'[Other(p)] = wire[Other(p)] /\ LongerWire(wire'[p], wire[p], "offer")
      /\ chain'[Other(p)] = chain[Other(p)]
      /\ \/ /\ peer[p] # None /\ UNCHANGED <<peer, media>>
            /\ LongerChain(chain[p], chain'[p], "setRemoteOffer", None)
         \/ /\ peer[p] = None /\ p = "student" /\ NewSignal(p, "stable")
            /\ media'[p] # None /\ media'[p].stage = "starting"
            /\ media'[Other(p)] = media[Other(p)] /\ UNCHANGED chain
         \/ peer[p] = None /\ p = "teacher" /\ UNCHANGED <<peer, media, chain>>
  BY HearsOffer
<1>2. /\ Coming(p) /\ (Coming(p)' => ComingTwice(p))
      /\ (Back(p)' <=> Back(p)) /\ (BackTwice(p)' <=> BackTwice(p))
  <2>1. "offer" # "answer"
    OBVIOUS
  <2> QED BY <1>1, <2>1, WireCounts
<1>3. /\ ~ComingTwice(p) /\ ~Parked(p) /\ ~Handling(p) /\ ~HandlingTwice(p)
      /\ ~Coming(p)' /\ ~ComingTwice(p)'
  <2>1. ~ComingTwice(p) /\ ~Parked(p) /\ ~Handling(p)
    BY <1>2 DEF Single, Settling, OneAt, Sides
  <2> QED BY <1>2, <2>1, Counts, Counted DEF Coming, ComingTwice
<1>4. ~Blank /\ peer["teacher"] # None /\ media["teacher"] = None
      /\ "first" \notin Purposes(chain["teacher"])
  BY <1>2 DEF Single, Blank, Pipe, Sides
<1>5. SameCounts(Other(p))
  BY <1>1, SameQueuesCount
<1>6. CASE /\ peer[p] # None /\ UNCHANGED <<peer, media>>
           /\ LongerChain(chain[p], chain'[p], "setRemoteOffer", None)
  <2>1. /\ Handling(p)' /\ ~HandlingTwice(p)' /\ (Replying(p)' <=> Replying(p))
        /\ (Offers(p)' <=> Offers(p)) /\ (OffersTwice(p)' <=> OffersTwice(p))
        /\ (Taking(p)' <=> Taking(p)) /\ (TakingTwice(p)' <=> TakingTwice(p))
    <3>1. /\ "setRemoteOffer" \notin Making /\ "setRemoteOffer" \in Answering
          /\ "setRemoteOffer" \notin Replies /\ "setRemoteOffer" \notin Accepting
      BY OperationKinds DEF OfKind
    <3>2. Handling(p)' /\ ~HandlingTwice(p)' /\ (Replying(p)' <=> Replying(p))
      BY <1>3, <1>6, <3>1, MoreCounts
    <3> QED BY <1>6, <3>1, <3>2, MoreCounts
  <2>2. Purposes(chain'[p]) = Purposes(chain[p])
    BY <1>6, OperationKinds DEF OfKind, LongerChain
  <2>3. /\ SameSignals("teacher") /\ SameSignals("student")
        /\ (Parked("teacher")' <=> Parked("teacher")) /\ (Parked("student")' <=> Parked("student"))
    BY <1>6, SamePeerSignals, SameParked
  <2>4. CASE p = "teacher"
    BY <1>1, <1>2, <1>3, <1>4, <1>5, <1>6, <2>1, <2>2, <2>3, <2>4
       DEF Single, Settling, OneAt, OneBack, Pipe, Returning, Extra, More, Other,
           SameCounts, SameSignals
  <2>5. CASE p = "student"
    BY <1>1, <1>2, <1>3, <1>4, <1>5, <1>6, <2>1, <2>2, <2>3, <2>5
       DEF Single, Settling, OneAt, OneBack, Pipe, Returning, Extra, More, Other,
           SameCounts, SameSignals
  <2> QED BY <1>1, <2>4, <2>5 DEF Sides
<1>7. CASE /\ peer[p] = None /\ p = "student" /\ NewSignal(p, "stable")
           /\ media'[p] # None /\ media'[p].stage = "starting"
           /\ media'[Other(p)] = media[Other(p)] /\ UNCHANGED chain
  <2>1. /\ Parked("student")' /\ ~Parked("teacher")' /\ ~Parked("teacher")
        /\ ~Signals("student", "local")' /\ ~Signals("student", "remote")'
        /\ SameSignals("teacher") /\ SameCounts("teacher") /\ media'["teacher"] = media["teacher"]
    BY <1>5, <1>7, SamePeerSignals DEF Parked, NewSignal, Signals, Other
  <2>2. chain["student"] = <<>>
    BY <1>7 DEF Steady, Window
  <2>3. /\ ~Offers("student") /\ ~Replying("student") /\ ~Taking("student")
        /\ ~Handling("student") /\ ~HandlingTwice("student") /\ ~OffersTwice("student")
        /\ Purposes(chain["student"]) = {}
    BY <2>2, Counts, Counted DEF Offers, Replying, Taking, Handling
  <2>4. /\ ~Offers("student")' /\ ~Replying("student")' /\ ~Taking("student")'
        /\ ~Handling("student")' /\ ~HandlingTwice("student")' /\ ~OffersTwice("student")'
        /\ Purposes(chain'["student"]) = {}
    BY <1>7, <2>3, SameQueues
  <2> QED BY <1>1, <1>2, <1>3, <1>4, <1>7, <2>1, <2>4
          DEF Single, Settling, OneAt, OneBack, Pipe, Returning, Extra, More, Other,
              SameCounts, SameSignals
<1>8. ~(peer[p] = None /\ p = "teacher")
  BY <1>4
<1> QED BY <1>1, <1>6, <1>7, <1>8

\* An answer is heard.
LEMMA HeardAnswerSingle ==
    ASSUME TwoSided, Steady, Single, NEW p \in Sides, HearAnswer(p)
    PROVE  Steady' /\ Single'
<1>1. /\ Steady' /\ UNCHANGED <<peer, media, offering, ice, recovery, left>>
      /\ wire'[Other(p)] = wire[Other(p)] /\ LongerWire(wire'[p], wire[p], "answer")
      /\ chain'[Other(p)] = chain[Other(p)]
      /\ \/ peer[p] # None /\ LongerChain(chain[p], chain'[p], "setRemoteAnswer", None)
         \/ peer[p] = None /\ UNCHANGED chain
  BY HearsAnswer
<1>2. /\ Back(p) /\ (BackTwice(p) <=> BackTwice(p)' \/ Back(p)')
      /\ (Coming(p)' <=> Coming(p)) /\ (ComingTwice(p)' <=> ComingTwice(p))
  <2>1. "offer" # "answer"
    OBVIOUS
  <2> QED BY <1>1, <2>1, WireCounts
<1>3. ~Blank /\ peer["teacher"] # None /\ media["teacher"] = None
      /\ "first" \notin Purposes(chain["teacher"])
  BY <1>2 DEF Single, Blank, Returning, Sides
<1>4. /\ SameCounts(Other(p)) /\ SameSignals("teacher") /\ SameSignals("student")
      /\ (Parked("teacher")' <=> Parked("teacher")) /\ (Parked("student")' <=> Parked("student"))
  BY <1>1, SameQueuesCount, SamePeerSignals, SameParked
<1>5. CASE peer[p] # None /\ LongerChain(chain[p], chain'[p], "setRemoteAnswer", None)
  <2>1. /\ (Handling(p)' <=> Handling(p)) /\ (HandlingTwice(p)' <=> HandlingTwice(p))
        /\ (Replying(p)' <=> Replying(p))
        /\ (Offers(p)' <=> Offers(p)) /\ (OffersTwice(p)' <=> OffersTwice(p))
        /\ Taking(p)' /\ (TakingTwice(p)' <=> TakingTwice(p) \/ Taking(p))
    <3>1. /\ "setRemoteAnswer" \notin Making /\ "setRemoteAnswer" \notin Answering
          /\ "setRemoteAnswer" \notin Replies /\ "setRemoteAnswer" \in Accepting
      BY OperationKinds DEF OfKind
    <3>2. Taking(p)' /\ (TakingTwice(p)' <=> TakingTwice(p) \/ Taking(p))
      BY <1>5, <3>1, MoreCounts
    <3> QED BY <1>5, <3>1, <3>2, MoreCounts
  <2>2. Purposes(chain'[p]) = Purposes(chain[p])
    BY <1>5, OperationKinds DEF OfKind, LongerChain
  <2>3. CASE p = "teacher"
    <3>1. OneBack("teacher") => OneBack("teacher")'
      BY <1>2, <2>1, <2>3, Counts DEF OneBack
    <3>2. Returning("teacher")' <=> Returning("teacher")
      BY <1>2, <2>1, <2>3 DEF Returning
    <3>3. Settling("teacher")' /\ Settling("student")'
      BY <1>2, <1>4, <2>1, <2>3, <3>2
         DEF Single, Settling, OneAt, Other, Pipe, Returning, SameCounts, SameSignals
    <3>4. /\ (Pipe("teacher")' <=> Pipe("teacher")) /\ (Pipe("student")' <=> Pipe("student"))
          /\ (Offers("student")' <=> Offers("student")) /\ (More' <=> More) /\ Extra' = Extra
      BY <1>1, <1>2, <1>4, <2>1, <2>3 DEF Pipe, SameCounts, Extra, More, Other
    <3> QED BY <1>1, <1>3, <1>4, <2>1, <2>2, <2>3, <3>1, <3>2, <3>3, <3>4
            DEF Single, Other, SameCounts, SameSignals
  <2>4. CASE p = "student"
    BY <1>1, <1>2, <1>3, <1>4, <2>1, <2>2, <2>4
       DEF Single, Settling, OneAt, OneBack, Pipe, Returning, Extra, More, Other,
           SameCounts, SameSignals
  <2> QED BY <1>1, <2>3, <2>4 DEF Sides
<1>6. CASE peer[p] = None /\ UNCHANGED chain
  <2>1. p = "student" /\ ~Signals("student", "local")
    BY <1>3, <1>6 DEF Signals, Sides
  <2> QED BY <1>1, <1>2, <1>3, <1>4, <1>6, <2>1, SameQueues
          DEF Single, Settling, OneAt, OneBack, Pipe, Returning, Extra, More, Other,
              SameCounts, SameSignals
<1> QED BY <1>1, <1>5, <1>6

\* Neither queues nor connections move.
LEMMA StillSame ==
    ASSUME UNCHANGED <<wire, chain, peer>>
    PROVE  \A q \in Sides : SameCounts(q) /\ SameSignals(q)
BY SameQueuesCount, SamePeerSignals

\* A step of ICE keeps both connected to the server.
LEMMA IceSteady ==
    ASSUME Steady,
           \/ UNCHANGED left
           \/ left.network > 0 /\ left' = [left EXCEPT !.network = @ - 1],
           UNCHANGED <<socket, session, wire, peer, chain, offering, media, notice>>
    PROVE  Steady' /\ Extra' = Extra
<1>1. left \in [Bounded -> Nat] /\ left.drop = 0 /\ Extra <= 1
  BY DEF Steady
<1>2. left' \in [Bounded -> Nat] /\ left'.drop = 0 /\ Extra' = Extra
  BY <1>1 DEF Bounded, Extra
<1> QED BY <1>1, <1>2, SteadyWire

\* The windows reach each other.
LEMMA ReachedSingle ==
    ASSUME Single, ice # "new", Reached,
           UNCHANGED <<wire, peer, chain, offering, media, left>>
    PROVE  Single'
<1>1. ~Blank
  BY DEF Blank
<1>2. recovery'.timer # "now"
  BY DEF Reached, NoRecovery
<1>3. /\ SameCounts("teacher") /\ SameCounts("student")
      /\ SameSignals("teacher") /\ SameSignals("student")
      /\ (Parked("teacher")' <=> Parked("teacher")) /\ (Parked("student")' <=> Parked("student"))
  BY StillSame, SameParked DEF Sides
<1> QED BY <1>1, <1>2, <1>3
        DEF Single, Settling, OneAt, OneBack, Pipe, Returning, Extra, More, Other,
            SameCounts, SameSignals

\* Nothing is under way then.
LEMMA SettledCounts ==
    ASSUME Settled, NEW p \in Sides
    PROVE  /\ ~Coming(p) /\ ~ComingTwice(p) /\ ~Parked(p) /\ ~Handling(p) /\ ~HandlingTwice(p)
           /\ ~Replying(p) /\ ~Offers(p) /\ ~OffersTwice(p) /\ Purposes(chain[p]) = {}
           /\ ~Back(p) /\ ~BackTwice(p) /\ ~Taking(p) /\ ~TakingTwice(p)
           /\ media[p] = None /\ offering[p] = None
<1>1. ~Coming(p) /\ ~Parked(p) /\ ~Handling(p) /\ ~Offers(p) /\ ~Back(p) /\ ~Taking(p)
      /\ media[p] = None /\ offering[p] = None
  BY Counted DEF Settled, Coming, Parked, Handling, Offers, Back, Taking
<1> QED BY <1>1, Counts

\* They no longer do.
LEMMA LostSingle ==
    ASSUME Single, ice # "new", Settled, Extra' = Extra,
           UNCHANGED <<wire, peer, chain, offering, media>>
    PROVE  Single'
<1>1. ~Blank
  BY DEF Blank
<1>2. /\ SameCounts("teacher") /\ SameCounts("student")
      /\ SameSignals("teacher") /\ SameSignals("student")
      /\ (Parked("teacher")' <=> Parked("teacher")) /\ (Parked("student")' <=> Parked("student"))
  BY StillSame, SameParked DEF Sides
<1>3. /\ ~Returning("teacher")' /\ ~Pipe("student")' /\ ~Offers("teacher")' /\ OneBack("teacher")'
      /\ ~Offers("student")' /\ ~Pipe("teacher")'
  BY <1>2, SettledCounts DEF Returning, Pipe, OneBack, SameCounts, Sides
<1>4. Settling("teacher")' /\ Settling("student")'
  BY <1>2, <1>3 DEF Single, Settling, OneAt, Pipe, Returning, Other, SameCounts, SameSignals
<1>5. /\ peer'["teacher"] # None /\ media'["teacher"] = None
      /\ Purposes(chain'["teacher"]) = {} /\ Purposes(chain'["student"]) = {}
      /\ offering'["teacher"] = None
  BY <1>1, <1>2, SettledCounts DEF Single, SameCounts, Sides
<1> QED BY <1>3, <1>4, <1>5 DEF Single

-----------------------------------------------------------------------------
(* From the professor's first two offers.                                   *)

\* No offer of the student is made then, none of the professor's taken back.
LEMMA TwinSides ==
    ASSUME Twin, Steady, NEW p \in Sides, chain[p] # <<>>
    PROVE  /\ Head(chain[p]).op \in Making => p = "teacher" /\ ~Signals("teacher", "remote")
           /\ Head(chain[p]).op \in Answering => p = "student"
BY HeadCounts DEF Twin, Pipe, Sides

\* An offer is sent, and what waited for it goes on.
LEMMA SentTwin ==
    ASSUME TwoSided, Steady, Twin, RecoveryInv, chain["teacher"] # <<>>,
           Head(chain["teacher"]).op = "setLocalOffer", UNCHANGED left,
           NewSignal("teacher", "local"),
           wire'["teacher"] = wire["teacher"],
           LongerWire(wire["student"], wire'["student"], "offer"),
           \/ /\ Head(chain["teacher"]).as = "first"
              /\ chain'["student"] = chain["student"]
              /\ LongerChain(chain'["teacher"], chain["teacher"], "setLocalOffer", "first")
              /\ UNCHANGED <<offering, media, recovery>>
           \/ Head(chain["teacher"]).as # "first" /\ Finish("teacher")
    PROVE  Twin'
<1> DEFINE as == Head(chain["teacher"]).as
<1>1. /\ "setLocalOffer" \in Making /\ "setLocalOffer" \notin Answering
      /\ "setLocalOffer" \notin Accepting /\ "setLocalOffer" \notin Replies
      /\ "createOffer" \in Making /\ "createOffer" \notin Answering
      /\ "createOffer" \notin Accepting /\ "createOffer" \notin Replies
  BY OperationKinds DEF OfKind
<1>2. /\ Offers("teacher") /\ as \in Purposes(chain["teacher"])
      /\ OneAt("student") /\ (Replying("student") => Signals("student", "remote"))
      /\ "teacher" \in Sides /\ "student" \in Sides /\ Other("teacher") = "student"
  BY <1>1, HeadCounts DEF Twin, Other, Sides
<1>3. /\ chain'["student"] = chain["student"] /\ media'["student"] = media["student"]
      /\ recovery' = NoRecovery
  BY <1>2, Finished DEF Twin
<1>4. /\ Coming("student")' /\ (ComingTwice("student")' <=> ComingTwice("student") \/ Coming("student"))
      /\ (Handling("student")' <=> Handling("student"))
      /\ (HandlingTwice("student")' <=> HandlingTwice("student"))
      /\ (Replying("student")' <=> Replying("student")) /\ (Offers("student")' <=> Offers("student"))
      /\ (Parked("student")' <=> Parked("student"))
      /\ (Coming("teacher")' <=> Coming("teacher"))
  BY <1>3, WireCounts, SameQueues DEF Parked
<1>5. /\ SameSignals("student") /\ peer'["teacher"] # None /\ Signals("teacher", "local")'
      /\ ~Signals("teacher", "remote")'
  BY SamePeerSignals DEF NewSignal, Signals, Other
<1>6. ~Parked("teacher") /\ ~Parked("teacher")'
  BY DEF Parked
<1>7. CASE /\ media' = media /\ media["teacher"] = None
           /\ LongerChain(chain'["teacher"], chain["teacher"], "setLocalOffer", as)
  <2> HIDE DEF as
  <2>1. /\ (Offers("teacher")' <=> OffersTwice("teacher")) /\ ~OffersTwice("teacher")'
        /\ ~OffersThrice("teacher")'
        /\ (Handling("teacher")' <=> Handling("teacher"))
    <3>1. /\ OffersTwice("teacher") <=> OffersTwice("teacher")' \/ Offers("teacher")'
          /\ OffersThrice("teacher") <=> OffersThrice("teacher")' \/ OffersTwice("teacher")'
          /\ Handling("teacher")' <=> Handling("teacher")
      BY <1>1, <1>7, LessCounts
    <3>2. OffersTwice("teacher")' => Offers("teacher")'
      BY Counted DEF Offers, OffersTwice
    <3> QED BY <3>1, <3>2 DEF Twin
  <2> QED BY <1>2, <1>3, <1>4, <1>5, <1>6, <1>7, <2>1
          DEF Twin, OneAt, Pipe, Returning, Extra, SameSignals
<1>8. CASE /\ media["teacher"] # None /\ media'["teacher"] = None
           /\ LongerChain(Tail(chain["teacher"]), chain["teacher"], "setLocalOffer", as)
           /\ LongerChain(Tail(chain["teacher"]), chain'["teacher"], "createOffer", "first")
  <2> HIDE DEF as
  <2>1. /\ Offers("teacher")' /\ (OffersTwice("teacher")' <=> OffersTwice("teacher"))
        /\ (OffersThrice("teacher")' <=> OffersThrice("teacher"))
        /\ (Handling("teacher")' <=> Handling("teacher"))
    BY <1>1, <1>8, TurnCounts
  <2>2. ~OffersTwice("teacher") /\ ~Pipe("student") /\ ~OffersThrice("teacher")
    BY <1>8 DEF Twin
  <2> QED BY <1>2, <1>3, <1>4, <1>5, <1>6, <1>8, <2>1, <2>2
          DEF Twin, OneAt, Pipe, Returning, Extra, SameSignals
<1>9. CASE as = "first"
  BY <1>2, <1>7, <1>9 DEF Twin
<1>10. CASE as # "first"
  <2>1. media["teacher"] # None => media["teacher"].stage = "syncing"
    BY DEF Twin
  <2>2. \/ /\ media["teacher"] # None /\ media["teacher"].stage = "syncing" /\ media'["teacher"] = None
           /\ LongerChain(Tail(chain["teacher"]), chain["teacher"], "setLocalOffer", as)
           /\ LongerChain(Tail(chain["teacher"]), chain'["teacher"], "createOffer", "first")
        \/ /\ media["teacher"] # None => media["teacher"].stage # "syncing"
           /\ media' = media
           /\ LongerChain(chain'["teacher"], chain["teacher"], "setLocalOffer", as)
    BY <1>2, <1>10, Finished
  <2> QED BY <1>7, <1>8, <2>1, <2>2
<1> QED BY <1>9, <1>10

\* The student's window closes when it finds its connection not offered to.
LEMMA ClosedTwin ==
    ASSUME TwoSided, Steady, Twin, Close("student"), Replying("student"),
           ~Signals("student", "remote"), UNCHANGED <<wire, left>>
    PROVE  Twin'
<1>1. ~Offers("teacher") /\ (Signals("teacher", "local") => Returning("teacher"))
      /\ media["teacher"] = None /\ ~OffersTwice("teacher")
  BY Counts DEF Twin
<1>2. /\ peer'["student"] = None /\ chain'["student"] = <<>> /\ media'["student"] = None
      /\ peer'["teacher"] = peer["teacher"] /\ chain'["teacher"] = chain["teacher"]
      /\ media'["teacher"] = media["teacher"] /\ recovery' = recovery
  BY ClosedWindow DEF Close, Sides
<1>3. ~Replying("student")' /\ ~Offers("student")'
  BY <1>2, Counted DEF Replying, Offers
<1>4. SameCounts("teacher") /\ SameSignals("teacher") /\ (Parked("teacher")' <=> Parked("teacher"))
  BY <1>2, SameQueuesCount, SamePeerSignals DEF Parked
<1>5. ~Signals("student", "local")' /\ ~Signals("student", "remote")'
  BY <1>2 DEF Signals
<1> QED BY <1>1, <1>2, <1>3, <1>4, <1>5
        DEF Twin, Pipe, Returning, Extra, SameCounts, SameSignals

\* The student has applied an offer.
LEMMA AppliedTwin ==
    ASSUME TwoSided, Steady, Twin, NEW as, NewSignal("student", "remote"),
           chain'["teacher"] = chain["teacher"],
           LongerChain(Tail(chain["student"]), chain["student"], "setRemoteOffer", as),
           LongerChain(Tail(chain["student"]), chain'["student"], "createAnswer", None),
           UNCHANGED <<wire, offering, media, recovery, left>>
    PROVE  Twin'
<1>1. /\ "setRemoteOffer" \notin Making /\ "createAnswer" \notin Making
      /\ "setRemoteOffer" \in Answering /\ "createAnswer" \in Answering
      /\ "createAnswer" \in Replies
  BY OperationKinds DEF OfKind
<1>2. Handling("student")
  BY <1>1 DEF LongerChain, OneMoreOf, Handling
<1>3. /\ Handling("student")' /\ (HandlingTwice("student")' <=> HandlingTwice("student"))
      /\ Replying("student")' /\ (Offers("student")' <=> Offers("student"))
  BY <1>1, TurnCounts
<1>4. /\ SameCounts("teacher") /\ SameSignals("teacher") /\ Signals("student", "remote")'
      /\ ~Signals("student", "local")'
      /\ (Parked("teacher")' <=> Parked("teacher")) /\ (Parked("student")' <=> Parked("student"))
      /\ (Coming("student")' <=> Coming("student"))
      /\ (ComingTwice("student")' <=> ComingTwice("student"))
  BY SameQueuesCount, SamePeerSignals, SameParked, SameQueues DEF NewSignal, Signals, Other
<1> QED BY <1>2, <1>3, <1>4
        DEF Twin, OneAt, Pipe, Returning, Extra, SameCounts, SameSignals

\* The student has answered.
LEMMA AnsweredTwin ==
    ASSUME TwoSided, Steady, Twin, NEW as, Signals("student", "remote"),
           NewSignal("student", "stable"), wire'["student"] = wire["student"],
           LongerWire(wire["teacher"], wire'["teacher"], "answer"),
           chain'["teacher"] = chain["teacher"],
           LongerChain(chain'["student"], chain["student"], "setLocalAnswer", as),
           UNCHANGED <<offering, media, recovery, left>>
    PROVE  Twin'
<1>1. /\ "setLocalAnswer" \notin Making /\ "setLocalAnswer" \in Answering
      /\ "answer" # "offer"
  BY OperationKinds DEF OfKind
<1>2. /\ (Offers("student")' <=> Offers("student"))
      /\ (Handling("student")' => Handling("student") /\ HandlingTwice("student"))
      /\ (HandlingTwice("student")' => HandlingTwice("student"))
  BY <1>1, LessCounts
<1>3. Replying("student")' => Handling("student")'
  BY OffersHavePurposes DEF Replying, Handling
<1>4. Back("teacher")' /\ (Coming("teacher")' <=> Coming("teacher"))
  BY <1>1, WireCounts
<1>5. /\ (Offers("teacher")' <=> Offers("teacher")) /\ (OffersTwice("teacher")' <=> OffersTwice("teacher"))
      /\ (OffersThrice("teacher")' <=> OffersThrice("teacher"))
      /\ (Handling("teacher")' <=> Handling("teacher"))
      /\ Purposes(chain'["teacher"]) = Purposes(chain["teacher"])
      /\ (Coming("student")' <=> Coming("student"))
      /\ (ComingTwice("student")' <=> ComingTwice("student"))
      /\ (Parked("teacher")' <=> Parked("teacher")) /\ (Parked("student")' <=> Parked("student"))
  BY SameQueues, SameParked
<1>6. SameSignals("teacher") /\ ~Signals("student", "local")' /\ ~Signals("student", "remote")'
  BY SamePeerSignals DEF NewSignal, Signals, Other
<1> QED BY <1>2, <1>3, <1>4, <1>5, <1>6
        DEF Twin, OneAt, Pipe, Returning, Extra, SameSignals

\* An answer is applied, or refused.
LEMMA TakenTwin ==
    ASSUME TwoSided, Steady, Twin, NEW p \in Sides, NEW as,
           chain'[Other(p)] = chain[Other(p)],
           LongerChain(chain'[p], chain[p], "setRemoteAnswer", as),
           UNCHANGED <<wire, offering, media, recovery, left>>,
           \/ ~Signals(p, "local") /\ UNCHANGED peer
           \/ Signals(p, "local") /\ NewSignal(p, "stable")
    PROVE  Twin'
<1>1. /\ (Offers(p)' <=> Offers(p)) /\ (OffersTwice(p)' <=> OffersTwice(p))
      /\ (OffersThrice(p)' <=> OffersThrice(p))
      /\ (Handling(p)' <=> Handling(p)) /\ (HandlingTwice(p)' <=> HandlingTwice(p))
      /\ (Replying(p)' <=> Replying(p))
      /\ Purposes(chain'[p]) = Purposes(chain[p])
  <2>1. /\ "setRemoteAnswer" \notin Making /\ "setRemoteAnswer" \notin Answering
        /\ "setRemoteAnswer" \notin Replies
    BY OperationKinds DEF OfKind
  <2>2. Purposes(chain'[p]) = Purposes(chain[p])
    BY <2>1 DEF LongerChain
  <2> QED BY <2>1, <2>2, LessCounts
<1>2. /\ ~Signals(p, "local")' /\ (Signals(p, "remote")' <=> Signals(p, "remote"))
      /\ (peer'[p] = None <=> peer[p] = None)
      /\ SameSignals(Other(p))
  BY SamePeerSignals DEF NewSignal, Signals
<1>3. /\ \A q \in Sides : (Coming(q)' <=> Coming(q)) /\ (ComingTwice(q)' <=> ComingTwice(q))
                          /\ (Back(q)' <=> Back(q)) /\ (Parked(q)' <=> Parked(q))
      /\ SameCounts(Other(p))
  BY SameQueues, SameParked, SameQueuesCount
<1>4. CASE p = "teacher"
  BY <1>1, <1>2, <1>3, <1>4
     DEF Twin, OneAt, Pipe, Returning, Extra, Other, Sides, SameCounts, SameSignals
<1>5. CASE p = "student"
  BY <1>1, <1>2, <1>3, <1>5
     DEF Twin, OneAt, Pipe, Returning, Extra, Other, Sides, SameCounts, SameSignals
<1> QED BY <1>4, <1>5 DEF Sides

\* An operation of a connection.
LEMMA ExecutedTwin ==
    ASSUME TwoSided, Steady, ~over, Twin, RecoveryInv, UndefinedIsNoObject, NEW p \in Sides,
           Execute(p)
    PROVE  Steady' /\ Twin'
<1>1. "student" \in Sides /\ "teacher" \in Sides
      /\ Other("student") = "teacher" /\ Other("teacher") = "student"
  BY DEF Sides, Other
<1>2. CASE CreateOffer(p)
  <2>1. /\ chain[p] # <<>> /\ Head(chain[p]).op = "createOffer" /\ Steady' /\ UNCHANGED <<wire, left>>
        /\ \/ Signals(p, "remote")
           \/ /\ ~Signals(p, "remote")
              /\ chain'[Other(p)] = chain[Other(p)]
              /\ LongerChain(Tail(chain[p]), chain[p], "createOffer", Head(chain[p]).as)
              /\ LongerChain(Tail(chain[p]), chain'[p], "setLocalOffer", Head(chain[p]).as)
              /\ UNCHANGED <<peer, offering, media, ice, recovery>>
    BY <1>2, CreatesOffer
  <2>2. Head(chain[p]).op \in Making
    BY <2>1 DEF Making
  <2>3. ~Signals(p, "remote")
    BY <2>1, <2>2, TwinSides
  <2>4. \A q \in Sides : SameCounts(q)
    BY <2>1, <2>3, TurnSame
  <2>5. \A q \in Sides : SameSignals(q)
    BY <2>1, <2>3, SamePeerSignals
  <2> QED BY <2>1, <2>3, <2>4, <2>5, SameTwin
<1>3. CASE SetLocalOffer(p)
  <2>1. chain[p] # <<>> /\ Head(chain[p]).op = "setLocalOffer" /\ UNCHANGED left /\ Steady'
    BY <1>3, SetsLocalOffer
  <2>2. Head(chain[p]).op \in Making
    BY <2>1 DEF Making
  <2>3. p = "teacher" /\ ~Signals("teacher", "remote")
    BY <2>1, <2>2, TwinSides
  <2>4. /\ NewSignal("teacher", "local") /\ wire'["teacher"] = wire["teacher"]
        /\ LongerWire(wire["student"], wire'["student"], "offer")
        /\ \/ /\ Head(chain["teacher"]).as = "first"
              /\ chain'["student"] = chain["student"]
              /\ LongerChain(chain'["teacher"], chain["teacher"], "setLocalOffer", "first")
              /\ UNCHANGED <<offering, media, recovery>>
           \/ Head(chain["teacher"]).as # "first" /\ Finish("teacher")
    BY <1>1, <1>3, <2>3, SetsLocalOffer
  <2> QED BY <2>1, <2>3, <2>4, SentTwin
<1>4. ASSUME chain[p] # <<>>, Head(chain[p]).op \in Replies PROVE p = "student" /\ Replying("student")
  <2>1. Head(chain[p]).op \in Answering
    BY <1>4 DEF Replies, Answering
  <2> QED BY <1>4, <2>1, TwinSides, HeadCounts
<1>5. CASE SetRemoteOffer(p)
  <2>1. /\ chain[p] # <<>> /\ Steady' /\ Head(chain[p]).op \in Answering
    BY <1>5, SetsRemoteOffer DEF SetRemoteOffer, Executes, Answering
  <2>2. p = "student"
    BY <2>1, TwinSides
  <2>3. /\ NewSignal("student", "remote") /\ chain'["teacher"] = chain["teacher"]
        /\ LongerChain(Tail(chain["student"]), chain["student"], "setRemoteOffer", Head(chain["student"]).as)
        /\ LongerChain(Tail(chain["student"]), chain'["student"], "createAnswer", None)
        /\ UNCHANGED <<wire, offering, media, recovery, left>>
    BY <1>1, <1>5, <2>2, SetsRemoteOffer
  <2> QED BY <2>1, <2>3, AppliedTwin
<1>6. CASE CreateAnswer(p)
  <2>1. /\ chain[p] # <<>> /\ Head(chain[p]).op = "createAnswer" /\ Steady'
        /\ UNCHANGED <<wire, left>>
        /\ \/ ~Signals(p, "remote") /\ (p = "student" => Close(p))
           \/ /\ Signals(p, "remote")
              /\ chain'[Other(p)] = chain[Other(p)]
              /\ LongerChain(Tail(chain[p]), chain[p], "createAnswer", Head(chain[p]).as)
              /\ LongerChain(Tail(chain[p]), chain'[p], "setLocalAnswer", None)
              /\ UNCHANGED <<peer, offering, media, ice, recovery>>
    BY <1>6, CreatesAnswer
  <2>2. p = "student" /\ Replying("student")
    BY <1>4, <2>1 DEF Replies
  <2>3. CASE ~Signals(p, "remote")
    BY <2>1, <2>2, <2>3, ClosedTwin
  <2>4. CASE Signals(p, "remote")
    <3>1. \A q \in Sides : SameCounts(q)
      BY <2>1, <2>4, TurnSame
    <3>2. \A q \in Sides : SameSignals(q)
      BY <2>1, <2>4, SamePeerSignals
    <3> QED BY <2>1, <2>4, <3>1, <3>2, SameTwin
  <2> QED BY <2>3, <2>4
<1>7. CASE SetLocalAnswer(p)
  <2>1. chain[p] # <<>> /\ Head(chain[p]).op = "setLocalAnswer" /\ Steady' /\ UNCHANGED left
    BY <1>7, SetsLocalAnswer
  <2>2. p = "student" /\ Replying("student")
    BY <1>4, <2>1 DEF Replies
  <2>3. CASE ~Signals("student", "remote")
    <3>1. Close("student") /\ UNCHANGED wire
      BY <1>7, <2>2, <2>3, SetsLocalAnswer
    <3> QED BY <2>1, <2>2, <2>3, <3>1, ClosedTwin
  <2>4. CASE Signals("student", "remote")
    <3>1. /\ NewSignal("student", "stable") /\ wire'["student"] = wire["student"]
          /\ LongerWire(wire["teacher"], wire'["teacher"], "answer")
          /\ chain'["teacher"] = chain["teacher"]
          /\ LongerChain(chain'["student"], chain["student"], "setLocalAnswer", Head(chain["student"]).as)
          /\ UNCHANGED <<offering, media, recovery>>
      BY <1>1, <1>7, <2>2, <2>4, SetsLocalAnswer
    <3> QED BY <2>1, <2>4, <3>1, AnsweredTwin
  <2> QED BY <2>3, <2>4
<1>8. CASE SetRemoteAnswer(p)
  <2>1. /\ Steady' /\ chain'[Other(p)] = chain[Other(p)]
        /\ LongerChain(chain'[p], chain[p], "setRemoteAnswer", Head(chain[p]).as)
        /\ UNCHANGED <<wire, offering, media, recovery, left>>
        /\ \/ ~Signals(p, "local") /\ UNCHANGED peer
           \/ Signals(p, "local") /\ NewSignal(p, "stable")
    BY <1>8, SetsRemoteAnswer
  <2> QED BY <2>1, TakenTwin
<1>9. CASE AddCandidate(p)
  <2>1. /\ Steady' /\ UNCHANGED <<wire, offering, media, ice, recovery, left>>
        /\ chain'[Other(p)] = chain[Other(p)]
        /\ LongerChain(chain'[p], chain[p], "addCandidate", Head(chain[p]).as)
        /\ \A q \in Sides : SameSignals(q)
    BY <1>9, AddsCandidate DEF SameSignals
  <2> QED BY <2>1, CandidateDone, SameTwin
<1> QED BY <1>2, <1>3, <1>5, <1>6, <1>7, <1>8, <1>9 DEF Execute

\* The student's camera is on.
LEMMA ReadiedTwin ==
    ASSUME TwoSided, Steady, Twin, UndefinedIsNoObject, NEW p \in Sides, MediaReady(p)
    PROVE  Steady' /\ Twin'
<1>1. /\ Steady' /\ media[p] # None /\ media[p].stage = "starting"
      /\ media'[Other(p)] = media[Other(p)]
      /\ chain'[Other(p)] = chain[Other(p)]
      /\ UNCHANGED <<wire, peer, ice, recovery>>
  BY ReadiesMedia
<1>2. p = "student"
  BY <1>1 DEF Twin, Sides
<1>3. /\ media'["student"] = None /\ UNCHANGED <<offering, left>>
      /\ LongerChain(chain["student"], chain'["student"], "setRemoteOffer", None)
      /\ Other("student") = "teacher"
  <2>1. ~(Extra = 1)
    BY DEF Twin
  <2> QED BY <1>2, <2>1, ReadiesMedia DEF Other
<1>4. /\ "setRemoteOffer" \notin Making /\ "setRemoteOffer" \in Answering
      /\ "setRemoteOffer" \notin Replies
  BY OperationKinds DEF OfKind
<1>5. /\ Handling("student")' /\ (HandlingTwice("student")' => HandlingTwice("student") \/ Handling("student"))
      /\ (Replying("student")' <=> Replying("student"))
      /\ (Offers("student")' <=> Offers("student"))
  BY <1>3, <1>4, MoreCounts
<1>6. /\ SameCounts("teacher") /\ SameSignals("teacher") /\ SameSignals("student")
      /\ Parked("student") /\ ~Parked("student")' /\ (Parked("teacher")' <=> Parked("teacher"))
      /\ (Coming("student")' <=> Coming("student"))
      /\ (ComingTwice("student")' <=> ComingTwice("student"))
  BY <1>1, <1>2, <1>3, SameQueuesCount, SamePeerSignals, SameQueues DEF Parked
<1> QED BY <1>1, <1>2, <1>3, <1>5, <1>6
        DEF Twin, OneAt, Pipe, Returning, Extra, SameCounts, SameSignals

\* An offer is heard.
LEMMA HeardOfferTwin ==
    ASSUME TwoSided, Steady, Twin, UndefinedIsNoObject, NEW p \in Sides, HearOffer(p)
    PROVE  Steady' /\ Twin'
<1>1. /\ Steady' /\ UNCHANGED <<offering, ice, recovery, left>>
      /\ wire'[Other(p)] = wire[Other(p)] /\ LongerWire(wire'[p], wire[p], "offer")
      /\ chain'[Other(p)] = chain[Other(p)]
      /\ \/ /\ peer[p] # None /\ UNCHANGED <<peer, media>>
            /\ LongerChain(chain[p], chain'[p], "setRemoteOffer", None)
         \/ /\ peer[p] = None /\ p = "student" /\ NewSignal(p, "stable")
            /\ media'[p] # None /\ media'[p].stage = "starting"
            /\ media'[Other(p)] = media[Other(p)] /\ UNCHANGED chain
         \/ peer[p] = None /\ p = "teacher" /\ UNCHANGED <<peer, media, chain>>
  BY HearsOffer
<1>2. /\ Coming(p) /\ (Coming(p)' => ComingTwice(p)) /\ (ComingTwice(p)' => ComingTwice(p))
  BY <1>1, WireCounts
<1>3. p = "student" /\ Other("student") = "teacher"
  BY <1>2 DEF Twin, Pipe, Sides, Other
<1>4. SameCounts("teacher")
  BY <1>1, <1>3, SameQueuesCount
<1>5. CASE /\ UNCHANGED <<peer, media>>
           /\ LongerChain(chain["student"], chain'["student"], "setRemoteOffer", None)
  <2>1. /\ "setRemoteOffer" \notin Making /\ "setRemoteOffer" \in Answering
        /\ "setRemoteOffer" \notin Replies
    BY OperationKinds DEF OfKind
  <2>2. /\ Handling("student")' /\ (HandlingTwice("student")' => HandlingTwice("student") \/ Handling("student"))
        /\ (Replying("student")' <=> Replying("student"))
        /\ (Offers("student")' <=> Offers("student"))
    BY <1>5, <2>1, MoreCounts
  <2>3. /\ SameSignals("teacher") /\ SameSignals("student")
        /\ (Parked("teacher")' <=> Parked("teacher")) /\ (Parked("student")' <=> Parked("student"))
    BY <1>5, SamePeerSignals, SameParked
  <2> QED BY <1>1, <1>2, <1>3, <1>4, <1>5, <2>2, <2>3
          DEF Twin, OneAt, Pipe, Returning, Extra, SameCounts, SameSignals
<1>6. CASE /\ peer["student"] = None /\ NewSignal("student", "stable")
           /\ media'["student"] # None
           /\ media'["teacher"] = media["teacher"] /\ UNCHANGED chain
  <2>1. chain["student"] = <<>> /\ media["student"] = None
    BY <1>3, <1>6 DEF Steady, Window
  <2>2. /\ ~Handling("student") /\ ~HandlingTwice("student") /\ ~Replying("student")
        /\ ~Offers("student")
    BY <2>1, Counts, Counted DEF Offers, Replying, Handling
  <2>3. /\ ~Handling("student")' /\ ~HandlingTwice("student")' /\ ~Replying("student")'
        /\ ~Offers("student")'
    BY <1>6, <2>2, SameQueues
  <2>4. /\ Parked("student")' /\ ~Parked("teacher")' /\ ~Parked("teacher")
        /\ ~Signals("student", "local")' /\ ~Signals("student", "remote")'
        /\ SameSignals("teacher")
    BY <1>3, <1>6, SamePeerSignals DEF Parked, NewSignal, Signals
  <2> QED BY <1>1, <1>2, <1>3, <1>4, <1>6, <2>3, <2>4
          DEF Twin, OneAt, Pipe, Returning, Extra, SameCounts, SameSignals
<1> QED BY <1>1, <1>3, <1>5, <1>6

\* An answer is heard.
LEMMA HeardAnswerTwin ==
    ASSUME TwoSided, Steady, Twin, NEW p \in Sides, HearAnswer(p)
    PROVE  Steady' /\ Twin'
<1>1. /\ Steady' /\ UNCHANGED <<peer, media, offering, ice, recovery, left>>
      /\ wire'[Other(p)] = wire[Other(p)] /\ LongerWire(wire'[p], wire[p], "answer")
      /\ chain'[Other(p)] = chain[Other(p)]
      /\ \/ peer[p] # None /\ LongerChain(chain[p], chain'[p], "setRemoteAnswer", None)
         \/ peer[p] = None /\ UNCHANGED chain
  BY HearsAnswer
<1>2. (Coming(p)' <=> Coming(p)) /\ (ComingTwice(p)' <=> ComingTwice(p))
  <2>1. "offer" # "answer"
    OBVIOUS
  <2> QED BY <1>1, <2>1, WireCounts
<1>3. /\ SameCounts(Other(p)) /\ SameSignals("teacher") /\ SameSignals("student")
      /\ (Parked("teacher")' <=> Parked("teacher")) /\ (Parked("student")' <=> Parked("student"))
  BY <1>1, SameQueuesCount, SamePeerSignals, SameParked
<1>4. /\ (Handling(p)' <=> Handling(p)) /\ (HandlingTwice(p)' <=> HandlingTwice(p))
      /\ (Replying(p)' <=> Replying(p))
      /\ (Offers(p)' <=> Offers(p)) /\ (OffersTwice(p)' <=> OffersTwice(p))
      /\ (OffersThrice(p)' <=> OffersThrice(p))
      /\ Purposes(chain'[p]) = Purposes(chain[p])
      /\ peer[p] # None => Taking(p)'
  <2>1. CASE peer[p] = None /\ UNCHANGED chain
    BY <2>1, SameQueues
  <2>2. CASE peer[p] # None /\ LongerChain(chain[p], chain'[p], "setRemoteAnswer", None)
    <3>1. /\ "setRemoteAnswer" \notin Making /\ "setRemoteAnswer" \notin Answering
          /\ "setRemoteAnswer" \notin Replies /\ "setRemoteAnswer" \in Accepting
      BY OperationKinds DEF OfKind
    <3>2. Purposes(chain'[p]) = Purposes(chain[p])
      BY <2>2, <3>1 DEF LongerChain
    <3>3. Taking(p)'
      BY <2>2, <3>1, MoreCounts
    <3> QED BY <2>2, <3>1, <3>2, <3>3, MoreCounts
  <2> QED BY <1>1, <2>1, <2>2
<1>5. CASE p = "teacher"
  BY <1>1, <1>2, <1>3, <1>4, <1>5
     DEF Twin, OneAt, Pipe, Returning, Extra, Other, SameCounts, SameSignals
<1>6. CASE p = "student"
  BY <1>1, <1>2, <1>3, <1>4, <1>6
     DEF Twin, OneAt, Pipe, Returning, Extra, Other, SameCounts, SameSignals
<1> QED BY <1>1, <1>5, <1>6 DEF Sides

\* The windows reach each other.
LEMMA ReachedTwin ==
    ASSUME Twin, Reached, UNCHANGED <<wire, peer, chain, offering, media, left>>
    PROVE  Twin'
<1>1. recovery' = NoRecovery
  BY DEF Reached
<1>2. /\ SameCounts("teacher") /\ SameCounts("student")
      /\ SameSignals("teacher") /\ SameSignals("student")
      /\ (Parked("teacher")' <=> Parked("teacher")) /\ (Parked("student")' <=> Parked("student"))
  BY StillSame, SameParked DEF Sides
<1> QED BY <1>1, <1>2 DEF Twin, OneAt, Pipe, Returning, Extra, SameCounts, SameSignals

\* When nothing is under way any more, one offer at a time is all there is.
LEMMA TwinSettles ==
    ASSUME Twin, Settled
    PROVE  Single
<1>1. /\ peer["teacher"] # None /\ Extra = 0 /\ recovery = NoRecovery
      /\ ~Signals("teacher", "remote") /\ ~Signals("student", "local")
      /\ ~Signals("teacher", "local") /\ ~Signals("student", "remote")
  BY SettledCounts DEF Twin, Pipe, Returning, Sides
<1>2. /\ Settling("teacher") /\ Settling("student")
      /\ ~Pipe("teacher") /\ ~Pipe("student") /\ ~Returning("teacher")
  BY <1>1, SettledCounts DEF Settling, OneAt, Pipe, Returning, Other, Sides
<1>3. /\ ~More /\ recovery.timer # "now"
      /\ media["teacher"] = None /\ offering["teacher"] = None
      /\ Purposes(chain["teacher"]) = {} /\ Purposes(chain["student"]) = {}
  BY <1>1, SettledCounts DEF More, NoRecovery, Sides
<1> QED BY <1>1, <1>2, <1>3 DEF Single

-----------------------------------------------------------------------------
(* Every step.                                                              *)

\* Until the attendance is over, both sides are connected, and the offers are one
\* of each side at a time or the professor's first two.
OfferInv == over \/ (Steady /\ (Single \/ Twin))

\* A step of one window, the recovery or ICE.
LEMMA ProgramKeepsOffers ==
    ASSUME TwoSided, Steady, ~over, Single \/ Twin, RecoveryInv, UndefinedIsNoObject, Program
    PROVE  Steady' /\ (Single' \/ Twin')
<1>1. ASSUME NEW p \in Sides, Execute(p) PROVE Steady' /\ (Single' \/ Twin')
  BY <1>1, ExecutedSingle, ExecutedTwin
<1>2. ASSUME NEW p \in Sides, MediaReady(p) PROVE Steady' /\ (Single' \/ Twin')
  BY <1>2, ReadiedSingle, ReadiedTwin
<1>3. ASSUME NEW p \in Sides, Gather(p) PROVE Steady' /\ (Single' \/ Twin')
  BY <1>3, Gathers, SameSingle, SameTwin
<1>4. ASSUME NEW p \in Sides, Hear(p) PROVE Steady' /\ (Single' \/ Twin')
  <2>1. CASE HearOffer(p)
    BY <2>1, HeardOfferSingle, HeardOfferTwin
  <2>2. CASE HearAnswer(p)
    BY <2>2, HeardAnswerSingle, HeardAnswerTwin
  <2>3. CASE HearCandidate(p)
    BY <2>3, HearsCandidate, SameSingle, SameTwin
  <2> QED BY <1>4, <2>1, <2>2, <2>3, HearsRelayed
<1>5. ASSUME NEW p \in Sides PROVE ~Rejoin(p)
  BY DEF Rejoin, Steady
<1>6. CASE StartTeacherWebRtc
  <2>1. ~Twin
    BY <1>6 DEF StartTeacherWebRtc, Twin
  <2> QED BY <1>6, <2>1, StartedSingle
<1>7. ~UseNotice
  BY DEF UseNotice, Steady
<1>8. CASE RecoveryTimer
  <2>1. ~Twin
    BY <1>8, TimesRecovery DEF Twin, NoRecovery
  <2> QED BY <1>8, <2>1, TimedSingle
<1>9. CASE Connect
  <2>1. /\ ice # "new" /\ Reached
        /\ UNCHANGED <<socket, session, wire, peer, chain, offering, media, notice, left>>
    BY <1>9 DEF Connect, window
  <2> QED BY <2>1, IceSteady, ReachedSingle, ReachedTwin
<1>10. CASE GiveUp
  <2>1. /\ ice # "new" /\ Settled
        /\ UNCHANGED <<socket, session, wire, peer, chain, offering, media, notice, left>>
    BY <1>10 DEF GiveUp, window
  <2> QED BY <2>1, IceSteady, LostSingle, TwinSettles
<1> QED BY <1>1, <1>2, <1>3, <1>4, <1>5, <1>6, <1>7, <1>8, <1>9, <1>10 DEF Program

\* And of the outside world.
LEMMA OfferNext ==
    ASSUME EndInv, RecoveryInv, OfferInv, UndefinedIsNoObject, [Next]_vars
    PROVE  OfferInv'
<1>1. TwoSided
  BY DEF EndInv
<1>2. CASE over
  <2>1. over'
    <3>1. CASE End
      BY <3>1 DEF End
    <3>2. CASE UNCHANGED over
      BY <1>2, <3>2
    <3>3. End \/ UNCHANGED over
      <4>1. ASSUME NEW p \in Sides,
                   Execute(p) \/ MediaReady(p) \/ Gather(p) \/ Hear(p) \/ Rejoin(p)
                     \/ Change(p) \/ LoseSocket(p) \/ Reconnect(p)
            PROVE  UNCHANGED over
        BY <4>1 DEF Execute, CreateOffer, SetLocalOffer, SetRemoteOffer, CreateAnswer,
             SetLocalAnswer, AddCandidate, SetRemoteAnswer, MediaReady, Gather, Hear, HearOffer,
             HearAnswer, HearCandidate, HearNotice, HearEnded, Rejoin, Change, LoseSocket, Reconnect
      <4>2. CASE StartTeacherWebRtc \/ UseNotice \/ RecoveryTimer \/ Connect \/ GiveUp \/ Return
                   \/ NetworkFails \/ UNCHANGED vars
        BY <4>2 DEF StartTeacherWebRtc, UseNotice, RecoveryTimer, Connect, GiveUp, Return,
             NetworkFails, vars
      <4> QED BY <4>1, <4>2 DEF Next, Program
    <3> QED BY <3>1, <3>2, <3>3
  <2> QED BY <2>1 DEF OfferInv
<1>3. CASE ~over
  <2>1. Steady /\ (Single \/ Twin)
    BY <1>3 DEF OfferInv
  <2>2. CASE Program
    BY <1>1, <1>3, <2>1, <2>2, ProgramKeepsOffers DEF OfferInv
  <2>3. ASSUME NEW p \in Sides, Change(p) PROVE OfferInv'
    <3>1. ~Twin
      <4>1. Extra = 1
        BY <1>1, <2>1, <2>3, Changes
      <4> QED BY <4>1 DEF Twin
    <3> QED BY <1>1, <2>1, <2>3, <3>1, ChangedSingle DEF OfferInv
  <2>4. ASSUME NEW p \in Sides PROVE ~LoseSocket(p) /\ ~Reconnect(p)
    BY <2>1 DEF Steady, LoseSocket, Reconnect
  <2>5. CASE End
    BY <2>5 DEF End, OfferInv
  <2>6. CASE Return
    <3>1. /\ ice # "new" /\ Reached
          /\ UNCHANGED <<socket, session, wire, peer, chain, offering, media, notice, left>>
      BY <2>6 DEF Return, window
    <3> QED BY <2>1, <3>1, IceSteady, ReachedSingle, ReachedTwin DEF OfferInv
  <2>7. CASE NetworkFails
    <3>1. /\ ice # "new" /\ Settled
          /\ left.network > 0 /\ left' = [left EXCEPT !.network = @ - 1]
          /\ UNCHANGED <<socket, session, wire, peer, chain, offering, media, notice>>
      BY <2>7 DEF NetworkFails, window
    <3> QED BY <2>1, <3>1, IceSteady, LostSingle, TwinSettles DEF OfferInv
  <2>8. CASE UNCHANGED vars
    <3>1. /\ UNCHANGED <<session, socket, notice, left, wire, chain, peer, media, offering, ice, recovery>>
      BY <2>8 DEF vars, window
    <3>2. \A q \in Sides : SameCounts(q) /\ SameSignals(q)
      BY <3>1, StillSame
    <3>3. Steady'
      BY <2>1, <3>1, SteadyWire DEF Steady, Extra
    <3> QED BY <2>1, <3>1, <3>2, <3>3, SameSingle, SameTwin DEF OfferInv
  <2> QED BY <2>2, <2>3, <2>4, <2>5, <2>6, <2>7, <2>8 DEF Next
<1> QED BY <1>2, <1>3

\* Nobody has offered yet.
LEMMA OfferInit ==
    ASSUME Init, FewOffers
    PROVE  OfferInv
<1>1. /\ left \in [Bounded -> Nat] /\ left.drop = 0 /\ Extra <= 1
  BY NegotiationAssumption DEF Init, FewOffers, Extra
<1>2. \A p \in Sides : /\ session[p] /\ socket[p] = "up" /\ wire[p] = <<>> /\ peer[p] = None
                       /\ chain[p] = <<>> /\ offering[p] = None /\ media[p] = None
  BY DEF Init
<1>3. IsSeq(<<>>) /\ DOMAIN <<>> = {}
  BY DEF IsSeq
<1>4. notice = "none" /\ ice = "new" /\ recovery = NoRecovery /\ recovery.timer = "off"
  BY DEF Init, NoRecovery
<1>5. Steady
  BY <1>1, <1>2, <1>3, <1>4 DEF Steady, Readable, Window
<1>6. ASSUME NEW p \in Sides
      PROVE  /\ ~Coming(p) /\ ~ComingTwice(p) /\ ~Parked(p) /\ ~Handling(p) /\ ~HandlingTwice(p)
             /\ ~Replying(p) /\ ~Offers(p) /\ ~OffersTwice(p) /\ Purposes(chain[p]) = {}
             /\ ~Back(p) /\ ~BackTwice(p) /\ ~Taking(p) /\ ~TakingTwice(p)
             /\ ~Signals(p, "local") /\ ~Signals(p, "remote")
  <2>1. ~Coming(p) /\ ~Parked(p) /\ ~Handling(p) /\ ~Offers(p) /\ ~Back(p) /\ ~Taking(p)
    BY <1>2, Counted DEF Coming, Parked, Handling, Offers, Back, Taking
  <2> QED BY <1>2, <2>1, Counts DEF Signals
<1>7. "teacher" \in Sides /\ "student" \in Sides
  BY DEF Sides
<1>8. Settling("teacher") /\ Settling("student") /\ Blank /\ OneBack("teacher")
  BY <1>2, <1>4, <1>6, <1>7 DEF Settling, OneAt, OneBack, Blank, Pipe, Returning, Other
<1>9. ~Pipe("teacher") /\ ~Pipe("student") /\ ~Returning("teacher")
  BY <1>8 DEF Blank
<1>10. Single
  BY <1>2, <1>4, <1>6, <1>7, <1>8, <1>9 DEF Single
<1> QED BY <1>5, <1>10 DEF OfferInv

\* When everything has been delivered and executed both connections are stable:
\* the answer to every offer has come, whatever crossed, was taken back or came in
\* the wrong order (queueRenegotiation, handleWebRtcOffer, handleWebRtcAnswer).
THEOREM EveryOfferIsAnswered ==
    ASSUME UndefinedIsNoObject
    PROVE  Spec => NoOfferWaits
<1> DEFINE Inv   == EndInv /\ RecoveryInv /\ OfferInv
           AtEnd == ~over /\ Settled => \A p \in Sides : peer[p] # None => peer[p].signaling = "stable"
<1>1. Init /\ FewOffers => Inv
  <2>1. Init => EndInv
    BY EmptyLemma DEF Init, EndInv, TwoSided, Dismissed
  <2>2. Init => RecoveryInv
    BY DEF Init, RecoveryInv, NoRecovery, Timers
  <2> QED BY <2>1, <2>2, OfferInit
<1>2. Inv /\ [Next]_vars => Inv'
  BY EndNext, RecoveryNext, OfferNext
<1>3. Inv => AtEnd
  <2> SUFFICES ASSUME Inv, ~over, Settled, NEW p \in Sides, peer[p] # None
               PROVE  peer[p].signaling = "stable"
    OBVIOUS
  <2>1. Single /\ Steady
    BY TwinSettles DEF OfferInv
  <2>2. ~Signals(p, "local") /\ ~Signals(p, "remote")
    BY <2>1, SettledCounts DEF Single, Settling, Pipe, Returning, Other, Sides
  <2> QED BY <2>1, <2>2 DEF Steady, Window, Signals
<1> HIDE DEF Inv
<1> QED BY <1>1, <1>2, <1>3, PTL DEF Spec, NoOfferWaits
=============================================================================
