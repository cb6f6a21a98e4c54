---- MODULE RemoteControlProofs ----
(***************************************************************************)
(* Whatever connections are lost and applications restarted: nobody is     *)
(* granted control while the student is being asked, and an application    *)
(* that holds its seat can recover it.  While no connection is lost, the   *)
(* controls come to agree and a key that is held is pressed or about to be *)
(* let go of.                                                              *)
(***************************************************************************)
EXTENDS RemoteControl, FiniteSetTheorems, SequenceTheorems, TLAPS

-----------------------------------------------------------------------------
(* Queues of messages *)

\* At most one message of a queue is one of P.
Once(queue, P) ==
    \A i, j \in DOMAIN queue : queue[i] \in P /\ queue[j] \in P => i = j

\* A message at the end.
LEMMA AppendLemma ==
    ASSUME NEW S, NEW queue \in Seq(S), NEW m \in S
    PROVE  /\ Append(queue, m) \in Seq(S)
           /\ Append(queue, m) # <<>>
           /\ Range(Append(queue, m)) = Range(queue) \cup {m}
           /\ \A P : Once(queue, P) /\ (m \notin P \/ Range(queue) \cap P = {})
                        => Once(Append(queue, m), P)
<1> DEFINE new == Append(queue, m)
           n == Len(queue)
<1>1. /\ new \in Seq(S) /\ new # <<>>
      /\ n \in Nat /\ DOMAIN queue = 1..n /\ DOMAIN new = 1..(n + 1)
      /\ \A i \in 1..n : new[i] = queue[i]
      /\ new[n + 1] = m
  BY AppendProperties, LenProperties
<1> HIDE DEF new, n
<1>2. Range(new) = Range(queue) \cup {m}
  BY <1>1 DEF Range
<1>3. ASSUME NEW P, Once(queue, P), m \notin P \/ Range(queue) \cap P = {}
      PROVE  Once(new, P)
  BY <1>1, <1>3 DEF Once, Range
<1> QED BY <1>1, <1>2, <1>3 DEF new

\* The message at the head taken away.
LEMMA TailLemma ==
    ASSUME NEW S, NEW queue \in Seq(S), queue # <<>>
    PROVE  /\ Tail(queue) \in Seq(S)
           /\ Head(queue) \in S
           /\ Range(queue) = {Head(queue)} \cup Range(Tail(queue))
           /\ \A P : Once(queue, P) =>
                 /\ Once(Tail(queue), P)
                 /\ Head(queue) \in P => Range(Tail(queue)) \cap P = {}
<1> DEFINE new == Tail(queue)
           n == Len(queue)
<1>1. /\ new \in Seq(S) /\ Head(queue) \in S
      /\ n \in Nat \ {0} /\ DOMAIN queue = 1..n /\ DOMAIN new = 1..(n - 1)
      /\ \A i \in 1..(n - 1) : new[i] = queue[i + 1]
      /\ Head(queue) = queue[1]
  BY HeadTailProperties, LenProperties, EmptySeq
<1> HIDE DEF new, n
<1>2. Range(queue) = {Head(queue)} \cup Range(new)
  <2>1. ASSUME NEW i \in 1..n PROVE queue[i] \in {Head(queue)} \cup Range(new)
    <3>1. CASE i = 1
      BY <1>1, <3>1
    <3>2. CASE i # 1
      <4>1. i - 1 \in 1..(n - 1) /\ queue[i] = new[i - 1]
        BY <1>1, <3>2
      <4> QED BY <1>1, <4>1 DEF Range
    <3> QED BY <3>1, <3>2
  <2>2. ASSUME NEW i \in 1..(n - 1) PROVE new[i] \in Range(queue)
    BY <1>1, <2>2 DEF Range
  <2>3. Head(queue) \in Range(queue)
    BY <1>1 DEF Range
  <2> QED BY <1>1, <2>1, <2>2, <2>3 DEF Range
<1>3. ASSUME NEW P, Once(queue, P)
      PROVE  Once(new, P)
  <2> SUFFICES ASSUME NEW i \in 1..(n - 1), NEW j \in 1..(n - 1), new[i] \in P, new[j] \in P
               PROVE  i = j
    BY <1>1 DEF Once
  <2>1. i + 1 \in 1..n /\ j + 1 \in 1..n /\ queue[i + 1] \in P /\ queue[j + 1] \in P
    BY <1>1
  <2> QED BY <1>1, <1>3, <2>1 DEF Once
<1>4. ASSUME NEW P, Once(queue, P), Head(queue) \in P
      PROVE  Range(new) \cap P = {}
  <2> SUFFICES ASSUME NEW i \in 1..(n - 1), new[i] \in P PROVE FALSE
    BY <1>1 DEF Range
  <2>1. i + 1 \in 1..n /\ 1 \in 1..n /\ queue[i + 1] \in P /\ queue[1] \in P /\ i + 1 # 1
    BY <1>1, <1>4
  <2> QED BY <1>1, <1>4, <2>1 DEF Once
<1> QED BY <1>1, <1>2, <1>3, <1>4 DEF new

\* What is left of a queue when its connection is lost.
LEMMA CutLemma ==
    ASSUME NEW S, NEW queue \in Seq(S), NEW n \in 0 .. Len(queue), NEW m \in S
    PROVE  /\ Append(SubSeq(queue, 1, n), m) \in Seq(S)
           /\ Range(Append(SubSeq(queue, 1, n), m)) \subseteq Range(queue) \cup {m}
           /\ \A P : Once(queue, P) /\ m \notin P
                        => Once(Append(SubSeq(queue, 1, n), m), P)
<1> DEFINE kept == SubSeq(queue, 1, n)
           l == Len(queue)
<1>1. /\ l \in Nat /\ DOMAIN queue = 1..l /\ n \in 0..l
      /\ \A i \in 1..l : queue[i] \in S
  BY LenProperties, ElementOfSeq
<1>2. /\ kept \in Seq(S) /\ Len(kept) = n
      /\ \A i \in 1..n : kept[i] = queue[i]
  <2>1. \A i \in 1..n : queue[i] \in S
    BY <1>1
  <2>2. /\ kept \in Seq(S) /\ Len(kept) = IF 1 <= n THEN n - 1 + 1 ELSE 0
        /\ \A i \in 1..(n - 1 + 1) : kept[i] = queue[1 + i - 1]
    BY <1>1, <2>1, SubSeqProperties
  <2> HIDE DEF kept
  <2> QED BY <1>1, <2>2
<1>3. DOMAIN kept = 1..n
  BY <1>2, LenProperties
<1> HIDE DEF kept, l
<1>4. Range(kept) \subseteq Range(queue) /\ \A P : Once(queue, P) => Once(kept, P)
  <2>1. \A i \in 1..n : i \in 1..l
    BY <1>1
  <2> QED BY <1>1, <1>2, <1>3, <2>1 DEF Range, Once
<1>5. /\ Append(kept, m) \in Seq(S)
      /\ Range(Append(kept, m)) = Range(kept) \cup {m}
      /\ \A P : Once(kept, P) /\ m \notin P => Once(Append(kept, m), P)
  BY <1>2, AppendLemma
<1> QED BY <1>4, <1>5 DEF kept

\* Two queues in a row.
LEMMA ConcatLemma ==
    ASSUME NEW S, NEW queue \in Seq(S), NEW more \in Seq(S)
    PROVE  /\ queue \o more \in Seq(S)
           /\ Range(queue \o more) = Range(queue) \cup Range(more)
           /\ \A P : Once(queue, P) /\ Range(more) \cap P = {} => Once(queue \o more, P)
<1> DEFINE new == queue \o more
           l == Len(queue)
           n == Len(more)
<1>1. /\ new \in Seq(S)
      /\ l \in Nat /\ n \in Nat /\ DOMAIN queue = 1..l /\ DOMAIN more = 1..n
      /\ DOMAIN new = 1..(l + n)
      /\ \A i \in 1..(l + n) : new[i] = IF i <= l THEN queue[i] ELSE more[i - l]
  BY ConcatProperties, LenProperties
<1> HIDE DEF new, l, n
<1>2. \A i \in 1..(l + n) : \/ i \in 1..l /\ new[i] = queue[i]
                            \/ i - l \in 1..n /\ new[i] = more[i - l]
  BY <1>1
<1>3. Range(new) \subseteq Range(queue) \cup Range(more)
  BY <1>1, <1>2 DEF Range
<1>4. Range(queue) \subseteq Range(new)
  <2>1. \A i \in 1..l : i \in 1..(l + n) /\ new[i] = queue[i]
    BY <1>1
  <2> QED BY <1>1, <2>1 DEF Range
<1>5. Range(more) \subseteq Range(new)
  <2>1. \A i \in 1..n : i + l \in 1..(l + n) /\ new[i + l] = more[i]
    BY <1>1
  <2> QED BY <1>1, <2>1 DEF Range
<1>6. ASSUME NEW P, Once(queue, P), Range(more) \cap P = {} PROVE Once(new, P)
  <2>1. \A i \in 1..(l + n) : new[i] \in P => i \in 1..l /\ queue[i] \in P
    BY <1>1, <1>2, <1>6 DEF Range
  <2> QED BY <1>1, <1>6, <2>1 DEF Once
<1> QED BY <1>1, <1>3, <1>4, <1>5, <1>6 DEF new

\* The empty queue.
LEMMA EmptyLemma ==
    ASSUME NEW S
    PROVE  /\ <<>> \in Seq(S) /\ Range(<<>>) = {}
           /\ \A P : Once(<<>>, P)
BY DEF Range, Once

\* SetToSeq lists a finite set.
LEMMA SetToSeqLemma ==
    ASSUME NEW S, IsFiniteSet(S)
    PROVE  SetToSeq(S) \in Seq(S)
<1>1. Cardinality(S) \in Nat /\ ExistsBijection(1..Cardinality(S), S)
  BY FS_CardinalityType
<1>2. \E f \in [1..Cardinality(S) -> S] : IsInjective(f)
  <2>1. PICK f \in Bijection(1..Cardinality(S), S) : TRUE
    BY <1>1 DEF ExistsBijection
  <2>2. f \in [1..Cardinality(S) -> S]
        /\ \A a, b \in 1..Cardinality(S) : f[a] = f[b] => a = b
    BY <2>1 DEF Bijection, Injection, IsInjective
  <2> QED BY <2>2 DEF IsInjective
<1>3. SetToSeq(S) \in [1..Cardinality(S) -> S]
  BY <1>2 DEF SetToSeq
<1> QED BY <1>1, <1>3

-----------------------------------------------------------------------------
(* The invariant *)

\* Messages, each with the number it carries.
Letters ==
    [kind : {"register", "disconnect", "end", "recovered", "refused", "ended"},
     n : Tokens]
    \cup [kind : {"request", "approved", "denied", "stop", "recover", "started"},
          n : Nat]
    \cup [kind : {"keydown", "keyup"}, n : Nat, key : Keys]

\* The types, but for the sockets registered for presence.
Typed ==
    /\ server = [ended |-> server.ended, due |-> server.due, auth |-> server.auth,
                 seat |-> server.seat, token |-> server.token,
                 present |-> server.present]
    /\ server.ended \in BOOLEAN
    /\ server.auth \in Controlled \cup {NoAuthorization}
    /\ server.seat \in [Roles -> Connections]
    /\ server.token \in [Roles -> Nat]
    /\ app \in [Roles -> AppRecords]
    /\ pressed \subseteq Keys /\ IsFiniteSet(pressed)
    /\ held \subseteq Keys /\ stuck \subseteq held
    /\ up \in [Roles -> [Sockets -> Seq(Letters)]]
    /\ down \in [Roles -> Seq(Letters)]
    /\ left \in [Bounded -> Nat]

Recovers == {m \in Letters : m.kind = "recover"}

\* What an application is told of its own seat.
Answers == {m \in Letters : \/ m.kind \in {"started", "refused"}
                            \/ m.kind = "recovered" /\ m.n # None}

Endings == {m \in Letters : m.kind = "ended"}

Asking(r)   == Range(up[r][app[r].socket]) \cap Recovers # {}
Answered(r) == Range(down[r]) \cap Answers # {}

\* A message that will bring the application the present token.
Renews(r, m) ==
    /\ m.kind \in {"started", "recovered"}
    /\ m.n = server.token[r]
    /\ m.kind = "recovered" =>
          app[r].session \/ (r = "teacher" /\ app[r].stored # None)

\* A connection asks for the seat at most once, and is answered at most once.
Seating(r) ==
    /\ \A s \in Sockets : s > app[r].socket => up[r][s] = <<>> /\ server.seat[r] # s
    /\ ~app[r].online => down[r] = <<>>
    /\ r = "student" /\ app[r].stored # None => app[r].session
    /\ app[r].online =>
          /\ Once(up[r][app[r].socket], Recovers)
          /\ Once(down[r], Answers)
          /\ Asking(r) => /\ ~Answered(r)
                          /\ server.seat[r] # app[r].socket
                          /\ app[r].startup = "settled"
                          /\ app[r].stored # None \/ server.ended
          /\ app[r].startup # "settled" =>
                /\ ~Answered(r)
                /\ ~Asking(r)
                /\ server.seat[r] # app[r].socket
          /\ server.seat[r] = app[r].socket =>
                \/ app[r].stored = server.token[r] /\ ~Answered(r)
                \/ \E m \in Range(down[r]) : Renews(r, m)

\* Only an attendance that is over is said to be, and nobody has a seat in it.
Over ==
    /\ server.ended => \A r \in Roles : server.seat[r] = None
    /\ \A r \in Roles : Range(down[r]) \cap Endings # {} => server.ended

Asks(q)     == Message("request", q)
Approves(q) == Message("approved", q)

\* Where the question is, until the student answers it, ...
Travelling(q) == \E s \in Sockets : Asks(q) \in Range(up["teacher"][s])
Arriving(q)   == Asks(q) \in Range(down["student"])
Considered(q) == app["student"].control = Control(q, "pending")

\* ... and where the answer is, if it was yes.
Granted(q) ==
    \/ \E s \in Sockets : Approves(q) \in Range(up["student"][s])
    \/ server.auth = Control(q, "active")
    \/ Approves(q) \in Range(down["teacher"])
    \/ app["teacher"].control = Control(q, "active")

\* The question is in one place only, it is a new one, and an answer means that
\* there is none.
Decided(q) ==
    /\ \A s \in Sockets : Once(up["teacher"][s], {Asks(q)})
    /\ \A s, z \in Sockets :
          Asks(q) \in Range(up["teacher"][s]) \cap Range(up["teacher"][z]) => s = z
    /\ Once(down["student"], {Asks(q)})
    /\ Travelling(q) => ~Arriving(q) /\ ~Considered(q)
    /\ Arriving(q) => ~Considered(q)
    /\ Granted(q) => ~Travelling(q) /\ ~Arriving(q) /\ ~Considered(q)
    /\ Travelling(q) \/ Arriving(q) \/ Considered(q) \/ Granted(q) => q > left["request"]

-----------------------------------------------------------------------------
(* What a step does to the queues *)

\* From the queues d to the queues e, messages of M are sent to applications
\* that are connected.
Delivered(d, e, M) ==
    /\ e \in [Roles -> Seq(Letters)]
    /\ \A r \in Roles :
          /\ Range(d[r]) \subseteq Range(e[r])
          /\ Range(e[r]) \subseteq Range(d[r]) \cup M
          /\ \A P : P \cap M = {} /\ Once(d[r], P) => Once(e[r], P)
          /\ ~app[r].online => e[r] = d[r]

\* One delivery after the other.
LEMMA DeliveredTransitive ==
    ASSUME NEW d, NEW e, NEW f, NEW M, Delivered(d, e, M), Delivered(e, f, M)
    PROVE  Delivered(d, f, M)
<1>1. f \in [Roles -> Seq(Letters)]
  BY DEF Delivered
<1>2. ASSUME NEW r \in Roles
      PROVE  /\ Range(d[r]) \subseteq Range(f[r])
             /\ Range(f[r]) \subseteq Range(d[r]) \cup M
             /\ \A P : P \cap M = {} /\ Once(d[r], P) => Once(f[r], P)
             /\ ~app[r].online => f[r] = d[r]
  BY DEF Delivered
<1> QED BY <1>1, <1>2 DEF Delivered

\* More might have been sent.
LEMMA DeliveredMore ==
    ASSUME NEW d, NEW e, NEW M, NEW N, Delivered(d, e, M), M \subseteq N
    PROVE  Delivered(d, e, N)
<1>1. ASSUME NEW r \in Roles, NEW P, P \cap N = {}, Once(d[r], P)
      PROVE  Once(e[r], P)
  <2>1. P \cap M = {}
    BY <1>1
  <2> QED BY <1>1, <2>1 DEF Delivered
<1> QED BY <1>1 DEF Delivered

\* Sending nothing.
LEMMA NothingDelivered ==
    ASSUME NEW d \in [Roles -> Seq(Letters)], NEW M
    PROVE  Delivered(d, d, M)
BY DEF Delivered

\* A message reaches one application, if it is still there.
LEMMA EmittedTo ==
    ASSUME NEW d \in [Roles -> Seq(Letters)], NEW r \in Roles, NEW s, NEW m \in Letters
    PROVE  /\ \A p \in Roles \ {r} : Emitted(d, r, s, m)[p] = d[p]
           /\ app[r].online /\ app[r].socket = s
                => Emitted(d, r, s, m)[r] = Append(d[r], m)
           /\ ~(app[r].online /\ app[r].socket = s) => Emitted(d, r, s, m) = d
BY DEF Emitted

\* A message that is emitted is delivered or lost.
LEMMA EmittedLemma ==
    ASSUME NEW d \in [Roles -> Seq(Letters)], NEW r \in Roles, NEW s, NEW m \in Letters
    PROVE  Delivered(d, Emitted(d, r, s, m), {m})
<1>1. CASE app[r].online /\ app[r].socket = s
  <2> DEFINE e == [d EXCEPT ![r] = Append(@, m)]
  <2>1. Emitted(d, r, s, m) = e
    BY <1>1 DEF Emitted
  <2>2. /\ Append(d[r], m) \in Seq(Letters)
        /\ Range(Append(d[r], m)) = Range(d[r]) \cup {m}
        /\ \A P : Once(d[r], P) /\ m \notin P => Once(Append(d[r], m), P)
    BY AppendLemma
  <2>3. /\ e \in [Roles -> Seq(Letters)] /\ e[r] = Append(d[r], m)
        /\ \A p \in Roles \ {r} : e[p] = d[p]
    BY <2>2
  <2> HIDE DEF e
  <2>4. ASSUME NEW p \in Roles
        PROVE  /\ Range(d[p]) \subseteq Range(e[p])
               /\ Range(e[p]) \subseteq Range(d[p]) \cup {m}
               /\ \A P : P \cap {m} = {} /\ Once(d[p], P) => Once(e[p], P)
               /\ ~app[p].online => e[p] = d[p]
    <3>1. CASE p = r
      BY <1>1, <2>2, <2>3, <3>1
    <3>2. CASE p # r
      BY <2>3, <3>2
    <3> QED BY <3>1, <3>2
  <2>5. Delivered(d, e, {m})
    BY <2>3, <2>4 DEF Delivered
  <2> QED BY <2>1, <2>5
<1>2. CASE ~(app[r].online /\ app[r].socket = s)
  <2>1. Emitted(d, r, s, m) = d
    BY <1>2 DEF Emitted
  <2> QED BY <2>1, NothingDelivered
<1> QED BY <1>1, <1>2

\* So is one that is announced to both.
LEMMA AnnouncedLemma ==
    ASSUME NEW d \in [Roles -> Seq(Letters)], NEW m \in Letters
    PROVE  Delivered(d, Announced(d, m), {m})
<1> DEFINE t == Emitted(d, "teacher", DeliverySocket("teacher"), m)
<1>1. Delivered(d, t, {m})
  BY EmittedLemma DEF Roles
<1>2. t \in [Roles -> Seq(Letters)]
  BY <1>1 DEF Delivered
<1> HIDE DEF t
<1>3. Delivered(t, Emitted(t, "student", DeliverySocket("student"), m), {m})
  BY <1>2, EmittedLemma DEF Roles
<1> QED BY <1>1, <1>3, DeliveredTransitive DEF Announced, t

\* A message is taken from the head of a queue to the server.
LEMMA HearsLemma ==
    ASSUME Typed, NEW r \in Roles, NEW s \in Sockets, NEW kinds, Hears(r, s, kinds)
    PROVE  /\ Heard(r, s) \in Letters /\ Heard(r, s).kind \in kinds
           /\ up' \in [Roles -> [Sockets -> Seq(Letters)]]
           /\ up[r][s] # <<>>
           /\ Range(up[r][s]) = {Heard(r, s)} \cup Range(up'[r][s])
           /\ \A P : Once(up[r][s], P) =>
                 /\ Once(up'[r][s], P)
                 /\ Heard(r, s) \in P => Range(up'[r][s]) \cap P = {}
           /\ \A p \in Roles, z \in Sockets : p # r \/ z # s => up'[p][z] = up[p][z]
<1>1. up \in [Roles -> [Sockets -> Seq(Letters)]] /\ up[r][s] \in Seq(Letters)
  BY DEF Typed
<1>2. up' = [up EXCEPT ![r][s] = Tail(up[r][s])] /\ up[r][s] # <<>>
      /\ Heard(r, s) = Head(up[r][s]) /\ Heard(r, s).kind \in kinds
  BY <1>1 DEF Hears, Heard
<1>3. /\ Tail(up[r][s]) \in Seq(Letters) /\ Head(up[r][s]) \in Letters
      /\ Range(up[r][s]) = {Head(up[r][s])} \cup Range(Tail(up[r][s]))
      /\ \A P : Once(up[r][s], P) =>
            /\ Once(Tail(up[r][s]), P)
            /\ Head(up[r][s]) \in P => Range(Tail(up[r][s])) \cap P = {}
  BY <1>1, <1>2, TailLemma
<1>4. /\ up' \in [Roles -> [Sockets -> Seq(Letters)]]
      /\ up'[r][s] = Tail(up[r][s])
      /\ \A p \in Roles, z \in Sockets : p # r \/ z # s => up'[p][z] = up[p][z]
  BY <1>1, <1>2, <1>3
<1> QED BY <1>2, <1>3, <1>4

\* A message is taken from the head of a queue to an application.
LEMMA ReadsLemma ==
    ASSUME Typed, NEW r \in Roles, NEW kinds, Reads(r, kinds)
    PROVE  /\ Read(r) \in Letters /\ Read(r).kind \in kinds
           /\ down' \in [Roles -> Seq(Letters)]
           /\ down[r] # <<>>
           /\ Range(down[r]) = {Read(r)} \cup Range(down'[r])
           /\ \A P : Once(down[r], P) =>
                 /\ Once(down'[r], P)
                 /\ Read(r) \in P => Range(down'[r]) \cap P = {}
           /\ \A p \in Roles \ {r} : down'[p] = down[p]
<1>1. down \in [Roles -> Seq(Letters)] /\ down[r] \in Seq(Letters)
  BY DEF Typed
<1>2. down' = [down EXCEPT ![r] = Tail(down[r])] /\ down[r] # <<>>
      /\ Read(r) = Head(down[r]) /\ Read(r).kind \in kinds
  BY <1>1 DEF Reads, Read
<1>3. /\ Tail(down[r]) \in Seq(Letters) /\ Head(down[r]) \in Letters
      /\ Range(down[r]) = {Head(down[r])} \cup Range(Tail(down[r]))
      /\ \A P : Once(down[r], P) =>
            /\ Once(Tail(down[r]), P)
            /\ Head(down[r]) \in P => Range(Tail(down[r])) \cap P = {}
  BY <1>1, <1>2, TailLemma
<1>4. /\ down' \in [Roles -> Seq(Letters)]
      /\ down'[r] = Tail(down[r])
      /\ \A p \in Roles \ {r} : down'[p] = down[p]
  BY <1>1, <1>2, <1>3
<1> QED BY <1>2, <1>3, <1>4

\* A message is sent over the current connection.
LEMMA SentLemma ==
    ASSUME Typed, NEW r \in Roles, NEW m \in Letters
    PROVE  LET s == app[r].socket IN
           /\ s \in Sockets
           /\ Sent(up, r, m) \in [Roles -> [Sockets -> Seq(Letters)]]
           /\ Sent(up, r, m)[r][s] # <<>>
           /\ Range(Sent(up, r, m)[r][s]) = Range(up[r][s]) \cup {m}
           /\ \A P : Once(up[r][s], P) /\ (m \notin P \/ Range(up[r][s]) \cap P = {})
                        => Once(Sent(up, r, m)[r][s], P)
           /\ \A p \in Roles, z \in Sockets :
                 p # r \/ z # s => Sent(up, r, m)[p][z] = up[p][z]
<1> DEFINE s == app[r].socket
           new == Append(up[r][s], m)
<1>1. s \in Sockets /\ up \in [Roles -> [Sockets -> Seq(Letters)]]
      /\ up[r][s] \in Seq(Letters)
  BY DEF Typed, AppRecords
<1>2. /\ new \in Seq(Letters) /\ new # <<>>
      /\ Range(new) = Range(up[r][s]) \cup {m}
      /\ \A P : Once(up[r][s], P) /\ (m \notin P \/ Range(up[r][s]) \cap P = {})
                   => Once(new, P)
  BY <1>1, AppendLemma
<1>3. Sent(up, r, m) = [up EXCEPT ![r][s] = new]
  BY <1>1 DEF Sent
<1> HIDE DEF s, new
<1>4. /\ Sent(up, r, m) \in [Roles -> [Sockets -> Seq(Letters)]]
      /\ Sent(up, r, m)[r][s] = new
      /\ \A p \in Roles, z \in Sockets : p # r \/ z # s => Sent(up, r, m)[p][z] = up[p][z]
  BY <1>1, <1>2, <1>3
<1> QED BY <1>1, <1>2, <1>4 DEF s

\* The connection of an application is lost.
LEMMA LossLemma ==
    ASSUME Typed, NEW r \in Roles, Cut(r)
    PROVE  /\ up' \in [Roles -> [Sockets -> Seq(Letters)]]
           /\ down' = [down EXCEPT ![r] = <<>>]
           /\ down' \in [Roles -> Seq(Letters)]
           /\ LET s == app[r].socket IN
              /\ Range(up'[r][s]) \subseteq Range(up[r][s]) \cup {Message("disconnect", None)}
              /\ \A P : Once(up[r][s], P) /\ Message("disconnect", None) \notin P
                           => Once(up'[r][s], P)
              /\ \A p \in Roles, z \in Sockets : p # r \/ z # s => up'[p][z] = up[p][z]
<1> DEFINE s == app[r].socket
           m == Message("disconnect", None)
<1>1. s \in Sockets /\ up \in [Roles -> [Sockets -> Seq(Letters)]]
      /\ up[r][s] \in Seq(Letters) /\ down \in [Roles -> Seq(Letters)]
  BY DEF Typed, AppRecords
<1>2. m \in Letters
  BY DEF Message, Letters, Tokens
<1>3. PICK n \in 0 .. Len(up[r][s]) :
         up' = [up EXCEPT ![r][s] = Append(SubSeq(@, 1, n), m)]
  BY DEF Cut
<1> DEFINE new == Append(SubSeq(up[r][s], 1, n), m)
<1>4. /\ new \in Seq(Letters) /\ Range(new) \subseteq Range(up[r][s]) \cup {m}
      /\ \A P : Once(up[r][s], P) /\ m \notin P => Once(new, P)
  BY <1>1, <1>2, CutLemma
<1>5. up' = [up EXCEPT ![r][s] = new]
  BY <1>1, <1>3
<1> HIDE DEF new
<1>6. /\ up' \in [Roles -> [Sockets -> Seq(Letters)]]
      /\ up'[r][s] = new
      /\ \A p \in Roles, z \in Sockets : p # r \/ z # s => up'[p][z] = up[p][z]
  BY <1>1, <1>4, <1>5
<1>7. down' = [down EXCEPT ![r] = <<>>] /\ down' \in [Roles -> Seq(Letters)]
  BY <1>1, EmptyLemma DEF Cut
<1> QED BY <1>4, <1>6, <1>7

\* The end of the attendance is announced, and so is that of a control.
Farewells == {m \in Letters : m.kind \in {"stop", "ended"}}

\* The end of the attendance is announced, and nobody keeps a seat.
LEMMA FinishLemma ==
    ASSUME Typed, Finish
    PROVE  /\ Delivered(down, down', Farewells)
           /\ server' = [server EXCEPT !.ended = TRUE, !.due = "no",
                                       !.seat = [r \in Roles |-> None],
                                       !.auth = NoAuthorization]
<1> DEFINE stop  == Message("stop", server.auth.request)
           ended == Message("ended", None)
<1>1. ended \in Farewells /\ ended \in Letters
  BY DEF Message, Farewells, Letters, Tokens
<1>2. server.auth # NoAuthorization => stop \in Farewells /\ stop \in Letters
  BY DEF Typed, Controlled, Message, Farewells, Letters
<1>3. PICK d : /\ d = IF server.auth = NoAuthorization THEN down ELSE Announced(down, stop)
               /\ down' = Announced(d, ended)
  BY DEF Finish
<1>4. Delivered(down, d, Farewells)
  <2>1. CASE server.auth = NoAuthorization
    BY <1>3, <2>1, NothingDelivered DEF Typed
  <2>2. CASE server.auth # NoAuthorization
    <3>1. Delivered(down, d, {stop})
      BY <1>2, <1>3, <2>2, AnnouncedLemma DEF Typed
    <3> QED BY <1>2, <2>2, <3>1, DeliveredMore
  <2> QED BY <2>1, <2>2
<1>5. Delivered(d, down', Farewells)
  <2>1. d \in [Roles -> Seq(Letters)]
    BY <1>4 DEF Delivered
  <2>2. Delivered(d, down', {ended})
    BY <1>1, <1>3, <2>1, AnnouncedLemma
  <2> QED BY <1>1, <2>2, DeliveredMore
<1> QED BY <1>4, <1>5, DeliveredTransitive DEF Finish

-----------------------------------------------------------------------------
(* Types *)

\* What a bound leaves is a natural number.
LEMMA UsedLemma ==
    ASSUME Typed, NEW limit \in Bounded, Used(limit)
    PROVE  /\ left' \in [Bounded -> Nat]
           /\ left[limit] \in Nat \ {0} /\ left'[limit] = left[limit] - 1
           /\ \A other \in Bounded \ {limit} : left'[other] = left[other]
<1>1. left[limit] \in Nat /\ left[limit] > 0 /\ left \in [Bounded -> Nat]
  BY DEF Typed, Used
<1>2. left[limit] - 1 \in Nat
  BY <1>1
<1> QED BY <1>1, <1>2 DEF Used

\* The types at the start, ...
LEMMA InitTyped == Init => Typed
<1> SUFFICES ASSUME Init PROVE Typed
  OBVIOUS
<1>1. Message("started", 1) \in Letters
  BY DEF Message, Letters
<1>2. <<Message("started", 1)>> \in Seq(Letters) /\ <<>> \in Seq(Letters)
  BY <1>1
<1>3. left \in [Bounded -> Nat]
  BY RemoteControlAssumption DEF Init
<1>4. app \in [Roles -> AppRecords]
  BY RemoteControlAssumption DEF Init, AppRecords, Tokens
<1>5. IsFiniteSet(pressed)
  BY FS_EmptySet DEF Init
<1>6. server.seat \in [Roles -> Connections] /\ server.token \in [Roles -> Nat]
  BY RemoteControlAssumption DEF Init, Connections
<1> QED BY <1>2, <1>3, <1>4, <1>5, <1>6 DEF Init, Typed

\* The server takes a message, or one of its timers fires; the applications and
\* their keys are left alone.
ServerMoves ==
    \/ \E r \in Roles, s \in Sockets : ServerHears(r, s)
    \/ RequestTimeout
    \/ DeadlinePasses
    \/ ExpireRecovery

\* ... and what keeps them: the server, ...
LEMMA ServerTyped ==
    ASSUME Typed, ServerMoves
    PROVE  Typed'
<1>0. /\ server = [ended |-> server.ended, due |-> server.due, auth |-> server.auth,
                   seat |-> server.seat, token |-> server.token,
                   present |-> server.present]
      /\ server.ended \in BOOLEAN /\ server.auth \in Controlled \cup {NoAuthorization}
      /\ server.seat \in [Roles -> Connections] /\ server.token \in [Roles -> Nat]
      /\ down \in [Roles -> Seq(Letters)]
  BY DEF Typed
<1> DEFINE Fine ==
             /\ server' = [ended |-> server'.ended, due |-> server'.due,
                           auth |-> server'.auth, seat |-> server'.seat,
                           token |-> server'.token, present |-> server'.present]
             /\ server'.ended \in BOOLEAN
             /\ server'.auth \in Controlled \cup {NoAuthorization}
             /\ server'.seat \in [Roles -> Connections]
             /\ server'.token \in [Roles -> Nat]
             /\ down' \in [Roles -> Seq(Letters)]
<1>1. UNCHANGED server /\ UNCHANGED down => Fine
  BY <1>0
<1>2. Finish => Fine
  <2> SUFFICES ASSUME Finish PROVE Fine
    OBVIOUS
  <2>1. /\ down' \in [Roles -> Seq(Letters)]
        /\ server' = [server EXCEPT !.ended = TRUE, !.due = "no",
                                       !.seat = [r \in Roles |-> None],
                                       !.auth = NoAuthorization]
    BY FinishLemma DEF Delivered
  <2> QED BY <1>0, <2>1 DEF Connections
<1>3. ASSUME NEW r \in Roles, NEW s \in Sockets, ServerHears(r, s)
      PROVE  Fine /\ up' \in [Roles -> [Sockets -> Seq(Letters)]]
             /\ UNCHANGED <<app, pressed, held, stuck, left>>
  <2>1. PICK kinds : Hears(r, s, kinds) /\ UNCHANGED <<app, pressed, held, stuck, left>>
    BY <1>3 DEF ServerHears, Register, Disconnected, RecoverSession, EndSession,
                OnRequest, OnInput, OnAnswer, OnStop
  <2>2. Heard(r, s) \in Letters /\ up' \in [Roles -> [Sockets -> Seq(Letters)]]
    BY <2>1, HearsLemma
  <2>3. CASE Register(r, s)
    BY <1>0, <2>1, <2>2, <2>3 DEF Register
  <2>4. CASE Disconnected(r, s)
    <3>1. server'.seat = [server.seat EXCEPT ![r] = IF @ = s THEN None ELSE @]
      BY <1>0, <2>4 DEF Disconnected
    <3>2. server'.seat \in [Roles -> Connections]
      BY <1>0, <3>1 DEF Connections
    <3> QED BY <1>0, <2>1, <2>2, <2>4, <3>2 DEF Disconnected
  <2>5. CASE RecoverSession(r, s)
    <3>1. CASE Recovered(r, s)
      <4> DEFINE other == Message("recovered", None)
                 mine  == Message("recovered", server.token[r] + 1)
                 d     == Emitted(down, Peer(r), DeliverySocket(Peer(r)), other)
      <4>1. server.token[r] + 1 \in Nat /\ Peer(r) \in Roles
        BY <1>0 DEF Peer, Roles
      <4>2. other \in Letters /\ mine \in Letters
        BY <4>1 DEF Message, Letters, Tokens
      <4>3. d \in [Roles -> Seq(Letters)]
        BY <1>0, <4>1, <4>2, EmittedLemma DEF Delivered
      <4> HIDE DEF d
      <4>4. Emitted(d, r, s, mine) \in [Roles -> Seq(Letters)]
        BY <4>2, <4>3, EmittedLemma DEF Delivered
      <4>5. down' \in [Roles -> Seq(Letters)]
        BY <3>1, <4>4 DEF Recovered, d
      <4>6. /\ server'.seat = [server.seat EXCEPT ![r] = s]
            /\ server'.token = [server.token EXCEPT ![r] = @ + 1]
        BY <1>0, <3>1 DEF Recovered
      <4>7. server'.seat \in [Roles -> Connections] /\ server'.token \in [Roles -> Nat]
        BY <1>0, <4>1, <4>6 DEF Connections
      <4> QED BY <1>0, <2>2, <2>1, <3>1, <4>5, <4>7 DEF Recovered
    <3>2. CASE UNCHANGED server /\ down' = Emitted(down, r, s, Message("refused", None))
      <4>1. Message("refused", None) \in Letters
        BY DEF Message, Letters, Tokens
      <4>2. down' \in [Roles -> Seq(Letters)]
        BY <1>0, <3>2, <4>1, EmittedLemma DEF Delivered
      <4> QED BY <1>0, <2>1, <2>2, <3>2, <4>2
    <3> QED BY <2>5, <3>1, <3>2 DEF RecoverSession
  <2>6. CASE EndSession(r, s)
    BY <1>1, <1>2, <2>1, <2>2, <2>6 DEF EndSession
  <2>7. CASE r = "teacher" /\ OnRequest(s)
    <3>1. Heard(r, s).n \in Nat
      BY <2>2, <2>7, HearsLemma DEF OnRequest, Letters
    <3>2. /\ Control(Heard(r, s).n, "pending") \in Controlled
          /\ Message("request", Heard(r, s).n) \in Letters
      BY <3>1 DEF Control, Controlled, Message, Letters
    <3>3. Emitted(down, "student", server.seat["student"], Message("request", Heard(r, s).n))
             \in [Roles -> Seq(Letters)]
      BY <1>0, <3>2, EmittedLemma DEF Delivered, Roles
    <3> QED BY <1>0, <1>1, <2>1, <2>2, <2>7, <3>2, <3>3 DEF OnRequest
  <2>8. CASE r = "teacher" /\ OnInput(s)
    <3>1. Emitted(down, "student", server.seat["student"], Heard(r, s))
             \in [Roles -> Seq(Letters)]
      BY <1>0, <2>2, EmittedLemma DEF Delivered, Roles
    <3> QED BY <1>0, <2>1, <2>2, <2>8, <3>1 DEF OnInput
  <2>9. CASE r = "student" /\ OnAnswer(s)
    <3>1. Heard(r, s).n \in Nat
      BY <2>2, <2>9, HearsLemma DEF OnAnswer, Letters
    <3>2. Control(Heard(r, s).n, "active") \in Controlled
      BY <3>1 DEF Control, Controlled
    <3>3. Emitted(down, "teacher", server.seat["teacher"], Heard(r, s))
             \in [Roles -> Seq(Letters)]
      BY <1>0, <2>2, EmittedLemma DEF Delivered, Roles
    <3> QED BY <1>0, <1>1, <2>1, <2>2, <2>9, <3>2, <3>3 DEF OnAnswer
  <2>10. CASE OnStop(r, s)
    <3>1. Emitted(down, Peer(r), server.seat[Peer(r)], Heard(r, s))
             \in [Roles -> Seq(Letters)]
      BY <1>0, <2>2, EmittedLemma DEF Delivered, Roles, Peer
    <3> QED BY <1>0, <1>1, <2>1, <2>2, <2>10, <3>1 DEF OnStop
  <2> QED BY <1>3, <2>3, <2>4, <2>5, <2>6, <2>7, <2>8, <2>9, <2>10 DEF ServerHears
<1>4. CASE RequestTimeout
  <2>1. server.auth.request \in Nat
    BY <1>0, <1>4 DEF RequestTimeout, NoAuthorization, Controlled
  <2>2. Message("stop", server.auth.request) \in Letters
    BY <2>1 DEF Message, Letters
  <2>3. down' \in [Roles -> Seq(Letters)]
    BY <1>0, <1>4, <2>2, AnnouncedLemma DEF Delivered, RequestTimeout
  <2>4. Fine /\ left' \in [Bounded -> Nat]
    BY <1>0, <1>4, <2>3, UsedLemma DEF RequestTimeout, Bounded
  <2> QED BY <1>4, <2>4 DEF RequestTimeout, Typed
<1>5. CASE DeadlinePasses
  BY <1>0, <1>5 DEF DeadlinePasses, Typed
<1>6. CASE ExpireRecovery
  <2>1. Fine
    BY <1>2, <1>6 DEF ExpireRecovery
  <2> QED BY <1>6, <2>1 DEF ExpireRecovery, Typed
<1>7. CASE \E r \in Roles, s \in Sockets : ServerHears(r, s)
  BY <1>3, <1>7 DEF Typed
<1> QED BY <1>4, <1>5, <1>6, <1>7 DEF ServerMoves

\* The record of an application is changed field by field.
LEMMA AppLemma ==
    ASSUME Typed, NEW r \in Roles
    PROVE  /\ app[r] \in AppRecords
           /\ \A a \in AppRecords :
                 /\ \A x \in BOOLEAN : /\ [a EXCEPT !.online = x] \in AppRecords
                                       /\ [a EXCEPT !.session = x] \in AppRecords
                 /\ \A x \in Sockets : [a EXCEPT !.socket = x] \in AppRecords
                 /\ \A x \in Controlled \cup {Inactive} : [a EXCEPT !.control = x] \in AppRecords
                 /\ \A x \in Tokens : [a EXCEPT !.stored = x] \in AppRecords
                 /\ \A x \in {"settled", "asking", "ignored"} :
                       [a EXCEPT !.startup = x] \in AppRecords
           /\ \A a \in AppRecords : [app EXCEPT ![r] = a] \in [Roles -> AppRecords]
<1>1. app \in [Roles -> AppRecords]
  BY DEF Typed
<1> QED BY <1>1 DEF AppRecords

\* An application that starts again, with whatever token its file holds.
LEMMA RestartLemma ==
    ASSUME Typed, NEW r \in Roles, Restart(r)
    PROVE  /\ app' \in [Roles -> AppRecords]
           /\ ~app'[r].online /\ app'[r].socket = app[r].socket
           /\ r = "student" /\ app'[r].stored # None => app'[r].session
           /\ \A p \in Roles \ {r} : app'[p] = app[p]
<1> DEFINE a(token) ==
            [online |-> FALSE, socket |-> app[r].socket, control |-> Inactive,
             stored |-> token, disk |-> {token} \ {None},
             session |-> r = "student" /\ token # None,
             startup |-> IF token = None THEN "settled" ELSE "asking"]
<1>1. /\ app \in [Roles -> AppRecords] /\ app[r].socket \in Sockets
      /\ app[r].disk \in SUBSET Nat
  BY DEF Typed, AppRecords
<1>2. PICK token \in app[r].disk \cup {None} : app' = [app EXCEPT ![r] = a(token)]
  BY Zenon DEF Restart
<1>3. PICK b : b = a(token)
  OBVIOUS
<1>4. token \in Tokens /\ {token} \ {None} \in SUBSET Nat
  BY <1>1 DEF Tokens
<1>5. b \in AppRecords
  BY <1>1, <1>3, <1>4 DEF AppRecords
<1>6. /\ ~b.online /\ b.socket = app[r].socket
      /\ r = "student" /\ b.stored # None => b.session
  BY <1>3
<1> HIDE DEF a
<1> QED BY <1>1, <1>2, <1>3, <1>5, <1>6

\* Both applications: connections, restarts and clicks.
AppMoves(r) == Clicks(r) \/ Connect(r) \/ Lose(r) \/ Restart(r)

\* ... the connections and clicks of an application, ...
LEMMA AppTyped ==
    ASSUME Typed, NEW r \in Roles, AppMoves(r)
    PROVE  Typed'
<1>0. /\ app \in [Roles -> AppRecords] /\ app[r] \in AppRecords
      /\ up \in [Roles -> [Sockets -> Seq(Letters)]]
      /\ down \in [Roles -> Seq(Letters)] /\ left \in [Bounded -> Nat]
      /\ server' = server
      /\ app[r].stored \in Tokens /\ app[r].disk \in SUBSET Nat
      /\ app[r].control \in Controlled \cup {Inactive}
  BY DEF Typed, AppMoves, Clicks, Resume, Discard, ClickEnd, ClickStop, Connect, Lose, Restart,
         AppRecords
<1> DEFINE Fine == /\ app' \in [Roles -> AppRecords]
                   /\ up' \in [Roles -> [Sockets -> Seq(Letters)]]
                   /\ down' \in [Roles -> Seq(Letters)]
                   /\ left' \in [Bounded -> Nat]
<1>1. None \in Tokens /\ Inactive \in Controlled \cup {Inactive}
      /\ {TRUE, FALSE} \subseteq BOOLEAN
  BY DEF Tokens
<1>2. \A n \in Tokens : Message("end", n) \in Letters
      /\ (n # None => Message("recover", n) \in Letters)
  BY DEF Message, Letters, Tokens
<1>3. CASE Resume(r)
  <2>1. CASE /\ app[r].stored # None
             /\ app' = [app EXCEPT ![r].startup = "settled"]
             /\ up' = Sent(up, r, Message("recover", app[r].stored))
    <3>1. up' \in [Roles -> [Sockets -> Seq(Letters)]]
      BY <1>0, <1>2, <2>1, SentLemma
    <3>2. app' \in [Roles -> AppRecords]
      BY <1>0, <2>1, AppLemma
    <3> QED BY <1>0, <1>3, <3>1, <3>2 DEF Resume, Typed
  <2>2. CASE app' = [app EXCEPT ![r].startup = "ignored"] /\ UNCHANGED up
    <3>1. app' \in [Roles -> AppRecords]
      BY <1>0, <2>2, AppLemma
    <3> QED BY <1>0, <1>3, <2>2, <3>1 DEF Resume, Typed
  <2> QED BY <1>3, <2>1, <2>2 DEF Resume
<1>4. CASE Discard(r)
  <2>1. up' \in [Roles -> [Sockets -> Seq(Letters)]]
    BY <1>0, <1>2, <1>4, SentLemma DEF Discard
  <2>2. app' \in [Roles -> AppRecords]
    BY <1>0, <1>1, <1>4 DEF Discard, AppRecords
  <2> QED BY <1>0, <1>4, <2>1, <2>2 DEF Discard, Typed
<1>5. CASE ClickEnd(r)
  <2>1. up' \in [Roles -> [Sockets -> Seq(Letters)]] /\ left' \in [Bounded -> Nat]
    BY <1>1, <1>2, <1>5, SentLemma, UsedLemma DEF ClickEnd, Bounded
  <2> QED BY <1>0, <1>5, <2>1 DEF ClickEnd, Typed
<1>6. CASE ClickStop(r)
  <2>1. app[r].control.request \in Nat
    BY <1>0, <1>6 DEF ClickStop, Controlled
  <2>2. Message("stop", app[r].control.request) \in Letters
    BY <2>1 DEF Message, Letters
  <2>3. up' \in [Roles -> [Sockets -> Seq(Letters)]]
    BY <1>6, <2>2, SentLemma DEF ClickStop
  <2>4. app' \in [Roles -> AppRecords]
    BY <1>0, <1>6 DEF ClickStop, AppRecords
  <2>5. pressed' \in {pressed, {}} /\ <<held', stuck'>> \in {<<held, stuck>>, <<{}, {}>>}
    BY <1>6 DEF ClickStop, Let
  <2> QED BY <1>0, <1>6, <2>3, <2>4, <2>5, FS_EmptySet DEF ClickStop, Typed
<1>7. CASE Connect(r)
  <2> DEFINE s == app[r].socket + 1
             hello == <<Message("register", None)>>
             more  == IF Recoverable(app[r]) THEN <<Message("recover", app[r].stored)>>
                                             ELSE <<>>
  <2>1. s \in Sockets
    BY <1>7 DEF Connect
  <2>2. hello \in Seq(Letters) /\ more \in Seq(Letters)
    <3>1. Message("register", None) \in Letters
      BY DEF Message, Letters, Tokens
    <3>2. Recoverable(app[r]) => Message("recover", app[r].stored) \in Letters
      BY <1>0, <1>2 DEF Recoverable
    <3> QED BY <3>1, <3>2
  <2>3. hello \o more \in Seq(Letters)
    BY <2>2, ConcatLemma
  <2>4. up' = [up EXCEPT ![r][s] = hello \o more]
    BY <1>7 DEF Connect
  <2> HIDE DEF hello, more
  <2>5. up' \in [Roles -> [Sockets -> Seq(Letters)]]
    BY <1>0, <2>1, <2>3, <2>4
  <2>6. app' \in [Roles -> AppRecords]
    BY <1>0, <1>1, <1>7, <2>1 DEF Connect, AppRecords
  <2> QED BY <1>0, <1>7, <2>5, <2>6 DEF Connect, Typed
<1>8. CASE Lose(r)
  <2>1. /\ up' \in [Roles -> [Sockets -> Seq(Letters)]]
        /\ down' \in [Roles -> Seq(Letters)] /\ left' \in [Bounded -> Nat]
    BY <1>8, LossLemma, UsedLemma DEF Lose, Bounded
  <2>2. app' \in [Roles -> AppRecords]
    BY <1>0, <1>1, <1>8, AppLemma DEF Lose
  <2> QED BY <1>0, <1>8, <2>1, <2>2 DEF Lose, Typed
<1>9. CASE Restart(r)
  <2>1. /\ up' \in [Roles -> [Sockets -> Seq(Letters)]]
        /\ down' \in [Roles -> Seq(Letters)] /\ left' \in [Bounded -> Nat]
    BY <1>0, <1>9, LossLemma, UsedLemma DEF Restart, Bounded
  <2>2. app' \in [Roles -> AppRecords]
    BY <1>9, RestartLemma
  <2>3. pressed' \in {pressed, {}} /\ <<held', stuck'>> \in {<<held, stuck>>, <<{}, {}>>}
    BY <1>9 DEF Restart, Let
  <2> QED BY <1>0, <1>9, <2>1, <2>2, <2>3, FS_EmptySet DEF Restart, Typed
<1> QED BY <1>3, <1>4, <1>5, <1>6, <1>7, <1>8, <1>9 DEF AppMoves, Clicks

\* The keyup messages of FocusLost.
Releases ==
    [i \in DOMAIN SetToSeq(pressed) |->
        Input("keyup", app["teacher"].control.request, SetToSeq(pressed)[i])]

\* The keys that the professor lets go of are a queue of messages.
LEMMA ReleasesLemma ==
    ASSUME Typed, Controls
    PROVE  /\ Releases \in Seq(Letters)
           /\ \A m \in Range(Releases) : m.kind = "keyup"
<1>1. app["teacher"].control.request \in Nat
  BY DEF Typed, Controls, AppRecords, Controlled, Inactive, Roles
<1>2. SetToSeq(pressed) \in Seq(Keys)
  <2>1. SetToSeq(pressed) \in Seq(pressed)
    BY SetToSeqLemma DEF Typed
  <2> QED BY <2>1 DEF Typed
<1>3. \A k \in Keys : Input("keyup", app["teacher"].control.request, k) \in Letters
  BY <1>1 DEF Input, Letters
<1> DEFINE q == SetToSeq(pressed)
<1>4. Len(q) \in Nat /\ DOMAIN q = 1..Len(q) /\ \A i \in 1..Len(q) : q[i] \in Keys
  BY <1>2, LenProperties, ElementOfSeq
<1> HIDE DEF q
<1>5. Releases = [i \in 1..Len(q) |->
                    Input("keyup", app["teacher"].control.request, q[i])]
  BY <1>4 DEF Releases, q
<1>6. Releases \in [1..Len(q) -> Letters]
  BY <1>3, <1>4, <1>5
<1> QED BY <1>4, <1>5, <1>6 DEF Range, Input

\* ... the professor's keys, ...
LEMMA ProfessorTyped ==
    ASSUME Typed, Professor
    PROVE  Typed'
<1>0. /\ app \in [Roles -> AppRecords] /\ app["teacher"] \in AppRecords
      /\ up \in [Roles -> [Sockets -> Seq(Letters)]] /\ left \in [Bounded -> Nat]
      /\ server' = server /\ down' = down /\ held' = held /\ stuck' = stuck
      /\ "teacher" \in Roles
  BY DEF Typed, Roles, Professor, RequestRemoteControl, FocusLost, Stroke
<1>1. CASE RequestRemoteControl
  <2>1. left["request"] \in Nat /\ left' \in [Bounded -> Nat]
    BY <1>0, <1>1, UsedLemma DEF RequestRemoteControl, Bounded
  <2>2. /\ Message("request", left["request"]) \in Letters
        /\ Control(left["request"], "pending") \in Controlled
    BY <2>1 DEF Message, Letters, Control, Controlled
  <2>3. up' \in [Roles -> [Sockets -> Seq(Letters)]]
    BY <1>0, <1>1, <2>2, SentLemma DEF RequestRemoteControl
  <2>4. app' \in [Roles -> AppRecords]
    BY <1>0, <1>1, <2>2, AppLemma DEF RequestRemoteControl
  <2> QED BY <1>0, <1>1, <2>1, <2>3, <2>4 DEF RequestRemoteControl, Typed
<1>2. ASSUME NEW kind \in {"keydown", "keyup"}, NEW k \in Keys, Stroke(kind, k)
      PROVE  Typed'
  <2>1. app["teacher"].control.request \in Nat
    BY <1>0, <1>2 DEF Stroke, Controls, AppRecords, Controlled, Inactive
  <2>2. Input(kind, app["teacher"].control.request, k) \in Letters
    BY <2>1 DEF Input, Letters
  <2>3. up' \in [Roles -> [Sockets -> Seq(Letters)]]
    BY <1>0, <1>2, <2>2, SentLemma DEF Stroke
  <2>4. left' \in [Bounded -> Nat]
    BY <1>2, UsedLemma DEF Stroke, Bounded
  <2>5. pressed' \subseteq Keys /\ IsFiniteSet(pressed')
    <3>1. pressed \subseteq Keys /\ IsFiniteSet(pressed)
      BY DEF Typed
    <3>2. pressed' \in {pressed \cup {k}, pressed \ {k}, {}}
      BY <1>2 DEF Stroke
    <3>3. IsFiniteSet(pressed \cup {k}) /\ IsFiniteSet(pressed \ {k}) /\ IsFiniteSet({})
      BY <3>1, FS_AddElement, FS_RemoveElement, FS_EmptySet
    <3> QED BY <3>1, <3>2, <3>3
  <2> QED BY <1>0, <1>2, <2>3, <2>4, <2>5 DEF Stroke, Typed
<1>3. CASE FocusLost
  <2>1. up' \in [Roles -> [Sockets -> Seq(Letters)]]
    <3>1. CASE up' = up
      BY <1>0, <3>1
    <3>2. CASE up' = [up EXCEPT !["teacher"][app["teacher"].socket] = @ \o Releases]
      <4> DEFINE s == app["teacher"].socket
      <4>1. s \in Sockets /\ up["teacher"][s] \in Seq(Letters)
        BY <1>0 DEF AppRecords
      <4>2. up["teacher"][s] \o Releases \in Seq(Letters)
        BY <1>3, <4>1, ReleasesLemma, ConcatLemma DEF FocusLost
      <4> QED BY <1>0, <3>2, <4>1, <4>2
    <3> QED BY <1>3, <3>1, <3>2 DEF FocusLost, Releases
  <2> QED BY <1>0, <1>3, <2>1, FS_EmptySet DEF FocusLost, Typed
<1> QED BY <1>1, <1>2, <1>3 DEF Professor

\* ... the student's answer, ...
LEMMA StudentTyped ==
    ASSUME Typed, Student
    PROVE  Typed'
<1>1. PICK kind \in {"approved", "denied"} : Answer(kind)
  BY DEF Student
<1>2. /\ app \in [Roles -> AppRecords] /\ app["student"] \in AppRecords /\ "student" \in Roles
  BY DEF Typed, Roles
<1>3. app["student"].control.request \in Nat
  BY <1>1, <1>2 DEF Answer, AppRecords, Controlled, Inactive
<1>4. /\ Message(kind, app["student"].control.request) \in Letters
      /\ Control(app["student"].control.request, "active") \in Controlled
  BY <1>3 DEF Message, Letters, Control, Controlled
<1>5. up' \in [Roles -> [Sockets -> Seq(Letters)]]
  BY <1>1, <1>2, <1>4, SentLemma DEF Answer
<1>6. app' \in [Roles -> AppRecords]
  BY <1>1, <1>2, <1>4, AppLemma DEF Answer
<1> QED BY <1>1, <1>5, <1>6 DEF Answer, Typed

\* Saving and forgetting a token.
LEMMA SavedLemma ==
    ASSUME NEW a \in AppRecords, NEW token \in Tokens
    PROVE  Saved(a, token) \in AppRecords /\ Forgotten(a) \in AppRecords
<1>1. CASE token = None
  BY <1>1 DEF AppRecords, Saved, Forgotten, Tokens
<1>2. CASE token # None
  BY <1>2 DEF AppRecords, Saved, Forgotten, Tokens
<1> QED BY <1>1, <1>2

\* The token is saved and nothing else changes.
LEMMA SavedFields ==
    ASSUME NEW a \in AppRecords, NEW token \in Tokens
    PROVE  LET b == Saved(a, token) IN
           /\ b.stored = (IF token = None THEN a.stored ELSE token)
           /\ b.online = a.online /\ b.socket = a.socket /\ b.startup = a.startup
           /\ b.session = a.session
<1>1. CASE token = None
  BY <1>1 DEF Saved
<1>2. CASE token # None
  BY <1>2 DEF AppRecords, Saved
<1> QED BY <1>1, <1>2

\* ... what an application reads, ...
LEMMA ReaderTyped ==
    ASSUME Typed, NEW r \in Roles, ApplicationReads(r)
    PROVE  Typed'
<1>0. /\ app \in [Roles -> AppRecords] /\ app[r] \in AppRecords
      /\ server' = server /\ up' = up
      /\ pressed \subseteq Keys /\ IsFiniteSet(pressed)
      /\ held \subseteq Keys /\ stuck \subseteq held
      /\ left \in [Bounded -> Nat] /\ IsFiniteSet({})
  BY FS_EmptySet
     DEF Typed, ApplicationReads, ReadStarted, ReadRecovered, ReadEnded, ReadRefused,
         ReadStop, ReadRequest, ReadInput, ReadAnswer
<1>1. PICK kinds : Reads(r, kinds)
  BY DEF ApplicationReads, ReadStarted, ReadRecovered, ReadEnded, ReadRefused,
         ReadStop, ReadRequest, ReadInput, ReadAnswer
<1>2. Read(r) \in Letters /\ Read(r).n \in Tokens /\ down' \in [Roles -> Seq(Letters)]
  <2>1. Read(r) \in Letters /\ down' \in [Roles -> Seq(Letters)]
    BY <1>1, ReadsLemma
  <2> QED BY <2>1 DEF Letters, Tokens
<1> SUFFICES /\ app' \in [Roles -> AppRecords]
             /\ pressed' \subseteq Keys /\ IsFiniteSet(pressed')
             /\ held' \subseteq Keys /\ stuck' \subseteq held'
             /\ left' \in [Bounded -> Nat]
  BY <1>0, <1>2 DEF Typed
<1>3. CASE ReadStarted(r)
  <2> DEFINE a == Saved(app[r], Read(r).n)
             b == [a EXCEPT !.session = TRUE, !.control = Inactive]
  <2>1. a \in AppRecords
    BY <1>0, <1>2, SavedLemma
  <2> HIDE DEF a
  <2>2. b \in AppRecords
    BY <2>1 DEF AppRecords
  <2>3. app' = [app EXCEPT ![r] = b]
    BY <1>0, <1>3 DEF ReadStarted, a
  <2> HIDE DEF b
  <2> QED BY <1>0, <1>3, <2>2, <2>3 DEF ReadStarted, Let
<1>4. CASE ReadRecovered(r)
  <2> DEFINE a == Saved(app[r], Read(r).n)
             b == [a EXCEPT !.session = TRUE]
  <2>1. a \in AppRecords
    BY <1>0, <1>2, SavedLemma
  <2> HIDE DEF a
  <2>2. b \in AppRecords
    BY <2>1 DEF AppRecords
  <2>3. app' \in {app, [app EXCEPT ![r] = b]}
    BY <1>0, <1>4 DEF ReadRecovered, a
  <2> HIDE DEF b
  <2> QED BY <1>0, <1>4, <2>2, <2>3 DEF ReadRecovered
<1>5. CASE ReadEnded(r)
  <2> DEFINE a == Forgotten(app[r])
             b == [a EXCEPT !.session = (r = "student"), !.control = Inactive]
  <2>1. a \in AppRecords
    BY <1>0, <1>2, SavedLemma
  <2> HIDE DEF a
  <2>2. b \in AppRecords
    BY <2>1 DEF AppRecords
  <2>3. app' \in {app, [app EXCEPT ![r] = b]}
    BY <1>0, <1>5 DEF ReadEnded, a
  <2> HIDE DEF b
  <2> QED BY <1>0, <1>5, <2>2, <2>3 DEF ReadEnded, Let
<1>6. CASE ReadRefused(r)
  <2>1. Forgotten(app[r]) \in AppRecords
    BY <1>0, <1>2, SavedLemma
  <2> QED BY <1>0, <1>6, <2>1 DEF ReadRefused
<1>7. CASE ReadStop(r)
  <2>1. /\ app' \in {app, [app EXCEPT ![r].control = Inactive]}
        /\ pressed' \in {pressed, {}} /\ left' = left
        /\ <<held', stuck'>> \in {<<held, stuck>>, <<{}, {}>>}
    BY <1>0, <1>7 DEF ReadStop, Let
  <2>2. [app EXCEPT ![r].control = Inactive] \in [Roles -> AppRecords]
    BY <1>0, AppLemma
  <2> QED BY <1>0, <2>1, <2>2
<1>8. CASE r = "student" /\ ReadRequest
  <2>1. Read(r).n \in Nat
    BY <1>8, ReadsLemma DEF ReadRequest, Letters
  <2>2. Control(Read(r).n, "pending") \in Controlled
    BY <2>1 DEF Control, Controlled
  <2> QED BY <1>0, <1>8, <2>2, AppLemma DEF ReadRequest
<1>9. CASE r = "student" /\ ReadInput
  <2>1. Read(r).key \in Keys
    BY <1>9, ReadsLemma DEF ReadInput, Letters
  <2> DEFINE k == Read(r).key
  <2>2. /\ app' = app /\ pressed' = pressed
        /\ \/ UNCHANGED <<held, stuck, left>>
           \/ /\ held' \in {held \cup {k}, held \ {k}} /\ stuck' = stuck \ {k} /\ left' = left
           \/ held' = held /\ stuck' \in {stuck, stuck \cup (held \cap {k})} /\ Used("fault")
    BY <1>9 DEF ReadInput, Injected, Refused
  <2>3. Used("fault") => left' \in [Bounded -> Nat]
    BY <1>0, UsedLemma DEF Bounded
  <2> QED BY <1>0, <2>1, <2>2, <2>3
<1>10. CASE r = "teacher" /\ ReadAnswer
  <2>1. Read(r).n \in Nat
    BY <1>10, ReadsLemma DEF ReadAnswer, Letters
  <2>2. Control(Read(r).n, "active") \in Controlled
    BY <2>1 DEF Control, Controlled
  <2> QED BY <1>0, <1>10, <2>2, AppLemma DEF ReadAnswer
<1> QED BY <1>3, <1>4, <1>5, <1>6, <1>7, <1>8, <1>9, <1>10 DEF ApplicationReads

\* ... and no step at all.
LEMMA StillTyped ==
    ASSUME Typed, UNCHANGED vars
    PROVE  Typed'
BY DEF Typed, vars

-----------------------------------------------------------------------------
(* Seats *)

\* A step that recovers no seat and answers no recovery: an application keeps
\* what it is about to ask and to be told of its seat, or loses it.
LEMMA SeatingKept ==
    ASSUME Typed, Typed', Over', NEW r \in Roles, Seating(r),
           server'.token[r] = server.token[r],
           server'.seat[r] \in {server.seat[r], None},
           server.ended => server'.ended,
           app'[r].online = app[r].online, app'[r].socket = app[r].socket,
           app'[r].startup = app[r].startup,
           \/ app'[r].stored = app[r].stored
           \/ app'[r].stored = None /\ server'.ended,
           app[r].session => app'[r].session \/ (r = "teacher" /\ server'.ended),
           \A s \in Sockets :
              /\ Range(up'[r][s]) \cap Recovers \subseteq Range(up[r][s])
              /\ Once(up[r][s], Recovers) => Once(up'[r][s], Recovers)
              /\ s > app[r].socket /\ up[r][s] = <<>> => up'[r][s] = <<>>,
           Range(down'[r]) \cap Answers = Range(down[r]) \cap Answers,
           Once(down[r], Answers) => Once(down'[r], Answers),
           ~app[r].online => down'[r] = down[r]
    PROVE  Seating(r)'
<1> DEFINE s == app[r].socket
<1>1. /\ s \in Sockets /\ s \in Nat /\ None \notin Nat /\ None \notin Sockets
      /\ server.token[r] \in Nat
  BY RemoteControlAssumption DEF Typed, AppRecords
<1>2. \A z \in Sockets : z > app'[r].socket => up'[r][z] = <<>> /\ server'.seat[r] # z
  BY <1>1 DEF Seating
<1>3. ~app'[r].online => down'[r] = <<>>
  BY DEF Seating
<1>4. r = "student" /\ app'[r].stored # None => app'[r].session
  BY DEF Seating
<1>5. server'.ended => server'.seat[r] = None
  BY DEF Over
<1> SUFFICES ASSUME app[r].online
             PROVE  /\ Once(up'[r][s], Recovers)
                    /\ Once(down'[r], Answers)
                    /\ Asking(r)' => /\ ~Answered(r)'
                                     /\ server'.seat[r] # s
                                     /\ app'[r].startup = "settled"
                                     /\ app'[r].stored # None \/ server'.ended
                    /\ app'[r].startup # "settled" =>
                          /\ ~Answered(r)'
                          /\ ~Asking(r)'
                          /\ server'.seat[r] # s
                    /\ server'.seat[r] = s =>
                          \/ app'[r].stored = server'.token[r] /\ ~Answered(r)'
                          \/ \E m \in Range(down'[r]) : Renews(r, m)'
  BY <1>2, <1>3, <1>4 DEF Seating
<1>6. Once(up'[r][s], Recovers) /\ Once(down'[r], Answers)
  BY <1>1 DEF Seating
<1>7. /\ Answered(r)' => Answered(r)
      /\ Asking(r)' => Asking(r)
  BY <1>1 DEF Answered, Asking
<1>8. server'.seat[r] = s => server.seat[r] = s /\ ~server'.ended
  BY <1>1, <1>5
<1>9. ASSUME server'.seat[r] = s, NEW m \in Range(down[r]), Renews(r, m)
      PROVE  m \in Range(down'[r]) /\ Renews(r, m)'
  <2>1. m \in Letters
    BY DEF Typed, Range
  <2>2. m \in Answers
    BY <1>1, <1>9, <2>1 DEF Answers, Renews
  <2> QED BY <1>8, <1>9, <2>2 DEF Renews
<1> QED BY <1>6, <1>7, <1>8, <1>9 DEF Seating

\* The same for a step of the server.
LEMMA ServerKeepsSeating ==
    ASSUME Typed, Typed', Over', NEW r \in Roles, Seating(r), UNCHANGED app,
           server'.token[r] = server.token[r],
           server'.seat[r] \in {server.seat[r], None},
           server.ended => server'.ended,
           \A s \in Sockets :
              /\ Range(up'[r][s]) \subseteq Range(up[r][s])
              /\ Once(up[r][s], Recovers) => Once(up'[r][s], Recovers)
              /\ up[r][s] = <<>> => up'[r][s] = <<>>,
           NEW M, Delivered(down, down', M), M \cap Answers = {}
    PROVE  Seating(r)'
<1>1. /\ Range(down'[r]) \cap Answers = Range(down[r]) \cap Answers
      /\ Once(down[r], Answers) => Once(down'[r], Answers)
      /\ ~app[r].online => down'[r] = down[r]
  BY DEF Delivered
<1> QED BY <1>1, SeatingKept

\* What the server sends without ending or recovering anything.
Plain == {m \in Letters : m.kind \in {"request", "approved", "denied", "stop",
                                       "keydown", "keyup"}}

\* No message is of two kinds.
LEMMA KindsApart ==
    /\ Plain \cap Answers = {} /\ Plain \cap Endings = {} /\ Plain \cap Recovers = {}
    /\ Farewells \cap Answers = {}
    /\ Message("recovered", None) \notin Answers \cup Endings
    /\ Message("disconnect", None) \notin Recovers
BY DEF Plain, Answers, Endings, Farewells, Recovers, Message

\* Taking a message from a queue adds none.
LEMMA HearsLess ==
    ASSUME Typed, NEW r \in Roles, NEW s \in Sockets, NEW kinds, Hears(r, s, kinds),
           NEW p \in Roles, NEW z \in Sockets
    PROVE  /\ Range(up'[p][z]) \subseteq Range(up[p][z])
           /\ \A P : Once(up[p][z], P) => Once(up'[p][z], P)
           /\ up[p][z] = <<>> => up'[p][z] = <<>>
<1>1. CASE p = r /\ z = s
  <2>1. /\ up[r][s] # <<>>
        /\ Range(up'[r][s]) \subseteq Range(up[r][s])
        /\ \A P : Once(up[r][s], P) => Once(up'[r][s], P)
    BY HearsLemma
  <2> QED BY <1>1, <2>1
<1>2. CASE p # r \/ z # s
  BY <1>2, HearsLemma
<1> QED BY <1>1, <1>2

\* What every step of the server but recoverSession does to seats and messages.
KeepsSeats ==
    /\ UNCHANGED app
    /\ server'.token = server.token
    /\ \A r \in Roles : server'.seat[r] \in {server.seat[r], None}
    /\ \/ server'.ended = server.ended /\ Delivered(down, down', Plain)
       \/ /\ server'.ended /\ \A r \in Roles : server'.seat[r] = None
          /\ Delivered(down, down', Farewells)
    /\ \A r \in Roles, s \in Sockets :
          /\ Range(up'[r][s]) \subseteq Range(up[r][s])
          /\ Once(up[r][s], Recovers) => Once(up'[r][s], Recovers)
          /\ up[r][s] = <<>> => up'[r][s] = <<>>

\* Such a step keeps what is known of the seats.
LEMMA KeepsSeatsLemma ==
    ASSUME Typed, Typed', Over, \A r \in Roles : Seating(r), KeepsSeats
    PROVE  Over' /\ \A r \in Roles : Seating(r)'
<1>1. Over'
  <2>1. CASE server'.ended = server.ended /\ Delivered(down, down', Plain)
    <3>1. \A r \in Roles : Range(down'[r]) \cap Endings \subseteq Range(down[r])
      BY <2>1, KindsApart DEF Delivered
    <3>2. server'.ended => \A r \in Roles : server'.seat[r] = None
      BY <2>1 DEF KeepsSeats, Over
    <3> QED BY <2>1, <3>1, <3>2 DEF Over
  <2>2. CASE server'.ended /\ \A r \in Roles : server'.seat[r] = None
    BY <2>2 DEF Over
  <2> QED BY <2>1, <2>2 DEF KeepsSeats
<1>2. ASSUME NEW r \in Roles PROVE Seating(r)'
  <2>1. PICK M \in {Plain, Farewells} : Delivered(down, down', M)
    BY DEF KeepsSeats
  <2>2. M \cap Answers = {}
    BY <2>1, KindsApart
  <2>3. server.ended => server'.ended
    BY DEF KeepsSeats
  <2>4. /\ server'.token[r] = server.token[r] /\ UNCHANGED app
        /\ server'.seat[r] \in {server.seat[r], None}
        /\ \A s \in Sockets :
              /\ Range(up'[r][s]) \subseteq Range(up[r][s])
              /\ Once(up[r][s], Recovers) => Once(up'[r][s], Recovers)
              /\ up[r][s] = <<>> => up'[r][s] = <<>>
    BY DEF KeepsSeats
  <2> QED BY <1>1, <2>1, <2>2, <2>3, <2>4, ServerKeepsSeating
<1> QED BY <1>1, <1>2

\* Every step of the server but recoverSession is one.
LEMMA ServerMovesKeepSeats ==
    ASSUME Typed, ServerMoves,
           \A r \in Roles, s \in Sockets : ~RecoverSession(r, s)
    PROVE  KeepsSeats
<1>0. /\ server = [ended |-> server.ended, due |-> server.due, auth |-> server.auth,
                   seat |-> server.seat, token |-> server.token,
                   present |-> server.present]
      /\ server.seat \in [Roles -> Connections]
      /\ down \in [Roles -> Seq(Letters)]
  BY DEF Typed
<1> DEFINE Keeps ==
             /\ server'.token = server.token
             /\ \A r \in Roles : server'.seat[r] \in {server.seat[r], None}
             /\ \/ server'.ended = server.ended /\ Delivered(down, down', Plain)
                \/ /\ server'.ended /\ \A r \in Roles : server'.seat[r] = None
                   /\ Delivered(down, down', Farewells)
<1>1. UNCHANGED down => Delivered(down, down', Plain)
  BY <1>0, NothingDelivered
<1>2. Finish => Keeps
  <2> SUFFICES ASSUME Finish PROVE Keeps
    OBVIOUS
  <2>1. /\ Delivered(down, down', Farewells)
        /\ server' = [server EXCEPT !.ended = TRUE, !.due = "no",
                                    !.seat = [r \in Roles |-> None],
                                    !.auth = NoAuthorization]
    BY FinishLemma
  <2> QED BY <1>0, <2>1
<1>3. ASSUME NEW m \in Plain, NEW r \in Roles, NEW s PROVE Delivered(down, Emitted(down, r, s, m), Plain)
  <2>1. m \in Letters
    BY DEF Plain
  <2>2. Delivered(down, Emitted(down, r, s, m), {m})
    BY <1>0, <2>1, EmittedLemma
  <2> QED BY <1>3, <2>2, DeliveredMore
<1>4. ASSUME NEW r \in Roles, NEW s \in Sockets, ServerHears(r, s)
      PROVE  KeepsSeats
  <2>1. PICK kinds : Hears(r, s, kinds) /\ UNCHANGED app
    BY <1>4 DEF ServerHears, Register, Disconnected, RecoverSession, EndSession,
                OnRequest, OnInput, OnAnswer, OnStop
  <2>2. Heard(r, s) \in Letters
    BY <2>1, HearsLemma
  <2>3. CASE Register(r, s)
    <3>1. Keeps
      BY <1>0, <1>1, <2>3 DEF Register
    <3> QED BY <2>1, <3>1, HearsLess DEF KeepsSeats
  <2>4. CASE Disconnected(r, s)
    <3>1. /\ server'.seat = [server.seat EXCEPT ![r] = IF @ = s THEN None ELSE @]
          /\ server'.token = server.token /\ server'.ended = server.ended
          /\ UNCHANGED down
      BY <1>0, <2>4 DEF Disconnected
    <3>2. \A p \in Roles : server'.seat[p] \in {server.seat[p], None}
      BY <1>0, <3>1
    <3>3. Keeps
      BY <1>1, <3>1, <3>2
    <3> QED BY <2>1, <3>3, HearsLess DEF KeepsSeats
  <2>5. CASE EndSession(r, s)
    <3>1. Keeps
      BY <1>1, <1>2, <2>5 DEF EndSession
    <3> QED BY <2>1, <3>1, HearsLess DEF KeepsSeats
  <2>6. CASE r = "teacher" /\ OnRequest(s)
    <3>1. Message("request", Heard(r, s).n) \in Plain
      <4>1. Heard(r, s).n \in Nat
        BY <2>6, HearsLemma DEF OnRequest, Letters
      <4> QED BY <4>1 DEF Message, Letters, Plain
    <3>2. Keeps
      BY <1>0, <1>1, <1>3, <2>6, <3>1 DEF OnRequest, Roles
    <3> QED BY <2>1, <3>2, HearsLess DEF KeepsSeats
  <2>7. CASE r = "teacher" /\ OnInput(s)
    <3>1. Heard(r, s) \in Plain
      BY <2>2, <2>7, HearsLemma DEF OnInput, Plain
    <3>2. Keeps
      BY <1>1, <1>3, <2>7, <3>1 DEF OnInput, Roles
    <3> QED BY <2>1, <3>2, HearsLess DEF KeepsSeats
  <2>8. CASE r = "student" /\ OnAnswer(s)
    <3>1. Heard(r, s) \in Plain
      BY <2>2, <2>8, HearsLemma DEF OnAnswer, Plain
    <3>2. Keeps
      BY <1>0, <1>1, <1>3, <2>8, <3>1 DEF OnAnswer, Roles
    <3> QED BY <2>1, <3>2, HearsLess DEF KeepsSeats
  <2>9. CASE OnStop(r, s)
    <3>1. Heard(r, s) \in Plain /\ Peer(r) \in Roles
      BY <2>2, <2>9, HearsLemma DEF OnStop, Plain, Peer, Roles
    <3>2. Keeps
      BY <1>0, <1>1, <1>3, <2>9, <3>1 DEF OnStop
    <3> QED BY <2>1, <3>2, HearsLess DEF KeepsSeats
  <2> QED BY <1>4, <2>3, <2>4, <2>5, <2>6, <2>7, <2>8, <2>9 DEF ServerHears
<1>5. CASE RequestTimeout
  <2>1. server.auth.request \in Nat
    BY <1>5 DEF Typed, RequestTimeout, NoAuthorization, Controlled
  <2>2. Message("stop", server.auth.request) \in Letters
        /\ {Message("stop", server.auth.request)} \subseteq Plain
    BY <2>1 DEF Message, Letters, Plain
  <2>3. Delivered(down, down', Plain)
    BY <1>0, <1>5, <2>2, AnnouncedLemma, DeliveredMore DEF RequestTimeout
  <2> QED BY <1>0, <1>5, <2>3 DEF RequestTimeout, KeepsSeats
<1>6. CASE DeadlinePasses
  BY <1>0, <1>1, <1>6 DEF DeadlinePasses, KeepsSeats
<1>7. CASE ExpireRecovery
  BY <1>2, <1>7 DEF ExpireRecovery, KeepsSeats
<1> QED BY <1>4, <1>5, <1>6, <1>7 DEF ServerMoves

\* 'session:recover': who asks is answered once, and only over the connection
\* that asked.
LEMMA RecoverKeepsSeats ==
    ASSUME Typed, Typed', Over, \A r \in Roles : Seating(r),
           NEW r \in Roles, NEW s \in Sockets, RecoverSession(r, s)
    PROVE  Over' /\ \A p \in Roles : Seating(p)'
<1>m. PICK other, mine, refused :
         /\ other   = Message("recovered", None)
         /\ mine    = Message("recovered", server.token[r] + 1)
         /\ refused = Message("refused", None)
  OBVIOUS
<1> DEFINE away == Emitted(down, Peer(r), DeliverySocket(Peer(r)), other)
           here == app[r].online /\ app[r].socket = s
<1>0. /\ server = [ended |-> server.ended, due |-> server.due, auth |-> server.auth,
                   seat |-> server.seat, token |-> server.token,
                   present |-> server.present]
      /\ server.seat \in [Roles -> Connections] /\ server.token \in [Roles -> Nat]
      /\ down \in [Roles -> Seq(Letters)]
      /\ Peer(r) \in Roles /\ Peer(r) # r
      /\ app[r].socket \in Sockets
  BY DEF Typed, Peer, Roles, AppRecords
<1>n. /\ server.token[r] + 1 \in Nat /\ None \notin Nat
      /\ app[r].socket \in Nat /\ s \in Nat
  BY <1>0, RemoteControlAssumption
<1>1. /\ other \in Letters /\ mine \in Letters /\ refused \in Letters
      /\ mine \in Answers /\ refused \in Answers
      /\ mine \notin Endings /\ refused \notin Endings
      /\ other \notin Answers /\ other \notin Endings
      /\ mine.kind = "recovered" /\ mine.n = server.token[r] + 1
  BY <1>n, <1>m DEF Message, Letters, Tokens, Answers, Endings
<1>2. Hears(r, s, {"recover"}) /\ UNCHANGED app
  BY DEF RecoverSession
<1>3. /\ Heard(r, s) \in Recovers /\ up[r][s] # <<>>
      /\ Range(up[r][s]) = {Heard(r, s)} \cup Range(up'[r][s])
      /\ \A P : Once(up[r][s], P) =>
            /\ Once(up'[r][s], P)
            /\ Heard(r, s) \in P => Range(up'[r][s]) \cap P = {}
  <2>1. Heard(r, s) \in Recovers
    BY <1>2, HearsLemma DEF Recovers
  <2> QED BY <1>2, <2>1, HearsLemma
<1>4. s <= app[r].socket
  BY <1>n, <1>3 DEF Seating
<1>5. here => /\ Asking(r) /\ ~Asking(r)'
              /\ ~Answered(r) /\ server.seat[r] # s
              /\ app[r].startup = "settled"
              /\ app[r].stored # None \/ server.ended
              /\ Once(up'[r][s], Recovers) /\ Once(down[r], Answers)
  BY <1>2, <1>3 DEF Seating, Asking
<1>6. ASSUME NEW m \in Letters, m \in Answers, NEW d \in [Roles -> Seq(Letters)],
             d[r] = down[r], down' = Emitted(d, r, s, m)
      PROVE  /\ here => /\ Range(down'[r]) = Range(down[r]) \cup {m}
                        /\ Once(down'[r], Answers)
             /\ ~here => down'[r] = down[r]
             /\ down'[Peer(r)] = d[Peer(r)]
  <2>1. /\ \A p \in Roles \ {r} : Emitted(d, r, s, m)[p] = d[p]
        /\ here => Emitted(d, r, s, m)[r] = Append(d[r], m)
        /\ ~here => Emitted(d, r, s, m) = d
    BY EmittedTo
  <2>2. /\ down'[Peer(r)] = d[Peer(r)]
        /\ here => down'[r] = Append(down[r], m)
        /\ ~here => down'[r] = down[r]
    BY <1>0, <1>6, <2>1
  <2>3. ASSUME here
        PROVE  /\ Range(Append(down[r], m)) = Range(down[r]) \cup {m}
               /\ Once(Append(down[r], m), Answers)
    <3>1. Once(down[r], Answers) /\ Range(down[r]) \cap Answers = {}
      BY <1>5, <2>3 DEF Answered
    <3>2. down[r] \in Seq(Letters)
      BY <1>0
    <3> QED BY <1>6, <3>1, <3>2, AppendLemma
  <2> QED BY <2>2, <2>3
<1>7. CASE MayRecover(r, Heard(r, s).n) /\ Recovered(r, s)
  <2>1. ~server.ended /\ server'.ended = server.ended
    BY <1>0, <1>7 DEF MayRecover, Recovered
  <2>2. /\ server'.seat = [server.seat EXCEPT ![r] = s]
        /\ server'.token = [server.token EXCEPT ![r] = @ + 1]
    BY <1>0, <1>7 DEF Recovered
  <2>3. /\ server'.seat[r] = s /\ server'.token[r] = server.token[r] + 1
        /\ server'.seat[Peer(r)] = server.seat[Peer(r)]
        /\ server'.token[Peer(r)] = server.token[Peer(r)]
    BY <1>0, <2>2
  <2>4. /\ Delivered(down, away, {other}) /\ away \in [Roles -> Seq(Letters)]
        /\ away[r] = down[r]
    <3>1. Delivered(down, away, {other})
      BY <1>0, <1>1, EmittedLemma
    <3>2. \A p \in Roles \ {Peer(r)} : away[p] = down[p]
      BY <1>0 DEF Emitted
    <3> QED BY <1>0, <3>1, <3>2 DEF Delivered
  <2>5. down' = Emitted(away, r, s, mine)
    BY <1>7, <1>m DEF Recovered
  <2> HIDE DEF away
  <2>6. /\ here => /\ Range(down'[r]) = Range(down[r]) \cup {mine}
                   /\ Once(down'[r], Answers)
        /\ ~here => down'[r] = down[r]
        /\ down'[Peer(r)] = away[Peer(r)]
    BY <1>1, <1>6, <2>4, <2>5
  <2>7. Over'
    <3>1. Range(down'[r]) \cap Endings = {}
      BY <1>1, <2>1, <2>6 DEF Over
    <3>2. Range(down'[Peer(r)]) \cap Endings = {}
      BY <1>0, <1>1, <2>1, <2>4, <2>6 DEF Over, Delivered
    <3> QED BY <1>0, <2>1, <3>1, <3>2 DEF Over, Roles, Peer
  <2>8. Seating(Peer(r))'
    <3> DEFINE p == Peer(r)
    <3>1. p \in Roles /\ Seating(p) /\ down'[p] = away[p]
      BY <1>0, <2>6
    <3>2. /\ Range(away[p]) \cap Answers = Range(down[p]) \cap Answers
          /\ Once(down[p], Answers) => Once(away[p], Answers)
          /\ ~app[p].online => away[p] = down[p]
      BY <1>1, <2>4, <3>1 DEF Delivered
    <3>3. \A z \in Sockets : /\ Range(up'[p][z]) \subseteq Range(up[p][z])
                             /\ Once(up[p][z], Recovers) => Once(up'[p][z], Recovers)
                             /\ up[p][z] = <<>> => up'[p][z] = <<>>
      BY <1>2, <3>1, HearsLess
    <3>4. server'.seat[p] = server.seat[p] /\ server'.token[p] = server.token[p]
      BY <2>3
    <3> HIDE DEF p
    <3> QED BY <1>2, <2>1, <2>7, <3>1, <3>2, <3>3, <3>4, SeatingKept DEF p
  <2>9. Seating(r)'
    <3>1. \A z \in Sockets : z > app[r].socket => up'[r][z] = <<>> /\ server'.seat[r] # z
      <4>1. \A z \in Sockets : up[r][z] = <<>> => up'[r][z] = <<>>
        BY <1>2, HearsLess
      <4> QED BY <1>n, <1>4, <2>3, <4>1 DEF Seating
    <3>2. ~app[r].online => down'[r] = <<>>
      BY <2>6 DEF Seating
    <3>3. CASE here
      <4>1. app[r].session \/ (r = "teacher" /\ app[r].stored # None)
        BY <1>5, <2>1, <3>3 DEF Seating, Roles
      <4>2. Renews(r, mine)' /\ mine \in Range(down'[r])
        BY <1>1, <1>2, <2>3, <2>6, <3>3, <4>1 DEF Renews
      <4>3. /\ Once(up'[r][s], Recovers) /\ Once(down'[r], Answers) /\ ~Asking(r)'
            /\ app[r].startup = "settled" /\ app[r].socket = s
        BY <1>5, <2>6, <3>3
      <4> QED BY <1>2, <2>3, <3>1, <3>2, <4>2, <4>3 DEF Seating
    <3>4. CASE ~here /\ app[r].online
      <4>1. app[r].socket # s /\ server'.seat[r] # app[r].socket
        BY <2>3, <3>4
      <4>2. up'[r][app[r].socket] = up[r][app[r].socket] /\ down'[r] = down[r]
        BY <1>0, <1>2, <2>6, <3>4, <4>1, HearsLemma
      <4>3. /\ Asking(r)' <=> Asking(r)
            /\ Answered(r)' <=> Answered(r)
        BY <1>2, <4>2 DEF Asking, Answered
      <4> QED BY <1>2, <2>1, <3>1, <3>2, <3>4, <4>1, <4>2, <4>3 DEF Seating
    <3>5. CASE ~app[r].online
      BY <1>2, <3>1, <3>2, <3>5 DEF Seating
    <3> QED BY <3>3, <3>4, <3>5
  <2> QED BY <1>0, <2>7, <2>8, <2>9 DEF Peer, Roles
<1>8. CASE down' = Emitted(down, r, s, refused) /\ UNCHANGED server
  <2>1. /\ here => /\ Range(down'[r]) = Range(down[r]) \cup {refused}
                   /\ Once(down'[r], Answers)
        /\ ~here => down'[r] = down[r]
        /\ down'[Peer(r)] = down[Peer(r)]
    BY <1>0, <1>1, <1>6, <1>8, <1>m
  <2>2. Over'
    <3>1. Range(down'[r]) \cap Endings = Range(down[r]) \cap Endings
      BY <1>1, <2>1
    <3>2. \A p \in Roles : p = r \/ p = Peer(r)
      BY DEF Peer, Roles
    <3> QED BY <1>8, <2>1, <3>1, <3>2 DEF Over
  <2>3. ASSUME NEW p \in Roles, down'[p] = down[p] PROVE Seating(p)'
    <3>1. \A z \in Sockets : /\ Range(up'[p][z]) \subseteq Range(up[p][z])
                             /\ Once(up[p][z], Recovers) => Once(up'[p][z], Recovers)
                             /\ up[p][z] = <<>> => up'[p][z] = <<>>
      BY <1>2, HearsLess
    <3> QED BY <1>2, <1>8, <2>2, <2>3, <3>1, SeatingKept
  <2>4. CASE here
    <3>1. \A z \in Sockets : z > app[r].socket => up'[r][z] = <<>> /\ server'.seat[r] # z
      <4>1. \A z \in Sockets : up[r][z] = <<>> => up'[r][z] = <<>>
        BY <1>2, HearsLess
      <4> QED BY <1>8, <4>1 DEF Seating
    <3>2. Seating(r)'
      BY <1>2, <1>5, <1>8, <2>1, <2>4, <3>1 DEF Seating
    <3> QED BY <1>0, <2>1, <2>2, <2>3, <3>2 DEF Peer, Roles
  <2>5. CASE ~here
    <3>1. \A p \in Roles : down'[p] = down[p]
      BY <2>1, <2>5 DEF Peer, Roles
    <3> QED BY <2>2, <2>3, <3>1
  <2> QED BY <2>4, <2>5
<1> QED BY <1>7, <1>8, <1>m DEF RecoverSession

\* What one application does leaves the seat of the other one alone.
Alone(r) ==
    /\ server' = server
    /\ \A p \in Roles \ {r} : app'[p] = app[p] /\ up'[p] = up[p] /\ down'[p] = down[p]
    /\ Range(down'[r]) \subseteq Range(down[r])

\* It is enough to look at the seat of the application that moves.
LEMMA AloneLemma ==
    ASSUME Over, \A p \in Roles : Seating(p), NEW r \in Roles, Alone(r),
           Over' => Seating(r)'
    PROVE  Over' /\ \A p \in Roles : Seating(p)'
<1>1. Over'
  <2>1. \A p \in Roles : Range(down'[p]) \subseteq Range(down[p])
    BY DEF Alone
  <2> QED BY <2>1 DEF Over, Alone
<1>2. ASSUME NEW p \in Roles \ {r} PROVE Seating(p)'
  <2>1. Seating(p) /\ server' = server /\ app'[p] = app[p] /\ up'[p] = up[p] /\ down'[p] = down[p]
    BY DEF Alone
  <2> QED BY <2>1 DEF Seating, Asking, Answered, Renews
<1> QED BY <1>1, <1>2

\* An application sends something that asks for no seat.
LEMMA SentKept ==
    ASSUME Typed, NEW r \in Roles, NEW m \in Letters, m.kind # "recover",
           up' = Sent(up, r, m), NEW s \in Sockets
    PROVE  /\ Range(up'[r][s]) \cap Recovers \subseteq Range(up[r][s])
           /\ Once(up[r][s], Recovers) => Once(up'[r][s], Recovers)
           /\ s > app[r].socket /\ up[r][s] = <<>> => up'[r][s] = <<>>
<1>1. m \notin Recovers /\ app[r].socket \in Sockets /\ app[r].socket \in Nat
  BY RemoteControlAssumption DEF Recovers, Typed, AppRecords
<1>2. CASE s = app[r].socket
  <2>1. /\ Range(Sent(up, r, m)[r][s]) = Range(up[r][s]) \cup {m}
        /\ Once(up[r][s], Recovers) => Once(Sent(up, r, m)[r][s], Recovers)
    BY <1>1, <1>2, SentLemma
  <2> QED BY <1>1, <1>2, <2>1
<1>3. CASE s # app[r].socket
  BY <1>3, SentLemma
<1> QED BY <1>2, <1>3

\* A click or a keystroke that has nothing to do with the seat.
Aside(r) ==
    /\ Alone(r)
    /\ down' = down
    /\ app'[r].online = app[r].online /\ app'[r].socket = app[r].socket
    /\ app'[r].startup = app[r].startup /\ app'[r].stored = app[r].stored
    /\ app'[r].session = app[r].session
    /\ \A s \in Sockets :
          /\ Range(up'[r][s]) \cap Recovers \subseteq Range(up[r][s])
          /\ Once(up[r][s], Recovers) => Once(up'[r][s], Recovers)
          /\ s > app[r].socket /\ up[r][s] = <<>> => up'[r][s] = <<>>

\* Such a click or keystroke keeps what is known of the seats: ...
LEMMA AsideLemma ==
    ASSUME Typed, Typed', Over, \A p \in Roles : Seating(p), NEW r \in Roles, Aside(r)
    PROVE  Over' /\ \A p \in Roles : Seating(p)'
<1>1. ASSUME Over' PROVE Seating(r)'
  <2>1. /\ server'.token[r] = server.token[r]
        /\ server'.seat[r] \in {server.seat[r], None}
        /\ server.ended => server'.ended
    BY DEF Aside, Alone
  <2> QED BY <1>1, <2>1, SeatingKept DEF Aside
<1>2. Alone(r)
  BY DEF Aside
<1> QED BY <1>1, <1>2, AloneLemma

\* An application leaves its connection alone, or sends one message over it.
LEMMA SaysLemma ==
    ASSUME Typed, Typed', Over, \A p \in Roles : Seating(p), NEW r \in Roles,
           server' = server, down' = down,
           \A p \in Roles \ {r} : app'[p] = app[p],
           app'[r].online = app[r].online, app'[r].socket = app[r].socket,
           app'[r].startup = app[r].startup, app'[r].stored = app[r].stored,
           app'[r].session = app[r].session,
           up' = up \/ \E m \in Letters : m.kind # "recover" /\ up' = Sent(up, r, m)
    PROVE  Over' /\ \A p \in Roles : Seating(p)'
<1>1. Aside(r)
  <2>1. CASE up' = up
    BY <2>1 DEF Aside, Alone
  <2>2. CASE \E m \in Letters : m.kind # "recover" /\ up' = Sent(up, r, m)
    <3>1. PICK m \in Letters : m.kind # "recover" /\ up' = Sent(up, r, m)
      BY <2>2
    <3>2. \A z \in Sockets :
             /\ Range(up'[r][z]) \cap Recovers \subseteq Range(up[r][z])
             /\ Once(up[r][z], Recovers) => Once(up'[r][z], Recovers)
             /\ z > app[r].socket /\ up[r][z] = <<>> => up'[r][z] = <<>>
      BY <3>1, SentKept
    <3>3. \A p \in Roles \ {r} : up'[p] = up[p]
      BY <3>1 DEF Typed, Sent
    <3> QED BY <3>2, <3>3 DEF Aside, Alone
  <2> QED BY <2>1, <2>2
<1> QED BY <1>1, AsideLemma

\* ... the professor's keys, ...
LEMMA ProfessorKeepsSeats ==
    ASSUME Typed, Typed', Over, \A p \in Roles : Seating(p), Professor
    PROVE  Over' /\ \A p \in Roles : Seating(p)'
<1>0. /\ app \in [Roles -> AppRecords] /\ app["teacher"] \in AppRecords
      /\ server' = server /\ down' = down /\ "teacher" \in Roles
  BY DEF Typed, Roles, Professor, RequestRemoteControl, FocusLost, Stroke
<1>1. CASE RequestRemoteControl
  <2>1. left["request"] \in Nat
    BY <1>1, UsedLemma DEF RequestRemoteControl, Bounded
  <2>2. /\ Message("request", left["request"]) \in Letters
        /\ Message("request", left["request"]).kind # "recover"
    BY <2>1 DEF Message, Letters
  <2>3. app' = [app EXCEPT !["teacher"].control = Control(left["request"], "pending")]
    BY <1>1 DEF RequestRemoteControl
  <2>4. /\ \A p \in Roles \ {"teacher"} : app'[p] = app[p]
        /\ app'["teacher"].online = app["teacher"].online
        /\ app'["teacher"].socket = app["teacher"].socket
        /\ app'["teacher"].startup = app["teacher"].startup
        /\ app'["teacher"].stored = app["teacher"].stored
        /\ app'["teacher"].session = app["teacher"].session
    BY <1>0, <2>3 DEF AppRecords
  <2>5. \E m \in Letters : m.kind # "recover" /\ up' = Sent(up, "teacher", m)
    BY <1>1, <2>2 DEF RequestRemoteControl
  <2> QED BY <1>0, <2>4, <2>5, SaysLemma
<1>2. ASSUME NEW kind \in {"keydown", "keyup"}, NEW k \in Keys, Stroke(kind, k)
      PROVE  Over' /\ \A p \in Roles : Seating(p)'
  <2>1. app["teacher"].control.request \in Nat
    BY <1>0, <1>2 DEF Stroke, Controls, AppRecords, Controlled, Inactive
  <2>2. /\ Input(kind, app["teacher"].control.request, k) \in Letters
        /\ Input(kind, app["teacher"].control.request, k).kind # "recover"
    BY <2>1 DEF Input, Letters
  <2>3. up' = up \/ \E m \in Letters : m.kind # "recover" /\ up' = Sent(up, "teacher", m)
    BY <1>2, <2>2 DEF Stroke
  <2>4. app' = app
    BY <1>2 DEF Stroke
  <2> QED BY <1>0, <2>3, <2>4, SaysLemma
<1>3. CASE FocusLost
  <2>1. app' = app
    BY <1>3 DEF FocusLost
  <2>2. CASE up' = up
    BY <1>0, <2>1, <2>2, SaysLemma
  <2>3. CASE up' = [up EXCEPT !["teacher"][app["teacher"].socket] = @ \o Releases]
    <3> DEFINE s == app["teacher"].socket
    <3>1. /\ s \in Sockets /\ up["teacher"][s] \in Seq(Letters)
          /\ up \in [Roles -> [Sockets -> Seq(Letters)]]
      BY <1>0 DEF AppRecords, Typed
    <3>2. s \in Nat
      BY <3>1, RemoteControlAssumption
    <3>3. Releases \in Seq(Letters) /\ Range(Releases) \cap Recovers = {}
      BY <1>3, ReleasesLemma DEF FocusLost, Recovers
    <3> HIDE DEF s
    <3>4. /\ Range(up["teacher"][s] \o Releases) = Range(up["teacher"][s]) \cup Range(Releases)
          /\ Once(up["teacher"][s], Recovers) => Once(up["teacher"][s] \o Releases, Recovers)
      BY <3>1, <3>3, ConcatLemma
    <3>5. /\ up'["teacher"][s] = up["teacher"][s] \o Releases
          /\ \A z \in Sockets \ {s} : up'["teacher"][z] = up["teacher"][z]
          /\ \A p \in Roles \ {"teacher"} : up'[p] = up[p]
      BY <1>0, <2>3, <3>1 DEF s
    <3>6. ASSUME NEW z \in Sockets
          PROVE  /\ Range(up'["teacher"][z]) \cap Recovers \subseteq Range(up["teacher"][z])
                 /\ Once(up["teacher"][z], Recovers) => Once(up'["teacher"][z], Recovers)
                 /\ z > s /\ up["teacher"][z] = <<>> => up'["teacher"][z] = <<>>
      <4>1. CASE z = s
        <5>1. ~(z > s)
          BY <3>2, <4>1
        <5>2. /\ Range(up'["teacher"][s]) \cap Recovers \subseteq Range(up["teacher"][s])
              /\ Once(up["teacher"][s], Recovers) => Once(up'["teacher"][s], Recovers)
          BY <3>3, <3>4, <3>5
        <5> QED BY <4>1, <5>1, <5>2
      <4>2. CASE z # s
        BY <3>5, <4>2
      <4> QED BY <4>1, <4>2
    <3>7. Aside("teacher")
      BY <1>0, <2>1, <3>5, <3>6 DEF Aside, Alone, s
    <3> QED BY <1>0, <3>7, AsideLemma
  <2> QED BY <1>3, <2>2, <2>3 DEF FocusLost, Releases
<1> QED BY <1>1, <1>2, <1>3 DEF Professor

\* ... the student's answer, ...
LEMMA StudentKeepsSeats ==
    ASSUME Typed, Typed', Over, \A p \in Roles : Seating(p), Student
    PROVE  Over' /\ \A p \in Roles : Seating(p)'
<1>1. PICK kind \in {"approved", "denied"} : Answer(kind)
  BY DEF Student
<1>2. /\ app \in [Roles -> AppRecords] /\ app["student"] \in AppRecords /\ "student" \in Roles
      /\ server' = server /\ down' = down
  BY <1>1 DEF Typed, Roles, Answer
<1>3. app["student"].control.request \in Nat
  BY <1>1, <1>2 DEF Answer, AppRecords, Controlled, Inactive
<1>4. /\ Message(kind, app["student"].control.request) \in Letters
      /\ Message(kind, app["student"].control.request).kind # "recover"
  BY <1>3 DEF Message, Letters
<1>5. \E m \in Letters : m.kind # "recover" /\ up' = Sent(up, "student", m)
  BY <1>1, <1>4 DEF Answer
<1>6. /\ \A p \in Roles \ {"student"} : app'[p] = app[p]
      /\ app'["student"].online = app["student"].online
      /\ app'["student"].socket = app["student"].socket
      /\ app'["student"].startup = app["student"].startup
      /\ app'["student"].stored = app["student"].stored
      /\ app'["student"].session = app["student"].session
  BY <1>1, <1>2 DEF Answer, AppRecords
<1> QED BY <1>2, <1>5, <1>6, SaysLemma

\* ... and ending the attendance or the control.
LEMMA ClickKeepsSeats ==
    ASSUME Typed, Typed', Over, \A p \in Roles : Seating(p), NEW r \in Roles,
           ClickEnd(r) \/ ClickStop(r)
    PROVE  Over' /\ \A p \in Roles : Seating(p)'
<1>0. app \in [Roles -> AppRecords] /\ app[r] \in AppRecords
  BY DEF Typed
<1>1. CASE ClickEnd(r)
  <2>1. Message("end", None) \in Letters /\ Message("end", None).kind # "recover"
    BY DEF Message, Letters, Tokens
  <2>2. /\ \E m \in Letters : m.kind # "recover" /\ up' = Sent(up, r, m)
        /\ server' = server /\ down' = down /\ app' = app
    BY <1>1, <2>1 DEF ClickEnd
  <2> QED BY <2>2, SaysLemma
<1>2. CASE ClickStop(r)
  <2>1. app[r].control.request \in Nat
    BY <1>0, <1>2 DEF ClickStop, AppRecords, Controlled
  <2>2. /\ Message("stop", app[r].control.request) \in Letters
        /\ Message("stop", app[r].control.request).kind # "recover"
    BY <2>1 DEF Message, Letters
  <2>3. /\ \E m \in Letters : m.kind # "recover" /\ up' = Sent(up, r, m)
        /\ server' = server /\ down' = down
    BY <1>2, <2>2 DEF ClickStop
  <2>4. /\ \A p \in Roles \ {r} : app'[p] = app[p]
        /\ app'[r].online = app[r].online /\ app'[r].socket = app[r].socket
        /\ app'[r].startup = app[r].startup /\ app'[r].stored = app[r].stored
        /\ app'[r].session = app[r].session
    BY <1>0, <1>2 DEF ClickStop, AppRecords
  <2> QED BY <2>3, <2>4, SaysLemma
<1> QED BY <1>1, <1>2

\* Resuming and discarding, connecting and losing the connection, starting again.
LEMMA ConnectionKeepsSeats ==
    ASSUME Typed, Typed', Over, \A p \in Roles : Seating(p), NEW r \in Roles,
           Resume(r) \/ Discard(r) \/ Connect(r) \/ Lose(r) \/ Restart(r)
    PROVE  Over' /\ \A p \in Roles : Seating(p)'
<1> DEFINE s == app[r].socket
           Later == \A z \in Sockets : z > s => up[r][z] = <<>> /\ server.seat[r] # z
<1>0. /\ app \in [Roles -> AppRecords] /\ app[r] \in AppRecords
      /\ up \in [Roles -> [Sockets -> Seq(Letters)]] /\ up[r] \in [Sockets -> Seq(Letters)]
      /\ down \in [Roles -> Seq(Letters)] /\ server' = server
      /\ s \in Sockets /\ Seating(r) /\ Later
  BY DEF Typed, AppRecords, Resume, Discard, Connect, Lose, Restart, Seating
<1>n. s \in Nat /\ Sockets \subseteq Nat /\ None \notin Nat
  BY <1>0, RemoteControlAssumption
<1>e. \A P : Once(<<>>, P) /\ Range(<<>>) = {}
  BY EmptyLemma
<1>3. CASE Resume(r)
  <2>0. app[r].startup = "asking" /\ down' = down
    BY <1>3 DEF Resume
  <2>1. CASE /\ app[r].online /\ app[r].stored # None
             /\ app' = [app EXCEPT ![r].startup = "settled"]
             /\ up' = Sent(up, r, Message("recover", app[r].stored))
    <3>1. PICK m : m = Message("recover", app[r].stored)
      OBVIOUS
    <3>2. m \in Letters /\ m \in Recovers
      BY <1>0, <2>1, <3>1 DEF Message, Letters, Recovers, AppRecords, Tokens
    <3>3. ~Asking(r) /\ ~Answered(r) /\ server.seat[r] # s
      BY <1>0, <2>0, <2>1 DEF Seating
    <3>4. /\ Once(up'[r][s], Recovers)
          /\ \A p \in Roles, z \in Sockets : p # r \/ z # s => up'[p][z] = up[p][z]
      <4>1. Range(up[r][s]) \cap Recovers = {} /\ Once(up[r][s], Recovers)
        BY <1>0, <2>1, <3>3 DEF Seating, Asking
      <4>2. \A P : Once(up[r][s], P) /\ (m \notin P \/ Range(up[r][s]) \cap P = {})
                      => Once(Sent(up, r, m)[r][s], P)
        BY <3>2, SentLemma
      <4>3. \A p \in Roles, z \in Sockets : p # r \/ z # s => Sent(up, r, m)[p][z] = up[p][z]
        BY <3>2, SentLemma
      <4>4. up' = Sent(up, r, m)
        BY <2>1, <3>1
      <4> HIDE DEF s
      <4>5. Once(Sent(up, r, m)[r][s], Recovers)
        BY <4>1, <4>2
      <4> QED BY <4>3, <4>4, <4>5
    <3>5. /\ app'[r].online /\ app'[r].socket = s /\ app'[r].stored = app[r].stored
          /\ app'[r].startup = "settled" /\ app'[r].session = app[r].session
          /\ \A p \in Roles \ {r} : app'[p] = app[p]
      BY <1>0, <2>1 DEF AppRecords
    <3>6. \A p \in Roles \ {r} : up'[p] = up[p]
      BY <1>0, <2>1 DEF Sent
    <3>7. Seating(r)'
      <4>1. \A z \in Sockets : z > s => up'[r][z] = <<>> /\ server'.seat[r] # z
        <5>1. \A z \in Sockets : z > s => z # s
          BY <1>n
        <5> QED BY <1>0, <3>4, <5>1
      <4>2. ~Answered(r)' /\ Once(down'[r], Answers)
        BY <1>0, <2>0, <2>1, <3>3 DEF Answered, Seating
      <4>3. r = "student" => app'[r].session
        BY <1>0, <2>1, <3>5 DEF Seating
      <4> HIDE DEF s
      <4> QED BY <1>0, <2>1, <3>3, <3>4, <3>5, <4>1, <4>2, <4>3 DEF Seating
    <3> QED BY <1>0, <2>0, <3>5, <3>6, <3>7, AloneLemma DEF Alone
  <2>2. CASE app' = [app EXCEPT ![r].startup = "ignored"] /\ UNCHANGED up
    <3>1. /\ app'[r].online = app[r].online /\ app'[r].socket = s
          /\ app'[r].stored = app[r].stored
          /\ app'[r].startup = "ignored" /\ app'[r].session = app[r].session
          /\ \A p \in Roles \ {r} : app'[p] = app[p]
      BY <1>0, <2>2 DEF AppRecords
    <3>2. /\ Asking(r)' <=> Asking(r)
          /\ Answered(r)' <=> Answered(r)
      BY <2>0, <2>2, <3>1 DEF Asking, Answered
    <3>3. Seating(r)'
      BY <1>0, <2>0, <2>2, <3>1, <3>2 DEF Seating
    <3> QED BY <1>0, <2>0, <2>2, <3>1, <3>3, AloneLemma DEF Alone
  <2> QED BY <1>3, <2>1, <2>2 DEF Resume
<1>4. CASE Discard(r)
  <2>0. app[r].startup = "asking" /\ down' = down
    BY <1>4 DEF Discard
  <2>1. /\ app'[r].online = app[r].online /\ app'[r].socket = s
        /\ app'[r].stored = None
        /\ app'[r].startup = "settled" /\ app'[r].session = app[r].session
        /\ \A p \in Roles \ {r} : app'[p] = app[p]
    BY <1>0, <1>4 DEF AppRecords, Discard
  <2>2. \A z \in Sockets :
           /\ Range(up'[r][z]) \cap Recovers \subseteq Range(up[r][z])
           /\ Once(up[r][z], Recovers) => Once(up'[r][z], Recovers)
           /\ z > s /\ up[r][z] = <<>> => up'[r][z] = <<>>
    <3>1. CASE up' = up
      BY <3>1
    <3>2. CASE up' = Sent(up, r, Message("end", app[r].stored))
      <4>1. /\ Message("end", app[r].stored) \in Letters
            /\ Message("end", app[r].stored).kind # "recover"
        BY <1>0 DEF Message, Letters, AppRecords
      <4> QED BY <3>2, <4>1, SentKept
    <3> QED BY <1>4, <3>1, <3>2 DEF Discard
  <2>3. \A p \in Roles \ {r} : up'[p] = up[p]
    BY <1>0, <1>4 DEF Discard, Sent
  <2>4. Seating(r)'
    <3>1. app[r].online => ~Asking(r) /\ ~Answered(r) /\ server.seat[r] # s
                           /\ Once(up[r][s], Recovers) /\ Once(down[r], Answers)
      BY <1>0, <2>0 DEF Seating
    <3>2. app[r].online => ~Asking(r)' /\ ~Answered(r)' /\ Once(up'[r][s], Recovers)
      BY <1>0, <2>0, <2>1, <2>2, <3>1 DEF Asking, Answered
    <3>3. \A z \in Sockets : z > s => up'[r][z] = <<>> /\ server'.seat[r] # z
      BY <1>0, <2>2
    <3>4. ~app[r].online => down'[r] = <<>>
      BY <1>0, <2>0 DEF Seating
    <3> HIDE DEF s
    <3> QED BY <1>0, <2>0, <2>1, <3>1, <3>2, <3>3, <3>4 DEF Seating
  <2> QED BY <1>0, <2>0, <2>1, <2>3, <2>4, AloneLemma DEF Alone
<1>5. CASE Connect(r)
  <2> DEFINE new == s + 1
             hello == <<Message("register", None)>>
             more  == IF Recoverable(app[r]) THEN <<Message("recover", app[r].stored)>>
                                             ELSE <<>>
  <2>1. new \in Sockets /\ ~app[r].online /\ down' = down
    BY <1>5 DEF Connect
  <2>n. new > s /\ \A z \in Sockets : z > new => z > s /\ z # new
    BY <1>n
  <2>2. /\ app'[r].online /\ app'[r].socket = new /\ app'[r].stored = app[r].stored
        /\ app'[r].startup = app[r].startup /\ app'[r].session = app[r].session
        /\ \A p \in Roles \ {r} : app'[p] = app[p]
    BY <1>0, <1>5, <2>1 DEF AppRecords, Connect
  <2>3. /\ hello \in Seq(Letters) /\ more \in Seq(Letters)
        /\ Range(hello) \cap Recovers = {} /\ Once(hello, Recovers) /\ Once(more, Recovers)
        /\ Range(more) \cap Recovers # {} => Recoverable(app[r])
    <3>1. PICK m, q : m = Message("register", None) /\ q = Message("recover", app[r].stored)
      OBVIOUS
    <3>2. m \in Letters /\ m \notin Recovers
      BY <3>1 DEF Message, Letters, Tokens, Recovers
    <3>3. Recoverable(app[r]) => q \in Letters
      BY <1>0, <3>1 DEF Recoverable, AppRecords, Message, Letters, Tokens
    <3>4. \A x : DOMAIN <<x>> = {1} /\ Range(<<x>>) = {x} /\ \A P : Once(<<x>>, P)
      BY DEF Range, Once
    <3>5. hello = <<m>> /\ more = IF Recoverable(app[r]) THEN <<q>> ELSE <<>>
      BY <3>1
    <3> HIDE DEF hello, more
    <3>6. /\ hello \in Seq(Letters) /\ Range(hello) \cap Recovers = {}
          /\ Once(hello, Recovers)
      BY <3>2, <3>4, <3>5
    <3>7. CASE Recoverable(app[r])
      BY <3>3, <3>4, <3>5, <3>6, <3>7
    <3>8. CASE ~Recoverable(app[r])
      BY <1>e, <3>5, <3>6, <3>8
    <3> QED BY <3>7, <3>8
  <2>4. up' = [up EXCEPT ![r][new] = hello \o more]
    BY <1>5 DEF Connect
  <2> HIDE DEF hello, more, new
  <2>5. /\ Range(hello \o more) \cap Recovers # {} => Recoverable(app[r])
        /\ Once(hello \o more, Recovers)
    <3>1. Range(hello \o more) = Range(hello) \cup Range(more)
      BY <2>3, ConcatLemma
    <3>2. CASE Range(more) \cap Recovers = {}
      BY <2>3, <3>1, <3>2, ConcatLemma
    <3>3. CASE Range(more) \cap Recovers # {}
      <4>1. Once(<<Message("register", None)>> \o <<Message("recover", app[r].stored)>>, Recovers)
        BY DEF Once, Message, Recovers
      <4>2. hello \o more = <<Message("register", None)>> \o <<Message("recover", app[r].stored)>>
        BY <2>3, <3>3 DEF hello, more
      <4> QED BY <2>3, <3>3, <4>1, <4>2
    <3> QED BY <3>2, <3>3
  <2>6. /\ up'[r][new] = hello \o more
        /\ \A z \in Sockets : z # new => up'[r][z] = up[r][z]
        /\ \A p \in Roles \ {r} : up'[p] = up[p]
    BY <1>0, <2>1, <2>4
  <2>7. Seating(r)'
    <3>1. \A z \in Sockets : z > new => up'[r][z] = <<>> /\ server'.seat[r] # z
      BY <1>0, <2>n, <2>6
    <3>2. server'.seat[r] # new
      BY <1>0, <2>1, <2>n
    <3>3. down'[r] = <<>>
      BY <1>0, <2>1 DEF Seating
    <3>4. ~Answered(r)' /\ Once(down'[r], Answers)
      BY <1>e, <3>3 DEF Answered
    <3>5. Asking(r)' => app[r].stored # None /\ app[r].startup = "settled"
      BY <2>2, <2>5, <2>6 DEF Asking, Recoverable
    <3>6. r = "student" /\ app[r].stored # None => app[r].session
      BY <1>0 DEF Seating
    <3> HIDE DEF s
    <3> QED BY <2>2, <2>5, <2>6, <3>1, <3>2, <3>3, <3>4, <3>5, <3>6 DEF Seating
  <2> QED BY <1>0, <2>1, <2>2, <2>6, <2>7, AloneLemma DEF Alone
<1>6. ASSUME ~app'[r].online, app'[r].socket = s, Cut(r) \/ (UNCHANGED <<up, down>> /\ ~app[r].online),
             r = "student" /\ app'[r].stored # None => app'[r].session,
             \A p \in Roles \ {r} : app'[p] = app[p]
      PROVE  Alone(r) /\ Seating(r)'
  <2>1. /\ \A p \in Roles \ {r} : up'[p] = up[p] /\ down'[p] = down[p]
        /\ down'[r] = <<>>
    <3>1. CASE Cut(r)
      BY <1>0, <3>1 DEF Cut
    <3>2. CASE UNCHANGED <<up, down>> /\ ~app[r].online
      BY <1>0, <3>2 DEF Seating
    <3> QED BY <1>6, <3>1, <3>2
  <2>2. \A z \in Sockets : z > s => up'[r][z] = <<>> /\ server'.seat[r] # z
    <3>1. \A z \in Sockets : z > s => z # s
      BY <1>n
    <3>2. CASE Cut(r)
      BY <1>0, <3>1, <3>2, LossLemma
    <3>3. CASE UNCHANGED <<up, down>>
      BY <1>0, <3>3
    <3> QED BY <1>6, <3>2, <3>3
  <2>3. Seating(r)'
    BY <1>6, <2>1, <2>2 DEF Seating
  <2>4. Range(down'[r]) \subseteq Range(down[r])
    BY <1>e, <2>1
  <2> QED BY <1>0, <1>6, <2>1, <2>3, <2>4 DEF Alone
<1>7. CASE Lose(r)
  <2>1. /\ ~app'[r].online /\ app'[r].socket = s
        /\ app'[r].stored = app[r].stored /\ app'[r].session = app[r].session
        /\ \A p \in Roles \ {r} : app'[p] = app[p]
        /\ Cut(r)
    BY <1>0, <1>7 DEF AppRecords, Lose
  <2>2. r = "student" /\ app'[r].stored # None => app'[r].session
    BY <1>0, <2>1 DEF Seating
  <2> QED BY <1>0, <1>6, <2>1, <2>2, AloneLemma
<1>8. CASE Restart(r)
  <2>1. /\ ~app'[r].online /\ app'[r].socket = s
        /\ r = "student" /\ app'[r].stored # None => app'[r].session
        /\ \A p \in Roles \ {r} : app'[p] = app[p]
    BY <1>8, RestartLemma
  <2>2. Cut(r) \/ (UNCHANGED <<up, down>> /\ ~app[r].online)
    BY <1>8 DEF Restart
  <2> QED BY <1>0, <1>6, <2>1, <2>2, AloneLemma
<1> QED BY <1>3, <1>4, <1>5, <1>7, <1>8

\* What an application reads from the head of its queue is the answer it waits
\* for, or leaves that one in the queue.
LEMMA ReaderKeepsSeats ==
    ASSUME Typed, Typed', Over, \A p \in Roles : Seating(p), NEW r \in Roles,
           ApplicationReads(r)
    PROVE  Over' /\ \A p \in Roles : Seating(p)'
<1> DEFINE s == app[r].socket
<1>0. /\ app \in [Roles -> AppRecords] /\ app[r] \in AppRecords
      /\ server' = server /\ up' = up /\ Seating(r)
  BY DEF Typed, ApplicationReads, ReadStarted, ReadRecovered, ReadEnded, ReadRefused,
         ReadStop, ReadRequest, ReadInput, ReadAnswer
<1>n. None \notin Nat /\ s \in Sockets
  BY <1>0, RemoteControlAssumption DEF AppRecords
<1>1. PICK kinds : Reads(r, kinds)
  BY DEF ApplicationReads, ReadStarted, ReadRecovered, ReadEnded, ReadRefused,
         ReadStop, ReadRequest, ReadInput, ReadAnswer
<1>2. /\ Read(r) \in Letters /\ Read(r).n \in Tokens
      /\ down[r] # <<>>
      /\ Range(down[r]) = {Read(r)} \cup Range(down'[r])
      /\ \A P : Once(down[r], P) =>
            /\ Once(down'[r], P)
            /\ Read(r) \in P => Range(down'[r]) \cap P = {}
      /\ \A p \in Roles \ {r} : down'[p] = down[p]
  <2>1. Read(r) \in Letters
    BY <1>1, ReadsLemma
  <2>2. Read(r).n \in Tokens
    BY <2>1 DEF Letters, Tokens
  <2> QED BY <1>1, <2>1, <2>2, ReadsLemma
<1>3. /\ app[r].online /\ Once(down[r], Answers) /\ Once(down'[r], Answers)
      /\ Once(up[r][s], Recovers)
      /\ r = "student" /\ app[r].stored # None => app[r].session
      /\ \A z \in Sockets : z > s => up[r][z] = <<>> /\ server.seat[r] # z
      /\ app[r].startup # "settled" => ~Answered(r)
      /\ Asking(r) => ~Answered(r)
      /\ server.seat[r] = s =>
            \/ app[r].stored = server.token[r] /\ ~Answered(r)
            \/ \E m \in Range(down[r]) : Renews(r, m)
  <2>1. app[r].online /\ Once(down[r], Answers)
    BY <1>0, <1>2 DEF Seating
  <2> QED BY <1>0, <1>2, <2>1 DEF Seating
<1> DEFINE Others == \A p \in Roles \ {r} : app'[p] = app[p]
<1>4. ASSUME Over' => Seating(r)', Others
      PROVE  Over' /\ \A p \in Roles : Seating(p)'
  <2>1. Alone(r)
    BY <1>0, <1>2, <1>4 DEF Alone
  <2> QED BY <1>4, <2>1, AloneLemma
\* The head is not about the seat.
<1>5. ASSUME Read(r) \notin Answers, Others,
             app'[r].online = app[r].online, app'[r].socket = s,
             app'[r].startup = app[r].startup,
             \/ app'[r].stored = app[r].stored
             \/ app'[r].stored = None /\ server.ended,
             app[r].session => app'[r].session \/ (r = "teacher" /\ server.ended)
      PROVE  Over' /\ \A p \in Roles : Seating(p)'
  <2>1. Range(down'[r]) \cap Answers = Range(down[r]) \cap Answers
    BY <1>2, <1>5
  <2>2. ASSUME Over' PROVE Seating(r)'
    <3>1. /\ server'.token[r] = server.token[r]
          /\ server'.seat[r] \in {server.seat[r], None}
          /\ server.ended => server'.ended
          /\ Once(down[r], Answers) => Once(down'[r], Answers)
      BY <1>0, <1>3
    <3>2. \A z \in Sockets :
             /\ Range(up'[r][z]) \cap Recovers \subseteq Range(up[r][z])
             /\ Once(up[r][z], Recovers) => Once(up'[r][z], Recovers)
             /\ z > s /\ up[r][z] = <<>> => up'[r][z] = <<>>
      BY <1>0
    <3>3. ~app[r].online => down'[r] = down[r]
      BY <1>3
    <3>4. /\ \/ app'[r].stored = app[r].stored
             \/ app'[r].stored = None /\ server'.ended
          /\ app[r].session => app'[r].session \/ (r = "teacher" /\ server'.ended)
      BY <1>0, <1>5
    <3> QED BY <1>5, <2>1, <2>2, <3>1, <3>2, <3>3, <3>4, SeatingKept
  <2> QED BY <1>4, <1>5, <2>2
\* The head is the answer: none is left, and none is still asked for.
<1>6. ASSUME Read(r) \in Answers
      PROVE  /\ ~Asking(r) /\ app[r].startup = "settled"
             /\ \A m \in Range(down'[r]) : m \notin Answers
             /\ server.seat[r] = s => Renews(r, Read(r))
  <2>1. Answered(r)
    BY <1>2, <1>6 DEF Answered
  <2>2. \A m \in Range(down'[r]) : m \notin Answers
    BY <1>2, <1>3, <1>6
  <2>3. ASSUME server.seat[r] = s PROVE Renews(r, Read(r))
    <3>1. PICK m \in Range(down[r]) : Renews(r, m)
      BY <1>3, <2>1, <2>3
    <3>2. server.token[r] \in Nat /\ down[r] \in Seq(Letters)
      BY DEF Typed
    <3>3. m \in Letters
      BY <3>2 DEF Range
    <3>4. m \in Answers
      BY <1>n, <3>1, <3>2, <3>3 DEF Renews, Answers
    <3> QED BY <1>2, <2>2, <3>1, <3>4
  <2> QED BY <1>3, <2>1, <2>2, <2>3
<1>7. ASSUME Read(r) \in Answers, Others,
             app'[r].online, app'[r].socket = s, app'[r].startup = app[r].startup,
             r = "student" /\ app'[r].stored # None => app'[r].session,
             server.seat[r] = s => app'[r].stored = server.token[r]
      PROVE  Over' /\ \A p \in Roles : Seating(p)'
  <2>1. ~Asking(r)' /\ ~Answered(r)'
    BY <1>0, <1>6, <1>7 DEF Asking, Answered
  <2>2. Seating(r)'
    BY <1>0, <1>3, <1>6, <1>7, <2>1 DEF Seating
  <2> QED BY <1>4, <1>7, <2>2
<1>8. CASE ReadStarted(r)
  <2> DEFINE a == Saved(app[r], Read(r).n)
  <2>1. Read(r) \in Answers /\ Read(r).n \in Nat /\ Read(r).kind = "started"
    BY <1>8, ReadsLemma DEF ReadStarted, Answers, Letters
  <2>2. /\ a \in AppRecords /\ a.stored = Read(r).n /\ a.online = app[r].online
        /\ a.socket = s /\ a.startup = app[r].startup
    BY <1>0, <1>2, <1>n, <2>1, SavedLemma, SavedFields
  <2>3. app' = [app EXCEPT ![r] = [a EXCEPT !.session = TRUE, !.control = Inactive]]
    BY <1>0, <1>8 DEF ReadStarted
  <2> HIDE DEF a
  <2>4. /\ app'[r].online /\ app'[r].socket = s /\ app'[r].startup = app[r].startup
        /\ app'[r].stored = Read(r).n /\ app'[r].session /\ Others
    BY <1>0, <1>3, <2>2, <2>3 DEF AppRecords
  <2>5. server.seat[r] = s => app'[r].stored = server.token[r]
    BY <1>6, <2>1, <2>4 DEF Renews
  <2> QED BY <1>7, <2>1, <2>4, <2>5
<1>9. CASE ReadRecovered(r)
  <2> DEFINE a == Saved(app[r], Read(r).n)
             told == app[r].session \/ (r = "teacher" /\ app[r].stored # None)
  <2>1. Read(r).kind = "recovered" /\ (Read(r) \in Answers <=> Read(r).n # None)
    BY <1>2, <1>9, ReadsLemma DEF ReadRecovered, Answers
  <2>2. /\ a \in AppRecords
        /\ a.stored = (IF Read(r).n = None THEN app[r].stored ELSE Read(r).n)
        /\ a.online = app[r].online /\ a.socket = s /\ a.startup = app[r].startup
    BY <1>0, <1>2, SavedLemma, SavedFields
  <2>3. app' = IF told THEN [app EXCEPT ![r] = [a EXCEPT !.session = TRUE]] ELSE app
    BY <1>0, <1>9 DEF ReadRecovered
  <2> HIDE DEF a
  <2>4. /\ app'[r].online = app[r].online /\ app'[r].socket = s
        /\ app'[r].startup = app[r].startup /\ Others
        /\ app'[r].stored = IF told THEN a.stored ELSE app[r].stored
        /\ app'[r].session = (app[r].session \/ told)
    <3>1. CASE told
      BY <1>0, <2>2, <2>3, <3>1 DEF AppRecords
    <3>2. CASE ~told
      BY <1>0, <2>2, <2>3, <3>2 DEF AppRecords
    <3> QED BY <3>1, <3>2
  <2>5. CASE Read(r).n = None
    <3>1. app'[r].stored = app[r].stored /\ (app[r].session => app'[r].session)
      BY <2>2, <2>4, <2>5
    <3> QED BY <1>5, <2>1, <2>4, <2>5, <3>1
  <2>6. CASE Read(r).n # None
    <3>1. server.seat[r] = s => told /\ Read(r).n = server.token[r]
      BY <1>6, <2>1, <2>6 DEF Renews
    <3>2. server.seat[r] = s => app'[r].stored = server.token[r]
      BY <2>2, <2>4, <2>6, <3>1
    <3>3. r = "student" /\ app'[r].stored # None => app'[r].session
      BY <1>3, <2>4
    <3>4. app'[r].online
      BY <1>3, <2>4
    <3> QED BY <1>7, <2>1, <2>4, <2>6, <3>2, <3>3, <3>4
  <2> QED BY <2>5, <2>6
<1>10. CASE ReadRefused(r)
  <2>1. Read(r) \in Answers /\ Read(r).kind = "refused"
    BY <1>10, ReadsLemma DEF ReadRefused, Answers
  <2>2. /\ app'[r].online = app[r].online /\ app'[r].socket = s
        /\ app'[r].startup = app[r].startup /\ app'[r].stored = None /\ Others
    BY <1>0, <1>10 DEF ReadRefused, Forgotten, AppRecords
  <2>3. server.seat[r] # s
    BY <1>6, <2>1 DEF Renews
  <2> QED BY <1>3, <1>7, <2>1, <2>2, <2>3
<1>11. CASE ReadEnded(r)
  <2>1. Read(r).kind = "ended" /\ Read(r) \in Endings /\ Read(r) \notin Answers
    BY <1>2, <1>11, ReadsLemma DEF ReadEnded, Answers, Endings
  <2>2. server.ended
    BY <1>2, <2>1 DEF Over
  <2>3. CASE ~app[r].session
    <3>1. app' = app
      BY <1>11, <2>3 DEF ReadEnded
    <3> QED BY <1>5, <2>1, <3>1
  <2>4. CASE app[r].session
    <3>1. app' = [app EXCEPT ![r] = [Forgotten(app[r]) EXCEPT !.session = (r = "student"),
                                                              !.control = Inactive]]
      BY <1>0, <1>11, <2>4 DEF ReadEnded
    <3>2. /\ app'[r].online = app[r].online /\ app'[r].socket = s
          /\ app'[r].startup = app[r].startup /\ app'[r].stored = None
          /\ app'[r].session = (r = "student") /\ Others
      BY <1>0, <3>1 DEF Forgotten, AppRecords
    <3>3. app[r].session => app'[r].session \/ (r = "teacher" /\ server.ended)
      BY <2>2, <3>2 DEF Roles
    <3> QED BY <1>5, <2>1, <2>2, <3>2, <3>3
  <2> QED BY <2>3, <2>4
<1>12. CASE ReadStop(r) \/ (r = "student" /\ (ReadRequest \/ ReadInput))
            \/ (r = "teacher" /\ ReadAnswer)
  <2>1. Read(r).kind \in {"stop", "request", "keydown", "keyup", "approved", "denied"}
    BY <1>12, ReadsLemma DEF ReadStop, ReadRequest, ReadInput, ReadAnswer
  <2>2. Read(r) \notin Answers
    BY <2>1 DEF Answers
  <2>3. \E c : app' \in {app, [app EXCEPT ![r].control = c]}
    BY <1>12 DEF ReadStop, ReadRequest, ReadInput, ReadAnswer
  <2>4. /\ app'[r].online = app[r].online /\ app'[r].socket = s
        /\ app'[r].startup = app[r].startup /\ app'[r].stored = app[r].stored
        /\ app'[r].session = app[r].session /\ Others
    BY <1>0, <2>3 DEF AppRecords
  <2> QED BY <1>5, <2>2, <2>4
<1> QED BY <1>8, <1>9, <1>10, <1>11, <1>12 DEF ApplicationReads

-----------------------------------------------------------------------------
(* The seats can be recovered *)

SeatInv == Typed /\ Over /\ \A r \in Roles : Seating(r)

\* The seats at the start.
LEMMA InitSeats == Init => SeatInv
<1> SUFFICES ASSUME Init PROVE Over /\ \A r \in Roles : Seating(r)
  BY InitTyped DEF SeatInv
<1>0. None \notin Nat /\ 1 \in Sockets /\ Sockets \subseteq Nat
  BY RemoteControlAssumption
<1>1. PICK m : m = Message("started", 1)
  OBVIOUS
<1>2. /\ m \in Letters /\ m \in Answers /\ m \notin Endings
      /\ m.kind = "started" /\ m.n = 1
  BY <1>1 DEF Message, Letters, Answers, Endings
<1>3. \A r \in Roles : down[r] = <<m>> /\ \A s \in Sockets : up[r][s] = <<>>
  BY <1>1 DEF Init
<1>4. Range(<<m>>) = {m} /\ \A P : Once(<<m>>, P) /\ Once(<<>>, P) /\ Range(<<>>) = {}
  BY EmptyLemma DEF Range, Once
<1>5. \A r \in Roles : /\ app[r].online /\ app[r].socket = 1 /\ app[r].stored = None
                       /\ app[r].startup = "settled"
                       /\ server.seat[r] = 1 /\ server.token[r] = 1
  BY DEF Init
<1>6. Over
  BY <1>2, <1>3, <1>4 DEF Over, Init
<1>7. ASSUME NEW r \in Roles PROVE Seating(r)
  <2>1. \A s \in Sockets : s > 1 => s # 1
    BY <1>0
  <2>2. ~Asking(r)
    BY <1>0, <1>3, <1>4, <1>5 DEF Asking
  <2>3. Renews(r, m) /\ m \in Range(down[r])
    BY <1>2, <1>3, <1>4, <1>5 DEF Renews
  <2> QED BY <1>0, <1>3, <1>4, <1>5, <2>1, <2>2, <2>3 DEF Seating
<1> QED BY <1>6, <1>7

\* Every step keeps what is known of the seats.
LEMMA StepKeepsSeats ==
    ASSUME SeatInv, [Next]_vars
    PROVE  SeatInv'
<1>0. Typed /\ Over /\ \A r \in Roles : Seating(r)
  BY DEF SeatInv
<1>1. CASE ServerMoves
  <2>1. Typed'
    BY <1>0, <1>1, ServerTyped
  <2>2. CASE \E r \in Roles, s \in Sockets : RecoverSession(r, s)
    BY <1>0, <2>1, <2>2, RecoverKeepsSeats DEF SeatInv
  <2>3. CASE \A r \in Roles, s \in Sockets : ~RecoverSession(r, s)
    BY <1>0, <1>1, <2>1, <2>3, ServerMovesKeepSeats, KeepsSeatsLemma DEF SeatInv
  <2> QED BY <2>2, <2>3
<1>2. ASSUME NEW r \in Roles, AppMoves(r) PROVE SeatInv'
  <2>1. Typed'
    BY <1>0, <1>2, AppTyped
  <2> QED BY <1>0, <1>2, <2>1, ClickKeepsSeats, ConnectionKeepsSeats
          DEF SeatInv, AppMoves, Clicks
<1>3. ASSUME NEW r \in Roles, ApplicationReads(r) PROVE SeatInv'
  BY <1>0, <1>3, ReaderTyped, ReaderKeepsSeats DEF SeatInv
<1>4. CASE Professor
  BY <1>0, <1>4, ProfessorTyped, ProfessorKeepsSeats DEF SeatInv
<1>5. CASE Student
  BY <1>0, <1>5, StudentTyped, StudentKeepsSeats DEF SeatInv
<1>6. CASE UNCHANGED vars
  <2>1. UNCHANGED <<server, app, pressed, held, stuck, up, down, left>>
    BY <1>6 DEF vars
  <2>2. Typed'
    BY <1>0, <1>6, StillTyped
  <2>3. Over'
    BY <1>0, <2>1 DEF Over
  <2>4. \A r \in Roles : Seating(r)'
    BY <1>0, <2>1 DEF Seating, Asking, Answered, Renews
  <2> QED BY <2>2, <2>3, <2>4 DEF SeatInv
<1> QED BY <1>1, <1>2, <1>3, <1>4, <1>5, <1>6 DEF Next, ServerMoves, AppMoves

\* What is known of the seats is enough.
LEMMA SeatedLemma == SeatInv => SeatedCanRecover
<1> SUFFICES ASSUME SeatInv, NEW r \in Roles, app[r].online, server.seat[r] = app[r].socket,
                    app[r].stored # server.token[r]
             PROVE  InFlight(down[r], {"started", "recovered"}, server.token[r])
  BY DEF SeatedCanRecover
<1>1. PICK m \in Range(down[r]) : Renews(r, m)
  BY DEF SeatInv, Seating
<1> QED BY <1>1 DEF Range, Renews, InFlight

\* The token that recoverSession replaces is never the only one an application
\* has: whoever holds a seat over its present connection knows the next token,
\* or is about to read it.
THEOREM SeatsCanRecover == Spec => []SeatedCanRecover
<1>1. Init => SeatInv
  BY InitSeats
<1>2. SeatInv /\ [Next]_vars => SeatInv'
  BY StepKeepsSeats
<1>3. SeatInv => SeatedCanRecover
  BY SeatedLemma
<1> QED BY <1>1, <1>2, <1>3, PTL DEF Spec

-----------------------------------------------------------------------------
(* Questions and answers *)

\* What carries a question, or an answer that says yes.
Carriers == {m \in Letters : m.kind \in {"request", "approved"}}

\* A queue carries no more of them than another.
Less(new, old) ==
    /\ Range(new) \cap Carriers \subseteq Range(old)
    /\ \A P \in SUBSET Carriers : Once(old, P) => Once(new, P)

\* Questions and answers are such messages.
LEMMA CarriersLemma ==
    ASSUME NEW q \in Nat
    PROVE  /\ Asks(q) \in Carriers /\ Approves(q) \in Carriers
           /\ Asks(q) # Approves(q)
           /\ {Asks(q)} \in SUBSET Carriers
<1>1. Asks(q) \in Carriers /\ Approves(q) \in Carriers
  BY DEF Asks, Approves, Message, Carriers, Letters
<1>2. Asks(q) # Approves(q)
  BY DEF Asks, Approves, Message
<1> QED BY <1>1, <1>2

\* Every question is the question of its number.
LEMMA AsksLemma ==
    ASSUME NEW m \in Letters, m.kind \in {"request", "approved"}
    PROVE  /\ m.n \in Nat
           /\ m.kind = "request" => m = Asks(m.n)
           /\ m.kind = "approved" => m = Approves(m.n)
BY DEF Letters, Asks, Approves, Message

\* A queue that is left alone.
LEMMA LessItself == \A queue : Less(queue, queue)
BY DEF Less

\* Another message, the loss of the head or of the tail, and an empty queue.
LEMMA LessLemma ==
    ASSUME NEW queue \in Seq(Letters)
    PROVE  /\ \A m \in Letters : m \notin Carriers => Less(Append(queue, m), queue)
           /\ queue # <<>> => Less(Tail(queue), queue)
           /\ \A more \in Seq(Letters) :
                 Range(more) \cap Carriers = {} => /\ Less(queue \o more, queue)
                                                   /\ Less(more, queue)
<1>1. ASSUME NEW m \in Letters, m \notin Carriers PROVE Less(Append(queue, m), queue)
  <2>1. Range(Append(queue, m)) = Range(queue) \cup {m}
    BY AppendLemma
  <2>2. ASSUME NEW P \in SUBSET Carriers, Once(queue, P) PROVE Once(Append(queue, m), P)
    BY <1>1, <2>2, AppendLemma
  <2> QED BY <1>1, <2>1, <2>2 DEF Less
<1>2. ASSUME queue # <<>> PROVE Less(Tail(queue), queue)
  <2>1. Range(queue) = {Head(queue)} \cup Range(Tail(queue))
    BY <1>2, TailLemma
  <2>2. ASSUME NEW P \in SUBSET Carriers, Once(queue, P) PROVE Once(Tail(queue), P)
    BY <1>2, <2>2, TailLemma
  <2> QED BY <2>1, <2>2 DEF Less
<1>3. ASSUME NEW more \in Seq(Letters), Range(more) \cap Carriers = {}
      PROVE  Less(queue \o more, queue)
  <2>1. Range(queue \o more) = Range(queue) \cup Range(more)
    BY ConcatLemma
  <2>2. ASSUME NEW P \in SUBSET Carriers, Once(queue, P) PROVE Once(queue \o more, P)
    <3>1. Range(more) \cap P = {}
      BY <1>3
    <3> QED BY <2>2, <3>1, ConcatLemma
  <2> QED BY <1>3, <2>1, <2>2 DEF Less
<1>4. ASSUME NEW more \in Seq(Letters), Range(more) \cap Carriers = {}
      PROVE  Less(more, queue)
  BY <1>4 DEF Less, Once, Range
<1> QED BY <1>1, <1>2, <1>3, <1>4

\* What a lost connection leaves of a queue.
LEMMA LessCut ==
    ASSUME NEW queue \in Seq(Letters), NEW n \in 0 .. Len(queue),
           NEW m \in Letters, m \notin Carriers
    PROVE  Less(Append(SubSeq(queue, 1, n), m), queue)
<1>1. Range(Append(SubSeq(queue, 1, n), m)) \subseteq Range(queue) \cup {m}
  BY CutLemma
<1>2. ASSUME NEW P \in SUBSET Carriers, Once(queue, P)
      PROVE  Once(Append(SubSeq(queue, 1, n), m), P)
  BY <1>2, CutLemma
<1> QED BY <1>1, <1>2 DEF Less

\* What the server sends.
LEMMA LessDelivered ==
    ASSUME NEW d, NEW e, NEW M, Delivered(d, e, M), M \cap Carriers = {}, NEW r \in Roles
    PROVE  Less(e[r], d[r])
<1>1. Range(e[r]) \subseteq Range(d[r]) \cup M
  BY DEF Delivered
<1>2. ASSUME NEW P \in SUBSET Carriers, Once(d[r], P) PROVE Once(e[r], P)
  <2>1. P \cap M = {}
    OBVIOUS
  <2> QED BY <1>2, <2>1 DEF Delivered
<1> QED BY <1>1, <1>2 DEF Less

\* A step that asks nothing and says yes to nothing.
Mute ==
    /\ \A r \in Roles, s \in Sockets : Less(up'[r][s], up[r][s])
    /\ \A r \in Roles : Less(down'[r], down[r])
    /\ server'.auth \in {server.auth, NoAuthorization}
    /\ \A r \in Roles : app'[r].control \in {app[r].control, Inactive}
    /\ left'["request"] = left["request"]

\* What the question of number q is may only be forgotten.
Fewer(q) ==
    /\ \A s \in Sockets :
          /\ Asks(q) \in Range(up'["teacher"][s]) => Asks(q) \in Range(up["teacher"][s])
          /\ Once(up["teacher"][s], {Asks(q)}) => Once(up'["teacher"][s], {Asks(q)})
    /\ Arriving(q)' => Arriving(q)
    /\ Once(down["student"], {Asks(q)}) => Once(down'["student"], {Asks(q)})
    /\ Considered(q)' => Considered(q)
    /\ Granted(q)' => Granted(q)
    /\ q > left["request"] => q > left'["request"]

\* Forgetting breaks nothing.
LEMMA FewerLemma ==
    ASSUME NEW q \in Nat, Decided(q), Fewer(q)
    PROVE  Decided(q)'
<1>1. Travelling(q)' => Travelling(q)
  BY DEF Fewer, Travelling
<1>2. /\ \A s \in Sockets : Once(up'["teacher"][s], {Asks(q)})
      /\ \A s, z \in Sockets :
          Asks(q) \in Range(up'["teacher"][s]) \cap Range(up'["teacher"][z]) => s = z
      /\ Once(down'["student"], {Asks(q)})
  BY DEF Fewer, Decided
<1>3. /\ Arriving(q)' => Arriving(q)
      /\ Considered(q)' => Considered(q)
      /\ Granted(q)' => Granted(q)
      /\ q > left["request"] => q > left'["request"]
  BY DEF Fewer
<1> QED BY <1>1, <1>2, <1>3 DEF Decided

\* A mute step may only forget.
LEMMA MuteLemma ==
    ASSUME NEW q \in Nat, Mute
    PROVE  Fewer(q)
<1>1. Asks(q) \in Carriers /\ Approves(q) \in Carriers /\ {Asks(q)} \in SUBSET Carriers
  BY CarriersLemma
<1>2. "teacher" \in Roles /\ "student" \in Roles
  BY DEF Roles
<1>3. ASSUME NEW s \in Sockets
      PROVE  /\ Asks(q) \in Range(up'["teacher"][s]) => Asks(q) \in Range(up["teacher"][s])
             /\ Once(up["teacher"][s], {Asks(q)}) => Once(up'["teacher"][s], {Asks(q)})
             /\ Approves(q) \in Range(up'["student"][s]) => Approves(q) \in Range(up["student"][s])
  BY <1>1, <1>2 DEF Mute, Less
<1>4. /\ Arriving(q)' => Arriving(q)
      /\ Once(down["student"], {Asks(q)}) => Once(down'["student"], {Asks(q)})
      /\ Approves(q) \in Range(down'["teacher"]) => Approves(q) \in Range(down["teacher"])
  BY <1>1, <1>2 DEF Mute, Less, Arriving
<1>5. Control(q, "pending") # Inactive /\ Control(q, "active") # Inactive
      /\ Control(q, "active") # NoAuthorization
  BY DEF Control, Inactive, NoAuthorization
<1>6. /\ Considered(q)' => Considered(q)
      /\ server'.auth = Control(q, "active") => server.auth = Control(q, "active")
      /\ app'["teacher"].control = Control(q, "active")
            => app["teacher"].control = Control(q, "active")
  BY <1>2, <1>5 DEF Mute, Considered
<1>7. Granted(q)' => Granted(q)
  BY <1>3, <1>4, <1>6 DEF Granted
<1> QED BY <1>3, <1>4, <1>6, <1>7 DEF Fewer, Mute

\* A message read by the server, ...
LEMMA HearsMute ==
    ASSUME Typed, NEW r \in Roles, NEW s \in Sockets, NEW kinds, Hears(r, s, kinds),
           NEW p \in Roles, NEW z \in Sockets
    PROVE  Less(up'[p][z], up[p][z])
<1>1. up \in [Roles -> [Sockets -> Seq(Letters)]] /\ up[r][s] \in Seq(Letters)
  BY DEF Typed
<1>2. up' = [up EXCEPT ![r][s] = Tail(up[r][s])] /\ up[r][s] # <<>>
  BY <1>1 DEF Hears
<1>3. Less(Tail(up[r][s]), up[r][s])
  BY <1>1, <1>2, LessLemma
<1>4. up'[p][z] = IF p = r /\ z = s THEN Tail(up[r][s]) ELSE up[p][z]
  BY <1>1, <1>2
<1> QED BY <1>3, <1>4, LessItself

\* ... by an application, ...
LEMMA ReadsMute ==
    ASSUME Typed, NEW r \in Roles, NEW kinds, Reads(r, kinds), NEW p \in Roles
    PROVE  Less(down'[p], down[p])
<1>1. down \in [Roles -> Seq(Letters)] /\ down[r] \in Seq(Letters)
  BY DEF Typed
<1>2. down' = [down EXCEPT ![r] = Tail(down[r])] /\ down[r] # <<>>
  BY <1>1 DEF Reads
<1>3. Less(Tail(down[r]), down[r])
  BY <1>1, <1>2, LessLemma
<1>4. down'[p] = IF p = r THEN Tail(down[r]) ELSE down[p]
  BY <1>1, <1>2
<1> QED BY <1>3, <1>4, LessItself

\* ... sent to the server, ...
LEMMA SentMute ==
    ASSUME Typed, NEW r \in Roles, NEW m \in Letters, m \notin Carriers,
           up' = Sent(up, r, m), NEW p \in Roles, NEW z \in Sockets
    PROVE  Less(up'[p][z], up[p][z])
<1> DEFINE s == app[r].socket
<1>1. /\ up \in [Roles -> [Sockets -> Seq(Letters)]] /\ up[r][s] \in Seq(Letters)
      /\ s \in Sockets
  BY DEF Typed, AppRecords
<1>2. up' = [up EXCEPT ![r][s] = Append(up[r][s], m)]
  BY <1>1 DEF Sent
<1>3. Less(Append(up[r][s], m), up[r][s])
  BY <1>1, LessLemma
<1> HIDE DEF s
<1>4. up'[p][z] = IF p = r /\ z = s THEN Append(up[r][s], m) ELSE up[p][z]
  BY <1>1, <1>2
<1> QED BY <1>3, <1>4, LessItself

\* ... and a connection lost.
LEMMA CutMute ==
    ASSUME Typed, NEW r \in Roles, Cut(r), NEW p \in Roles
    PROVE  /\ \A z \in Sockets : Less(up'[p][z], up[p][z])
           /\ Less(down'[p], down[p])
<1> DEFINE s == app[r].socket
           m == Message("disconnect", None)
<1>1. /\ up \in [Roles -> [Sockets -> Seq(Letters)]] /\ up[r][s] \in Seq(Letters)
      /\ s \in Sockets /\ down \in [Roles -> Seq(Letters)]
  BY DEF Typed, AppRecords
<1>2. m \in Letters /\ m \notin Carriers
  BY DEF Message, Letters, Tokens, Carriers
<1>3. PICK n \in 0 .. Len(up[r][s]) :
         up' = [up EXCEPT ![r][s] = Append(SubSeq(@, 1, n), m)]
  BY DEF Cut
<1> DEFINE new == Append(SubSeq(up[r][s], 1, n), m)
<1>4. Less(new, up[r][s])
  BY <1>1, <1>2, LessCut
<1>5. up' = [up EXCEPT ![r][s] = new]
  BY <1>1, <1>3
<1>6. down' = [down EXCEPT ![r] = <<>>]
  BY DEF Cut
<1>7. \A queue \in Seq(Letters) : Less(<<>>, queue)
  BY LessLemma, EmptyLemma
<1> HIDE DEF new, s, m
<1>8. ASSUME NEW z \in Sockets PROVE Less(up'[p][z], up[p][z])
  <2>1. up'[p][z] = IF p = r /\ z = s THEN new ELSE up[p][z]
    BY <1>1, <1>5
  <2> QED BY <1>4, <2>1, LessItself
<1>9. Less(down'[p], down[p])
  <2>1. down'[p] = IF p = r THEN <<>> ELSE down[p]
    BY <1>1, <1>6
  <2> QED BY <1>1, <1>7, <2>1, LessItself
<1> QED BY <1>8, <1>9

\* The server without its handlers of questions and answers.
LEMMA ServerMute ==
    ASSUME Typed, ServerMoves, \A s \in Sockets : ~OnRequest(s) /\ ~OnAnswer(s)
    PROVE  Mute
<1> DEFINE Silent == Letters \ Carriers
<1>0. /\ server = [ended |-> server.ended, due |-> server.due, auth |-> server.auth,
                   seat |-> server.seat, token |-> server.token,
                   present |-> server.present]
      /\ down \in [Roles -> Seq(Letters)] /\ server.token \in [Roles -> Nat]
      /\ Silent \cap Carriers = {}
  BY DEF Typed
<1> DEFINE Quietly == /\ Delivered(down, down', Silent)
                      /\ server'.auth \in {server.auth, NoAuthorization}
                      /\ left'["request"] = left["request"]
<1>1. down' = down => Delivered(down, down', Silent)
  BY <1>0, NothingDelivered
<1>2. ASSUME Finish PROVE /\ Delivered(down, down', Silent)
                          /\ server'.auth \in {server.auth, NoAuthorization}
  <2>1. /\ Delivered(down, down', Farewells)
        /\ server' = [server EXCEPT !.ended = TRUE, !.due = "no",
                                    !.seat = [r \in Roles |-> None],
                                    !.auth = NoAuthorization]
    BY <1>2, FinishLemma
  <2>2. Farewells \subseteq Silent
    BY DEF Farewells, Carriers
  <2> HIDE DEF Silent
  <2>3. Delivered(down, down', Silent)
    BY <2>1, <2>2, DeliveredMore
  <2> QED BY <1>0, <2>1, <2>3
<1>3. ASSUME NEW m \in Silent, NEW r \in Roles, NEW s, NEW d \in [Roles -> Seq(Letters)]
      PROVE  Delivered(d, Emitted(d, r, s, m), Silent)
  <2>1. Delivered(d, Emitted(d, r, s, m), {m})
    BY EmittedLemma
  <2> QED BY <1>3, <2>1, DeliveredMore
<1>4. ASSUME NEW r \in Roles, NEW s \in Sockets, ServerHears(r, s) PROVE Mute
  <2>1. PICK kinds : Hears(r, s, kinds) /\ UNCHANGED <<app, left>>
    BY <1>4 DEF ServerHears, Register, Disconnected, RecoverSession, EndSession,
                OnRequest, OnInput, OnAnswer, OnStop
  <2>2. Heard(r, s) \in Letters /\ Peer(r) \in Roles
    BY <2>1, HearsLemma DEF Peer, Roles
  <2>3. Quietly
    <3>1. CASE Register(r, s) \/ Disconnected(r, s)
      BY <1>0, <1>1, <2>1, <3>1 DEF Register, Disconnected
    <3>2. CASE RecoverSession(r, s)
      <4>0. server.token[r] + 1 \in Nat
        BY <1>0
      <4>1. PICK other, mine, refused :
               /\ other   = Message("recovered", None)
               /\ mine    = Message("recovered", server.token[r] + 1)
               /\ refused = Message("refused", None)
        OBVIOUS
      <4>2. other \in Silent /\ mine \in Silent /\ refused \in Silent
        BY <4>0, <4>1 DEF Message, Letters, Tokens, Carriers
      <4>3. CASE Recovered(r, s)
        <5>1. PICK d : d = Emitted(down, Peer(r), DeliverySocket(Peer(r)), other)
          OBVIOUS
        <5>2. Delivered(down, d, Silent) /\ d \in [Roles -> Seq(Letters)]
          <6>1. Delivered(down, d, Silent)
            BY <1>0, <1>3, <2>2, <4>2, <5>1
          <6> QED BY <6>1 DEF Delivered
        <5>3. down' = Emitted(d, r, s, mine)
          BY <4>1, <4>3, <5>1 DEF Recovered
        <5>4. Delivered(d, down', Silent)
          BY <1>3, <4>2, <5>2, <5>3
        <5>5. server'.auth = server.auth
          BY <1>0, <4>3 DEF Recovered
        <5> HIDE DEF Silent
        <5>6. Delivered(down, down', Silent)
          BY <5>2, <5>4, DeliveredTransitive
        <5> QED BY <2>1, <5>5, <5>6
      <4>4. CASE down' = Emitted(down, r, s, refused) /\ UNCHANGED server
        BY <1>0, <1>3, <2>1, <4>2, <4>4
      <4> QED BY <3>2, <4>1, <4>3, <4>4 DEF RecoverSession
    <3>3. CASE EndSession(r, s)
      BY <1>1, <1>2, <2>1, <3>3 DEF EndSession
    <3>4. CASE r = "teacher" /\ OnInput(s)
      <4>1. Heard(r, s) \in Silent
        BY <2>2, <3>4, HearsLemma DEF OnInput, Carriers
      <4> QED BY <1>0, <1>1, <1>3, <2>1, <3>4, <4>1 DEF OnInput, Roles
    <3>5. CASE OnStop(r, s)
      <4>1. Heard(r, s) \in Silent
        BY <2>2, <3>5, HearsLemma DEF OnStop, Carriers
      <4>2. Delivered(down, Emitted(down, Peer(r), server.seat[Peer(r)], Heard(r, s)), Silent)
        BY <1>0, <1>3, <2>2, <4>1
      <4>3. /\ down' = down \/ down' = Emitted(down, Peer(r), server.seat[Peer(r)], Heard(r, s))
            /\ server'.auth \in {server.auth, NoAuthorization}
        BY <1>0, <3>5 DEF OnStop
      <4> QED BY <1>1, <2>1, <4>2, <4>3
    <3> QED BY <1>4, <3>1, <3>2, <3>3, <3>4, <3>5 DEF ServerHears
  <2>4. ASSUME NEW p \in Roles PROVE Less(down'[p], down[p])
    <3> HIDE DEF Silent
    <3> QED BY <1>0, <2>3, LessDelivered
  <2>5. \A p \in Roles, z \in Sockets : Less(up'[p][z], up[p][z])
    BY <2>1, HearsMute
  <2> QED BY <2>1, <2>3, <2>4, <2>5 DEF Mute
<1>5. CASE RequestTimeout \/ DeadlinePasses \/ ExpireRecovery
  <2>1. UNCHANGED <<app, up>>
    BY <1>5 DEF RequestTimeout, DeadlinePasses, ExpireRecovery
  <2>2. Quietly
    <3>1. CASE RequestTimeout
      <4>1. server.auth.request \in Nat
        BY <3>1 DEF Typed, RequestTimeout, NoAuthorization, Controlled
      <4>2. PICK m : m = Message("stop", server.auth.request)
        OBVIOUS
      <4>3. m \in Letters /\ {m} \subseteq Silent
        BY <4>1, <4>2 DEF Message, Letters, Carriers
      <4>4. down' = Announced(down, m)
        BY <3>1, <4>2 DEF RequestTimeout
      <4>5. Delivered(down, down', {m})
        BY <1>0, <4>3, <4>4, AnnouncedLemma
      <4>6. left'["request"] = left["request"] /\ server'.auth = NoAuthorization
        BY <1>0, <3>1, UsedLemma DEF RequestTimeout, Bounded
      <4> HIDE DEF Silent
      <4>7. Delivered(down, down', Silent)
        BY <4>3, <4>5, DeliveredMore
      <4> QED BY <4>6, <4>7
    <3>2. CASE DeadlinePasses
      BY <1>0, <1>1, <3>2 DEF DeadlinePasses
    <3>3. CASE ExpireRecovery
      BY <1>2, <3>3 DEF ExpireRecovery
    <3> QED BY <1>5, <3>1, <3>2, <3>3
  <2>3. ASSUME NEW p \in Roles PROVE Less(down'[p], down[p])
    <3> HIDE DEF Silent
    <3> QED BY <1>0, <2>2, LessDelivered
  <2> QED BY <2>1, <2>2, <2>3, LessItself DEF Mute
<1> QED BY <1>4, <1>5 DEF ServerMoves

\* Connections, restarts and clicks ask nothing and answer nothing.
LEMMA ConnectionMute ==
    ASSUME Typed, NEW r \in Roles, AppMoves(r)
    PROVE  Mute
<1> DEFINE s == app[r].socket
<1>0. /\ app \in [Roles -> AppRecords] /\ app[r] \in AppRecords
      /\ up \in [Roles -> [Sockets -> Seq(Letters)]]
      /\ down \in [Roles -> Seq(Letters)]
      /\ server' = server
      /\ app[r].stored \in Tokens
  BY DEF Typed, AppRecords, AppMoves, Clicks, Resume, Discard, ClickEnd, ClickStop, Connect,
         Lose, Restart
<1>1. left'["request"] = left["request"]
  BY UsedLemma DEF AppMoves, Clicks, Resume, Discard, ClickEnd, ClickStop, Connect,
         Lose, Restart, Bounded
<1>2. \A p \in Roles : app'[p].control \in {app[p].control, Inactive}
  <2>1. ASSUME NEW p \in Roles \ {r} PROVE app'[p] = app[p]
    BY <1>0 DEF AppMoves, Clicks, Resume, Discard, ClickEnd, ClickStop, Connect, Lose, Restart
  <2> SUFFICES app'[r].control \in {app[r].control, Inactive}
    BY <2>1
  <2>2. CASE ClickStop(r) \/ Restart(r)
    <3>1. app'[r].control = Inactive
      BY <1>0, <2>2 DEF ClickStop, Restart, AppRecords
    <3> QED BY <3>1
  <2>3. CASE Resume(r) \/ Discard(r)
    <3>1. CASE Resume(r)
      BY <1>0, <3>1 DEF Resume, AppRecords
    <3>2. CASE Discard(r)
      BY <1>0, <3>2 DEF Discard, AppRecords
    <3> QED BY <2>3, <3>1, <3>2
  <2>4. CASE Connect(r) \/ Lose(r)
    <3>1. CASE Connect(r)
      BY <1>0, <3>1 DEF Connect, AppRecords
    <3>2. CASE Lose(r)
      BY <1>0, <3>2 DEF Lose, AppRecords
    <3> QED BY <2>4, <3>1, <3>2
  <2>5. CASE ClickEnd(r)
    BY <1>0, <2>5 DEF ClickEnd
  <2> QED BY <2>2, <2>3, <2>4, <2>5 DEF AppMoves, Clicks
<1> DEFINE Hushed == /\ \A p \in Roles, z \in Sockets : Less(up'[p][z], up[p][z])
                     /\ \A p \in Roles : Less(down'[p], down[p])
<1>3. UNCHANGED <<up, down>> => Hushed
  BY LessItself
<1>4. Cut(r) => Hushed
  BY CutMute
<1>5. ASSUME NEW m \in Letters, m \notin Carriers, up' = Sent(up, r, m), down' = down
      PROVE  Hushed
  BY <1>5, SentMute, LessItself
<1>6. Hushed
  <2>1. CASE Resume(r)
    <3>1. CASE up' = Sent(up, r, Message("recover", app[r].stored)) /\ app[r].stored # None
      <4>1. Message("recover", app[r].stored) \in Letters \ Carriers
        BY <1>0, <3>1 DEF Message, Letters, Carriers, Tokens
      <4> QED BY <1>5, <2>1, <3>1, <4>1 DEF Resume
    <3> QED BY <1>3, <2>1, <3>1 DEF Resume
  <2>2. CASE Discard(r)
    <3>1. CASE up' = Sent(up, r, Message("end", app[r].stored))
      <4>1. Message("end", app[r].stored) \in Letters \ Carriers
        BY <1>0 DEF Message, Letters, Carriers, Tokens
      <4> QED BY <1>5, <2>2, <3>1, <4>1 DEF Discard
    <3> QED BY <1>3, <2>2, <3>1 DEF Discard
  <2>3. CASE ClickEnd(r)
    <3>1. Message("end", None) \in Letters \ Carriers
      BY DEF Message, Letters, Carriers, Tokens
    <3> QED BY <1>5, <2>3, <3>1 DEF ClickEnd
  <2>4. CASE ClickStop(r)
    <3>1. app[r].control.request \in Nat
      BY <1>0, <2>4 DEF ClickStop, AppRecords, Controlled
    <3>2. Message("stop", app[r].control.request) \in Letters \ Carriers
      BY <3>1 DEF Message, Letters, Carriers
    <3> QED BY <1>5, <2>4, <3>2 DEF ClickStop
  <2>5. CASE Connect(r)
    <3> DEFINE new == s + 1
               hello == <<Message("register", None)>>
               more  == IF Recoverable(app[r]) THEN <<Message("recover", app[r].stored)>>
                                               ELSE <<>>
    <3>1. new \in Sockets /\ down' = down
      BY <2>5 DEF Connect
    <3>2. PICK m, q : m = Message("register", None) /\ q = Message("recover", app[r].stored)
      OBVIOUS
    <3>3. m \in Letters \ Carriers /\ (Recoverable(app[r]) => q \in Letters \ Carriers)
      BY <1>0, <3>2 DEF Message, Letters, Carriers, Tokens, Recoverable
    <3>4. hello = <<m>> /\ more = IF Recoverable(app[r]) THEN <<q>> ELSE <<>>
      BY <3>2
    <3>5. up' = [up EXCEPT ![r][new] = hello \o more]
      BY <2>5 DEF Connect
    <3>6. Range(<<>>) = {} /\ \A x : Range(<<x>>) = {x}
      BY DEF Range
    <3> HIDE DEF new, hello, more
    <3>7. /\ hello \in Seq(Letters) /\ Range(hello) \cap Carriers = {}
          /\ more \in Seq(Letters) /\ Range(more) \cap Carriers = {}
      <4>1. CASE Recoverable(app[r])
        BY <3>3, <3>4, <3>6, <4>1
      <4>2. CASE ~Recoverable(app[r])
        BY <3>3, <3>4, <3>6, <4>2
      <4> QED BY <4>1, <4>2
    <3>8. hello \o more \in Seq(Letters) /\ Range(hello \o more) \cap Carriers = {}
      BY <3>7, ConcatLemma
    <3>9. Less(hello \o more, up[r][new])
      <4>1. up[r][new] \in Seq(Letters)
        BY <1>0, <3>1
      <4> QED BY <3>8, <4>1, LessLemma
    <3>10. ASSUME NEW p \in Roles, NEW z \in Sockets PROVE Less(up'[p][z], up[p][z])
      <4>1. up'[p][z] = IF p = r /\ z = new THEN hello \o more ELSE up[p][z]
        BY <1>0, <3>1, <3>5
      <4> QED BY <3>9, <4>1, LessItself
    <3> QED BY <3>1, <3>10, LessItself
  <2>6. CASE Lose(r)
    BY <1>4, <2>6 DEF Lose
  <2>7. CASE Restart(r)
    BY <1>3, <1>4, <2>7 DEF Restart
  <2> QED BY <2>1, <2>2, <2>3, <2>4, <2>5, <2>6, <2>7 DEF AppMoves, Clicks
<1> QED BY <1>0, <1>1, <1>2, <1>6 DEF Mute

\* Keystrokes, and keys let go.
LEMMA KeysMute ==
    ASSUME Typed, FocusLost \/ \E kind \in {"keydown", "keyup"}, k \in Keys : Stroke(kind, k)
    PROVE  Mute
<1>0. /\ app["teacher"] \in AppRecords /\ "teacher" \in Roles
      /\ up \in [Roles -> [Sockets -> Seq(Letters)]]
      /\ server' = server /\ app' = app /\ down' = down
  BY DEF Typed, Roles, FocusLost, Stroke
<1>1. left'["request"] = left["request"]
  BY UsedLemma DEF Bounded, FocusLost, Stroke
<1>2. app["teacher"].control.request \in Nat
  BY <1>0 DEF FocusLost, Stroke, Controls, AppRecords, Controlled, Inactive
<1>3. ASSUME NEW p \in Roles, NEW z \in Sockets PROVE Less(up'[p][z], up[p][z])
  <2>1. CASE up' = up
    BY <2>1, LessItself
  <2>2. ASSUME NEW kind \in {"keydown", "keyup"}, NEW k \in Keys,
               up' = Sent(up, "teacher", Input(kind, app["teacher"].control.request, k))
        PROVE  Less(up'[p][z], up[p][z])
    <3>1. Input(kind, app["teacher"].control.request, k) \in Letters \ Carriers
      BY <1>2 DEF Input, Letters, Carriers
    <3> QED BY <1>0, <2>2, <3>1, SentMute
  <2>3. CASE Controls /\ up' = [up EXCEPT !["teacher"][app["teacher"].socket] = @ \o Releases]
    <3> DEFINE s == app["teacher"].socket
    <3>1. s \in Sockets /\ up["teacher"][s] \in Seq(Letters)
      BY <1>0 DEF AppRecords
    <3>2. Releases \in Seq(Letters) /\ Range(Releases) \cap Carriers = {}
      BY <2>3, ReleasesLemma DEF Carriers
    <3>3. Less(up["teacher"][s] \o Releases, up["teacher"][s])
      BY <3>1, <3>2, LessLemma
    <3>4. up' = [up EXCEPT !["teacher"][s] = up["teacher"][s] \o Releases]
      BY <1>0, <2>3, <3>1
    <3> HIDE DEF s
    <3>5. up'[p][z] = IF p = "teacher" /\ z = s THEN up["teacher"][s] \o Releases ELSE up[p][z]
      BY <1>0, <3>1, <3>4
    <3> QED BY <3>3, <3>5, LessItself
  <2>4. CASE FocusLost
    BY <2>1, <2>3, <2>4 DEF FocusLost, Releases
  <2>5. CASE \E kind \in {"keydown", "keyup"}, k \in Keys : Stroke(kind, k)
    BY <2>1, <2>2, <2>5 DEF Stroke
  <2> QED BY <2>4, <2>5
<1> QED BY <1>0, <1>1, <1>3, LessItself DEF Mute

\* What an application reads, but for a question and an answer.
LEMMA ReaderMute ==
    ASSUME Typed, NEW r \in Roles, ApplicationReads(r), ~ReadRequest, ~ReadAnswer
    PROVE  Mute
<1>0. /\ app \in [Roles -> AppRecords] /\ app[r] \in AppRecords
      /\ server' = server /\ up' = up
  BY DEF Typed, ApplicationReads, ReadStarted, ReadRecovered, ReadEnded, ReadRefused,
         ReadStop, ReadRequest, ReadInput, ReadAnswer
<1>l. left'["request"] = left["request"]
  <2>1. Used("fault") => left'["request"] = left["request"]
    BY UsedLemma DEF Bounded
  <2> QED BY <2>1, Zenon
      DEF ApplicationReads, ReadStarted, ReadRecovered, ReadEnded, ReadRefused,
          ReadStop, ReadRequest, ReadInput, Injected, Refused, ReadAnswer
<1>1. PICK kinds : Reads(r, kinds)
  BY DEF ApplicationReads, ReadStarted, ReadRecovered, ReadEnded, ReadRefused,
         ReadStop, ReadRequest, ReadInput, ReadAnswer
<1>2. \A p \in Roles : Less(down'[p], down[p])
  BY <1>1, ReadsMute
<1>3. \A p \in Roles : app'[p].control \in {app[p].control, Inactive}
  <2>0. Read(r).n \in Tokens
    <3>1. Read(r) \in Letters
      BY <1>1, ReadsLemma
    <3> QED BY <3>1 DEF Letters, Tokens
  <2> DEFINE a == Saved(app[r], Read(r).n)
  <2>1. a \in AppRecords /\ a.control = app[r].control
    <3>1. a.control = app[r].control
      BY <1>0, <2>0 DEF Saved, AppRecords
    <3> QED BY <1>0, <2>0, <3>1, SavedLemma
  <2> HIDE DEF a
  <2>2. CASE ReadStarted(r)
    <3>1. app' = [app EXCEPT ![r] = [a EXCEPT !.session = TRUE, !.control = Inactive]]
      BY <1>0, <2>2 DEF ReadStarted, a
    <3> QED BY <1>0, <2>1, <3>1 DEF AppRecords
  <2>3. CASE ReadRecovered(r)
    <3>1. app' \in {app, [app EXCEPT ![r] = [a EXCEPT !.session = TRUE]]}
      BY <1>0, <2>3 DEF ReadRecovered, a
    <3> QED BY <1>0, <2>1, <3>1 DEF AppRecords
  <2>4. CASE ReadEnded(r)
    <3>1. CASE app' = app
      BY <3>1
    <3>2. CASE app' = [app EXCEPT ![r] = [Forgotten(app[r]) EXCEPT
                                            !.session = (r = "student"), !.control = Inactive]]
      BY <1>0, <3>2 DEF Forgotten, AppRecords
    <3> QED BY <1>0, <2>4, <3>1, <3>2 DEF ReadEnded
  <2>5. CASE ReadRefused(r)
    BY <1>0, <2>5 DEF ReadRefused, Forgotten, AppRecords
  <2>6. CASE ReadStop(r)
    BY <1>0, <2>6 DEF ReadStop, AppRecords
  <2>7. CASE ReadInput
    BY <2>7 DEF ReadInput
  <2> QED BY <2>2, <2>3, <2>4, <2>5, <2>6, <2>7 DEF ApplicationReads
<1> QED BY <1>0, <1>l, <1>2, <1>3, LessItself DEF Mute

\* The numbers tell questions, answers and controls apart.
LEMMA NumbersLemma ==
    ASSUME NEW q \in Nat, NEW n \in Nat
    PROVE  /\ Asks(q) = Asks(n) => q = n
           /\ Approves(q) = Approves(n) => q = n
           /\ \A a, b : Control(q, a) = Control(n, b) => q = n /\ a = b
           /\ \A a : Control(q, a).request = q /\ Control(q, a).status = a
           /\ Control(q, "active") # Control(n, "pending")
           /\ Control(q, "pending") # Inactive /\ Control(q, "active") # Inactive
           /\ Control(q, "active") # NoAuthorization
<1>1. /\ Asks(q).n = q /\ Asks(n).n = n /\ Approves(q).n = q /\ Approves(n).n = n
  BY DEF Asks, Approves, Message
<1>2. \A k, a : Control(k, a).request = k /\ Control(k, a).status = a
  BY DEF Control
<1>3. Inactive.status = "inactive" /\ NoAuthorization.status = "none"
  BY DEF Inactive, NoAuthorization
<1>4. \A a, b : Control(q, a) = Control(n, b) => q = n /\ a = b
  BY <1>2
<1>5. Control(q, "active") # Control(n, "pending")
  BY <1>4
<1>6. /\ Control(q, "pending") # Inactive /\ Control(q, "active") # Inactive
      /\ Control(q, "active") # NoAuthorization
  BY <1>2, <1>3
<1> QED BY <1>1, <1>2, <1>4, <1>5, <1>6

\* APPROVED and DENIED pass the server.
LEMMA OnAnswerDecides ==
    ASSUME Typed, NEW s \in Sockets, OnAnswer(s), NEW q \in Nat
    PROVE  Fewer(q)
<1>1. PICK m : m = Heard("student", s)
  OBVIOUS
<1>0. /\ Hears("student", s, {"approved", "denied"}) /\ UNCHANGED <<app, left>>
      /\ down \in [Roles -> Seq(Letters)] /\ "student" \in Roles /\ "teacher" \in Roles
      /\ server = [ended |-> server.ended, due |-> server.due, auth |-> server.auth,
                   seat |-> server.seat, token |-> server.token,
                   present |-> server.present]
  BY DEF OnAnswer, Typed, Roles
<1>2. /\ m \in Letters /\ m.kind \in {"approved", "denied"}
      /\ m \in Range(up["student"][s])
  <2>1. /\ Heard("student", s) \in Letters
        /\ Heard("student", s).kind \in {"approved", "denied"}
    BY <1>0, HearsLemma
  <2>2. Range(up["student"][s]) = {Heard("student", s)} \cup Range(up'["student"][s])
    BY <1>0, HearsLemma
  <2> QED BY <1>1, <2>1, <2>2
<1>3. m # Asks(q)
  BY <1>2 DEF Asks, Message
<1>4. m.kind = "approved" => m.n \in Nat /\ m = Approves(m.n)
  BY <1>2, AsksLemma
<1>5. \A p \in Roles, z \in Sockets : /\ Range(up'[p][z]) \subseteq Range(up[p][z])
                                     /\ \A P : Once(up[p][z], P) => Once(up'[p][z], P)
  BY <1>0, HearsLess
<1>6. /\ \/ server'.auth \in {server.auth, NoAuthorization}
         \/ m.kind = "approved" /\ server'.auth = Control(m.n, "active")
      /\ down' = down \/ \E z : down' = Emitted(down, "teacher", z, m)
  BY <1>0, <1>1 DEF OnAnswer
<1>7. Delivered(down, down', {m})
  BY <1>0, <1>2, <1>6, EmittedLemma, NothingDelivered
<1>8. /\ \A p \in Roles : Range(down'[p]) \subseteq Range(down[p]) \cup {m}
      /\ Once(down["student"], {Asks(q)}) => Once(down'["student"], {Asks(q)})
  <2>1. {Asks(q)} \cap {m} = {}
    BY <1>3
  <2> QED BY <1>0, <1>7, <2>1 DEF Delivered
<1>9. ASSUME m = Approves(q) PROVE Granted(q)
  BY <1>2, <1>9 DEF Granted
<1>10. Granted(q)' => Granted(q)
  <2>1. CASE \E z \in Sockets : Approves(q) \in Range(up'["student"][z])
    BY <1>0, <1>5, <2>1 DEF Granted
  <2>2. CASE server'.auth = Control(q, "active")
    <3>1. CASE server'.auth \in {server.auth, NoAuthorization}
      BY <2>2, <3>1, NumbersLemma DEF Granted
    <3>2. CASE m.kind = "approved" /\ server'.auth = Control(m.n, "active")
      <4>1. q = m.n
        BY <1>4, <2>2, <3>2, NumbersLemma
      <4> QED BY <1>4, <1>9, <3>2, <4>1
    <3> QED BY <1>6, <3>1, <3>2
  <2>3. CASE Approves(q) \in Range(down'["teacher"])
    BY <1>0, <1>8, <1>9, <2>3 DEF Granted
  <2>4. CASE app'["teacher"].control = Control(q, "active")
    BY <1>0, <2>4 DEF Granted
  <2> QED BY <2>1, <2>2, <2>3, <2>4 DEF Granted
<1>11. Arriving(q)' => Arriving(q)
  BY <1>0, <1>3, <1>8 DEF Arriving
<1> QED BY <1>0, <1>5, <1>8, <1>10, <1>11 DEF Fewer, Considered

\* REQUEST passes the server: the question is no more on its way to it.
LEMMA OnRequestDecides ==
    ASSUME Typed, NEW s \in Sockets, OnRequest(s), NEW q \in Nat, Decided(q)
    PROVE  Decided(q)'
<1>1. PICK m : m = Heard("teacher", s)
  OBVIOUS
<1>0. /\ Hears("teacher", s, {"request"}) /\ UNCHANGED <<app, left>>
      /\ down \in [Roles -> Seq(Letters)] /\ "student" \in Roles /\ "teacher" \in Roles
      /\ down["student"] \in Seq(Letters)
      /\ server = [ended |-> server.ended, due |-> server.due, auth |-> server.auth,
                   seat |-> server.seat, token |-> server.token,
                   present |-> server.present]
  BY DEF OnRequest, Typed, Roles
<1>2. /\ m \in Letters /\ m.kind = "request"
      /\ m \in Range(up["teacher"][s])
      /\ \A P : Once(up["teacher"][s], P) /\ m \in P => Range(up'["teacher"][s]) \cap P = {}
      /\ \A p \in Roles, z \in Sockets : p # "teacher" \/ z # s => up'[p][z] = up[p][z]
  <2>1. Heard("teacher", s) \in Letters /\ Heard("teacher", s).kind = "request"
    BY <1>0, HearsLemma
  <2>2. Range(up["teacher"][s]) = {Heard("teacher", s)} \cup Range(up'["teacher"][s])
    BY <1>0, HearsLemma
  <2>3. \A P : Once(up["teacher"][s], P) /\ Heard("teacher", s) \in P
                  => Range(up'["teacher"][s]) \cap P = {}
    BY <1>0, HearsLemma
  <2>4. \A p \in Roles, z \in Sockets : p # "teacher" \/ z # s => up'[p][z] = up[p][z]
    BY <1>0, HearsLemma
  <2> QED BY <1>1, <2>1, <2>2, <2>3, <2>4
<1>3. m.n \in Nat /\ m = Asks(m.n)
  BY <1>2, AsksLemma
<1>4. \A p \in Roles, z \in Sockets : /\ Range(up'[p][z]) \subseteq Range(up[p][z])
                                     /\ \A P : Once(up[p][z], P) => Once(up'[p][z], P)
  BY <1>0, HearsLess
<1>5. /\ \/ server'.auth = server.auth
         \/ server'.auth = Control(m.n, "pending")
      /\ down' = down \/ \E z : down' = Emitted(down, "student", z, m)
  <2>1. CASE UNCHANGED <<server, down>>
    BY <2>1
  <2>2. CASE /\ server' = [server EXCEPT !.auth = Control(m.n, "pending")]
             /\ down' = Emitted(down, "student", server.seat["student"],
                                Message("request", m.n))
    <3>1. server'.auth = Control(m.n, "pending")
      BY <1>0, <2>2
    <3>2. m = Message("request", m.n)
      BY <1>3 DEF Asks
    <3> QED BY <2>2, <3>1, <3>2
  <2> QED BY <1>1, <2>1, <2>2 DEF OnRequest
<1>6. /\ down'["teacher"] = down["teacher"]
      /\ down'["student"] \in {down["student"], Append(down["student"], m)}
  <2>1. ASSUME NEW z, down' = Emitted(down, "student", z, m)
        PROVE  /\ down'["teacher"] = down["teacher"]
               /\ down'["student"] \in {down["student"], Append(down["student"], m)}
    BY <1>0, <1>2, <2>1 DEF Emitted
  <2> QED BY <1>5, <2>1
<1>7. Range(Append(down["student"], m)) = Range(down["student"]) \cup {m}
  BY <1>0, <1>2, AppendLemma
<1>8. Granted(q)' => Granted(q)
  <2>1. server'.auth = Control(q, "active") => server.auth = Control(q, "active")
    BY <1>3, <1>5, NumbersLemma
  <2> QED BY <1>0, <1>4, <1>6, <2>1 DEF Granted
<1>9. CASE q # m.n
  <2>1. m # Asks(q)
    BY <1>3, <1>9, NumbersLemma
  <2>2. /\ Arriving(q)' => Arriving(q)
        /\ Once(down["student"], {Asks(q)}) => Once(down'["student"], {Asks(q)})
    <3>1. Once(down["student"], {Asks(q)}) => Once(Append(down["student"], m), {Asks(q)})
      <4>1. m \notin {Asks(q)}
        BY <2>1
      <4> QED BY <1>0, <1>2, <4>1, AppendLemma
    <3>2. CASE down'["student"] = down["student"]
      BY <3>2 DEF Arriving
    <3>3. CASE down'["student"] = Append(down["student"], m)
      BY <1>7, <2>1, <3>1, <3>3 DEF Arriving
    <3> QED BY <1>6, <3>2, <3>3
  <2>3. Fewer(q)
    BY <1>0, <1>4, <1>8, <2>2 DEF Fewer, Considered
  <2> QED BY <2>3, FewerLemma
<1>10. CASE q = m.n
  <2>1. m = Asks(q) /\ Travelling(q)
    BY <1>2, <1>3, <1>10 DEF Travelling
  <2>2. /\ ~Arriving(q) /\ ~Considered(q) /\ ~Granted(q) /\ q > left["request"]
        /\ \A z \in Sockets : Once(up["teacher"][z], {Asks(q)})
        /\ \A y, z \in Sockets :
              Asks(q) \in Range(up["teacher"][y]) \cap Range(up["teacher"][z]) => y = z
        /\ Once(down["student"], {Asks(q)})
    BY <2>1 DEF Decided
  <2>3. ~Travelling(q)'
    <3>1. Asks(q) \notin Range(up'["teacher"][s])
      <4>1. Once(up["teacher"][s], {Asks(q)}) /\ m \in {Asks(q)}
        BY <2>1, <2>2
      <4>2. Range(up'["teacher"][s]) \cap {Asks(q)} = {}
        BY <1>2, <4>1
      <4> QED BY <4>2
    <3>2. ASSUME NEW z \in Sockets, z # s PROVE Asks(q) \notin Range(up'["teacher"][z])
      BY <1>0, <1>2, <2>1, <2>2, <3>2
    <3> QED BY <3>1, <3>2 DEF Travelling
  <2>4. Once(down'["student"], {Asks(q)})
    <3>1. Range(down["student"]) \cap {Asks(q)} = {}
      BY <2>2 DEF Arriving
    <3>2. Once(Append(down["student"], m), {Asks(q)})
      BY <1>0, <1>2, <2>2, <3>1, AppendLemma
    <3> QED BY <1>6, <2>2, <3>2
  <2>5. ~Considered(q)' /\ ~Granted(q)' /\ q > left'["request"]
    BY <1>0, <1>8, <2>2 DEF Considered
  <2>6. \A z \in Sockets : Once(up'["teacher"][z], {Asks(q)})
    BY <1>0, <1>4, <2>2
  <2>7. \A z \in Sockets : Asks(q) \notin Range(up'["teacher"][z])
    BY <2>3 DEF Travelling
  <2> QED BY <2>3, <2>4, <2>5, <2>6, <2>7 DEF Decided
<1> QED BY <1>9, <1>10

\* The professor asks with a number that was not used before.
LEMMA AskingDecides ==
    ASSUME Typed, RequestRemoteControl, NEW q \in Nat, Decided(q)
    PROVE  Decided(q)'
<1> DEFINE s == app["teacher"].socket
<1>1. PICK n : n = left["request"]
  OBVIOUS
<1>2. /\ n \in Nat /\ left'["request"] = n - 1
      /\ "teacher" \in Roles /\ "student" \in Roles /\ s \in Sockets
      /\ app \in [Roles -> AppRecords] /\ app["teacher"] \in AppRecords
  BY <1>1, UsedLemma DEF RequestRemoteControl, Bounded, Typed, Roles, AppRecords
<1>3. /\ app' = [app EXCEPT !["teacher"].control = Control(n, "pending")]
      /\ up' = Sent(up, "teacher", Asks(n))
      /\ server' = server /\ down' = down
  BY <1>1 DEF RequestRemoteControl, Asks
<1>4. Asks(n) \in Letters
  BY <1>2, CarriersLemma DEF Carriers
<1>5. app'["teacher"].control = Control(n, "pending") /\ app'["student"] = app["student"]
  BY <1>2, <1>3 DEF AppRecords
<1>6. /\ Range(up'["teacher"][s]) = Range(up["teacher"][s]) \cup {Asks(n)}
      /\ \A p \in Roles, z \in Sockets : p # "teacher" \/ z # s => up'[p][z] = up[p][z]
  <2>1. Range(Sent(up, "teacher", Asks(n))["teacher"][s])
           = Range(up["teacher"][s]) \cup {Asks(n)}
    BY <1>2, <1>4, SentLemma
  <2>2. \A p \in Roles, z \in Sockets :
           p # "teacher" \/ z # s => Sent(up, "teacher", Asks(n))[p][z] = up[p][z]
    BY <1>2, <1>4, SentLemma
  <2> QED BY <1>3, <2>1, <2>2
<1>7. \A P : Once(up["teacher"][s], P) /\ (Asks(n) \notin P \/ Range(up["teacher"][s]) \cap P = {})
                => Once(up'["teacher"][s], P)
  BY <1>2, <1>3, <1>4, SentLemma
<1>8. /\ Arriving(q)' <=> Arriving(q)
      /\ Considered(q)' <=> Considered(q)
      /\ Granted(q)' => Granted(q)
      /\ q > left["request"] => q > left'["request"]
  <2>1. q > n => q > n - 1
    BY <1>2
  <2>2. app'["teacher"].control # Control(q, "active")
    BY <1>2, <1>5, NumbersLemma
  <2>3. \A z \in Sockets : up'["student"][z] = up["student"][z]
    BY <1>2, <1>6
  <2>4. Granted(q)' => Granted(q)
    BY <1>3, <2>2, <2>3 DEF Granted
  <2>5. /\ Arriving(q)' <=> Arriving(q)
        /\ Considered(q)' <=> Considered(q)
    BY <1>3, <1>5 DEF Arriving, Considered
  <2> QED BY <1>1, <1>2, <2>1, <2>4, <2>5
<1> HIDE DEF s
<1>9. CASE q # n
  <2>1. Asks(q) # Asks(n)
    BY <1>2, <1>9, NumbersLemma
  <2>2. ASSUME NEW z \in Sockets
        PROVE  /\ Asks(q) \in Range(up'["teacher"][z]) => Asks(q) \in Range(up["teacher"][z])
               /\ Once(up["teacher"][z], {Asks(q)}) => Once(up'["teacher"][z], {Asks(q)})
    <3>1. CASE z = s
      <4>1. Asks(n) \notin {Asks(q)}
        BY <2>1
      <4> QED BY <1>6, <1>7, <2>1, <3>1, <4>1
    <3>2. CASE z # s
      BY <1>2, <1>6, <3>2
    <3> QED BY <3>1, <3>2
  <2>3. Once(down["student"], {Asks(q)}) => Once(down'["student"], {Asks(q)})
    BY <1>3
  <2>4. Fewer(q)
    BY <1>8, <2>2, <2>3 DEF Fewer
  <2> QED BY <2>4, FewerLemma
<1>10. CASE q = n
  <2>1. ~(q > left["request"]) /\ q > left'["request"]
    BY <1>1, <1>2, <1>10
  <2>2. ~Travelling(q) /\ ~Arriving(q) /\ ~Considered(q) /\ ~Granted(q)
    BY <2>1 DEF Decided
  <2>3. /\ \A z \in Sockets : Once(up["teacher"][z], {Asks(q)})
        /\ Once(down["student"], {Asks(q)})
        /\ \A z \in Sockets : Asks(q) \notin Range(up["teacher"][z])
    BY <2>2 DEF Decided, Travelling
  <2>4. \A z \in Sockets \ {s} : up'["teacher"][z] = up["teacher"][z]
    BY <1>2, <1>6
  <2>5. Once(up'["teacher"][s], {Asks(q)})
    <3>1. Range(up["teacher"][s]) \cap {Asks(q)} = {}
      BY <1>2, <2>3
    <3> QED BY <1>2, <1>7, <2>3, <3>1
  <2>6. \A z \in Sockets : Once(up'["teacher"][z], {Asks(q)})
    BY <2>3, <2>4, <2>5
  <2>7. \A y, z \in Sockets :
           Asks(q) \in Range(up'["teacher"][y]) \cap Range(up'["teacher"][z]) => y = z
    BY <2>3, <2>4
  <2>8. ~Arriving(q)' /\ ~Considered(q)' /\ ~Granted(q)' /\ Once(down'["student"], {Asks(q)})
    BY <1>3, <1>8, <2>2, <2>3
  <2> QED BY <2>1, <2>6, <2>7, <2>8 DEF Decided
<1> QED BY <1>9, <1>10

\* The student answers: the question is not considered any more.
LEMMA AnswerDecides ==
    ASSUME Typed, Student, NEW q \in Nat, Decided(q)
    PROVE  Decided(q)'
<1>1. PICK kind \in {"approved", "denied"} : Answer(kind)
  BY DEF Student
<1>2. PICK n : n = app["student"].control.request
  OBVIOUS
<1>3. /\ app \in [Roles -> AppRecords] /\ app["student"] \in AppRecords
      /\ "student" \in Roles /\ "teacher" \in Roles
      /\ server' = server /\ down' = down /\ left' = left
  BY <1>1 DEF Typed, Roles, Answer
<1>4. n \in Nat /\ app["student"].control = Control(n, "pending")
  BY <1>1, <1>2, <1>3 DEF Answer, AppRecords, Controlled, Inactive, Control
<1>5. PICK m : m = Message(kind, n)
  OBVIOUS
<1>6. /\ m \in Letters
      /\ \A k \in Nat : m = Approves(k) => k = n
  BY <1>4, <1>5 DEF Message, Letters, Approves
<1>7. /\ up' = Sent(up, "student", m)
      /\ app' = [app EXCEPT !["student"].control =
                    IF kind = "approved" THEN Control(n, "active") ELSE Inactive]
  BY <1>1, <1>2, <1>3, <1>5 DEF Answer
<1>8. /\ app'["student"].control \in {Control(n, "active"), Inactive}
      /\ app'["teacher"] = app["teacher"]
  BY <1>3, <1>7 DEF AppRecords
<1>9. /\ \A z \in Sockets : up'["teacher"][z] = up["teacher"][z]
      /\ \A z \in Sockets : Range(up'["student"][z]) \subseteq Range(up["student"][z]) \cup {m}
  <2>1. /\ \A p \in Roles, z \in Sockets :
              p # "student" \/ z # app["student"].socket
                 => Sent(up, "student", m)[p][z] = up[p][z]
        /\ Range(Sent(up, "student", m)["student"][app["student"].socket])
              = Range(up["student"][app["student"].socket]) \cup {m}
    BY <1>3, <1>6, SentLemma
  <2>2. \A z \in Sockets : up'["teacher"][z] = up["teacher"][z]
    BY <1>3, <1>7, <2>1
  <2>3. ASSUME NEW z \in Sockets
        PROVE  Range(up'["student"][z]) \subseteq Range(up["student"][z]) \cup {m}
    <3>1. CASE z = app["student"].socket
      BY <1>7, <2>1, <3>1
    <3>2. CASE z # app["student"].socket
      BY <1>3, <1>7, <2>1, <3>2
    <3> QED BY <3>1, <3>2
  <2> QED BY <2>2, <2>3
<1>10. ~Considered(q)'
  BY <1>4, <1>8, NumbersLemma DEF Considered
<1>11. ASSUME q # n PROVE Granted(q)' => Granted(q)
  BY <1>3, <1>6, <1>8, <1>9, <1>11 DEF Granted
<1>12. /\ Travelling(q)' <=> Travelling(q)
       /\ Arriving(q)' <=> Arriving(q)
  BY <1>3, <1>9 DEF Travelling, Arriving
<1>13. /\ \A z \in Sockets : Once(up'["teacher"][z], {Asks(q)})
       /\ \A y, z \in Sockets :
             Asks(q) \in Range(up'["teacher"][y]) \cap Range(up'["teacher"][z]) => y = z
       /\ Once(down'["student"], {Asks(q)})
  BY <1>3, <1>9 DEF Decided
<1>14. CASE q # n
  BY <1>3, <1>10, <1>11, <1>12, <1>13, <1>14 DEF Decided
<1>15. CASE q = n
  <2>1. Considered(q)
    BY <1>4, <1>15 DEF Considered
  <2> QED BY <1>3, <1>10, <1>12, <1>13, <2>1 DEF Decided
<1> QED BY <1>14, <1>15

\* The student's application reads a question: it has arrived.
LEMMA ReadRequestDecides ==
    ASSUME Typed, ReadRequest, NEW q \in Nat, Decided(q)
    PROVE  Decided(q)'
<1>1. PICK m : m = Read("student")
  OBVIOUS
<1>0. /\ Reads("student", {"request"}) /\ server' = server /\ up' = up /\ left' = left
      /\ app \in [Roles -> AppRecords] /\ app["student"] \in AppRecords
      /\ "student" \in Roles /\ "teacher" \in Roles
  BY DEF ReadRequest, Typed, Roles
<1>2. /\ m \in Letters /\ m.kind = "request"
      /\ Range(down["student"]) = {m} \cup Range(down'["student"])
      /\ \A P : Once(down["student"], P) =>
            /\ Once(down'["student"], P)
            /\ m \in P => Range(down'["student"]) \cap P = {}
      /\ down'["teacher"] = down["teacher"]
  <2>1. Read("student") \in Letters /\ Read("student").kind = "request"
    BY <1>0, ReadsLemma
  <2>2. Range(down["student"]) = {Read("student")} \cup Range(down'["student"])
    BY <1>0, ReadsLemma
  <2>3. \A P : Once(down["student"], P) =>
              /\ Once(down'["student"], P)
              /\ Read("student") \in P => Range(down'["student"]) \cap P = {}
    BY <1>0, ReadsLemma
  <2>4. down'["teacher"] = down["teacher"]
    BY <1>0, ReadsLemma
  <2> QED BY <1>1, <2>1, <2>2, <2>3, <2>4
<1>3. m.n \in Nat /\ m = Asks(m.n)
  BY <1>2, AsksLemma
<1>4. /\ app'["student"].control \in {app["student"].control, Control(m.n, "pending")}
      /\ app'["teacher"] = app["teacher"]
  BY <1>0, <1>1 DEF ReadRequest, AppRecords
<1>5. /\ Granted(q)' <=> Granted(q)
      /\ Travelling(q)' <=> Travelling(q)
  BY <1>0, <1>2, <1>4 DEF Granted, Travelling
<1>6. CASE q # m.n
  <2>1. Considered(q)' => Considered(q)
    BY <1>3, <1>4, <1>6, NumbersLemma DEF Considered
  <2>2. /\ Arriving(q)' => Arriving(q)
        /\ Once(down["student"], {Asks(q)}) => Once(down'["student"], {Asks(q)})
    BY <1>2 DEF Arriving
  <2>3. Fewer(q)
    BY <1>0, <1>5, <2>1, <2>2 DEF Fewer
  <2> QED BY <2>3, FewerLemma
<1>7. CASE q = m.n
  <2>1. m = Asks(q) /\ Arriving(q)
    BY <1>2, <1>3, <1>7 DEF Arriving
  <2>2. /\ ~Travelling(q) /\ ~Granted(q) /\ q > left["request"]
        /\ \A z \in Sockets : Once(up["teacher"][z], {Asks(q)})
        /\ Once(down["student"], {Asks(q)})
        /\ \A y, z \in Sockets :
              Asks(q) \in Range(up["teacher"][y]) \cap Range(up["teacher"][z]) => y = z
    BY <2>1 DEF Decided
  <2>3. ~Arriving(q)' /\ Once(down'["student"], {Asks(q)})
    <3>1. m \in {Asks(q)}
      BY <2>1
    <3>2. Range(down'["student"]) \cap {Asks(q)} = {} /\ Once(down'["student"], {Asks(q)})
      BY <1>2, <2>2, <3>1
    <3> QED BY <3>2 DEF Arriving
  <2> QED BY <1>0, <1>5, <2>2, <2>3 DEF Decided
<1> QED BY <1>6, <1>7

\* The professor's application reads an answer.
LEMMA ReadAnswerDecides ==
    ASSUME Typed, ReadAnswer, NEW q \in Nat
    PROVE  Fewer(q)
<1>1. PICK m : m = Read("teacher")
  OBVIOUS
<1>0. /\ Reads("teacher", {"approved", "denied"}) /\ server' = server /\ up' = up /\ left' = left
      /\ app \in [Roles -> AppRecords] /\ app["teacher"] \in AppRecords
      /\ "student" \in Roles /\ "teacher" \in Roles
  BY DEF ReadAnswer, Typed, Roles
<1>2. /\ m \in Letters /\ m.kind \in {"approved", "denied"}
      /\ Range(down["teacher"]) = {m} \cup Range(down'["teacher"])
      /\ down'["student"] = down["student"]
  BY <1>0, <1>1, ReadsLemma
<1>3. m.kind = "approved" => m.n \in Nat /\ m = Approves(m.n)
  BY <1>2, AsksLemma
<1>4. /\ \/ app'["teacher"].control \in {app["teacher"].control, Inactive}
         \/ m.kind = "approved" /\ app'["teacher"].control = Control(m.n, "active")
      /\ app'["student"] = app["student"]
  BY <1>0, <1>1 DEF ReadAnswer, AppRecords
<1>5. Granted(q)' => Granted(q)
  <2>1. app'["teacher"].control = Control(q, "active") => Granted(q)
    <3>1. CASE app'["teacher"].control \in {app["teacher"].control, Inactive}
      BY <3>1, NumbersLemma DEF Granted
    <3>2. CASE m.kind = "approved" /\ app'["teacher"].control = Control(m.n, "active")
      BY <1>2, <1>3, <3>2, NumbersLemma DEF Granted
    <3> QED BY <1>4, <3>1, <3>2
  <2> QED BY <1>0, <1>2, <2>1 DEF Granted
<1> QED BY <1>0, <1>2, <1>4, <1>5 DEF Fewer, Arriving, Considered

-----------------------------------------------------------------------------
(* The student decides *)

DecisionInv == Typed /\ \A q \in Nat : Decided(q)

\* Nothing is asked at the start.
LEMMA InitDecided == Init => DecisionInv
<1> SUFFICES ASSUME Init, NEW q \in Nat PROVE Decided(q)
  BY InitTyped DEF DecisionInv
<1>1. PICK m : m = Message("started", 1)
  OBVIOUS
<1>2. m # Asks(q) /\ m # Approves(q)
  BY <1>1 DEF Message, Asks, Approves
<1>3. \A r \in Roles : down[r] = <<m>> /\ \A s \in Sockets : up[r][s] = <<>>
  BY <1>1 DEF Init
<1>4. Range(<<m>>) = {m} /\ \A P : Once(<<m>>, P) /\ Once(<<>>, P) /\ Range(<<>>) = {}
  BY EmptyLemma DEF Range, Once
<1>5. "student" \in Roles /\ "teacher" \in Roles
  BY DEF Roles
<1>6. /\ \A r \in Roles : app[r].control = Inactive
      /\ server.auth = NoAuthorization
  BY DEF Init
<1>7. ~Travelling(q) /\ ~Arriving(q)
  BY <1>2, <1>3, <1>4, <1>5 DEF Travelling, Arriving
<1>8. ~Considered(q) /\ ~Granted(q)
  BY <1>2, <1>3, <1>4, <1>5, <1>6, NumbersLemma DEF Considered, Granted
<1>9. /\ \A s \in Sockets : Once(up["teacher"][s], {Asks(q)}) /\ Range(up["teacher"][s]) = {}
      /\ Once(down["student"], {Asks(q)})
  BY <1>3, <1>4, <1>5
<1> QED BY <1>7, <1>8, <1>9 DEF Decided

\* Every step keeps a question where it is, or moves it on.
LEMMA StepDecided ==
    ASSUME DecisionInv, [Next]_vars
    PROVE  DecisionInv'
<1>0. Typed /\ \A q \in Nat : Decided(q)
  BY DEF DecisionInv
<1>m. Mute => \A q \in Nat : Decided(q)'
  BY <1>0, MuteLemma, FewerLemma
<1>f. (\A q \in Nat : Fewer(q)) => \A q \in Nat : Decided(q)'
  BY <1>0, FewerLemma
<1>1. CASE ServerMoves
  <2>1. Typed'
    BY <1>0, <1>1, ServerTyped
  <2>2. CASE \E s \in Sockets : OnRequest(s)
    BY <1>0, <2>1, <2>2, OnRequestDecides DEF DecisionInv
  <2>3. CASE \E s \in Sockets : OnAnswer(s)
    BY <1>0, <1>f, <2>1, <2>3, OnAnswerDecides DEF DecisionInv
  <2>4. CASE \A s \in Sockets : ~OnRequest(s) /\ ~OnAnswer(s)
    BY <1>0, <1>1, <1>m, <2>1, <2>4, ServerMute DEF DecisionInv
  <2> QED BY <2>2, <2>3, <2>4
<1>2. ASSUME NEW r \in Roles, AppMoves(r) PROVE DecisionInv'
  BY <1>0, <1>m, <1>2, AppTyped, ConnectionMute DEF DecisionInv
<1>3. ASSUME NEW r \in Roles, ApplicationReads(r) PROVE DecisionInv'
  <2>1. Typed'
    BY <1>0, <1>3, ReaderTyped
  <2>2. CASE ReadRequest
    BY <1>0, <2>1, <2>2, ReadRequestDecides DEF DecisionInv
  <2>3. CASE ReadAnswer
    BY <1>0, <1>f, <2>1, <2>3, ReadAnswerDecides DEF DecisionInv
  <2>4. CASE ~ReadRequest /\ ~ReadAnswer
    BY <1>0, <1>3, <1>m, <2>1, <2>4, ReaderMute DEF DecisionInv
  <2> QED BY <2>2, <2>3, <2>4
<1>4. CASE Professor
  <2>1. Typed'
    BY <1>0, <1>4, ProfessorTyped
  <2>2. CASE RequestRemoteControl
    BY <1>0, <2>1, <2>2, AskingDecides DEF DecisionInv
  <2>3. CASE FocusLost \/ \E kind \in {"keydown", "keyup"}, k \in Keys : Stroke(kind, k)
    BY <1>0, <1>m, <2>1, <2>3, KeysMute DEF DecisionInv
  <2> QED BY <1>4, <2>2, <2>3 DEF Professor
<1>5. CASE Student
  BY <1>0, <1>5, StudentTyped, AnswerDecides DEF DecisionInv
<1>6. CASE UNCHANGED vars
  <2>1. UNCHANGED <<server, app, pressed, held, stuck, up, down, left>>
    BY <1>6 DEF vars
  <2>2. Mute
    BY <2>1, LessItself DEF Mute
  <2> QED BY <1>0, <1>6, <1>m, <2>2, StillTyped DEF DecisionInv
<1> QED BY <1>1, <1>2, <1>3, <1>4, <1>5, <1>6 DEF Next, ServerMoves, AppMoves

\* What is known of the questions is enough.
LEMMA DecidedLemma == DecisionInv => StudentDecides
<1> SUFFICES ASSUME DecisionInv, NEW granted \in {server.auth, app["teacher"].control},
                    granted.status = "active"
             PROVE  /\ app["student"].control # Control(granted.request, "pending")
                    /\ ~InFlight(down["student"], {"request"}, granted.request)
  BY DEF StudentDecides
<1>1. /\ granted \in Controlled \cup {NoAuthorization, Inactive}
      /\ down["student"] \in Seq(Letters)
  BY DEF DecisionInv, Typed, AppRecords, Roles
<1>2. PICK q \in Nat : granted = Control(q, "active") /\ granted.request = q
  BY <1>1 DEF Controlled, NoAuthorization, Inactive, Control
<1>3. Granted(q)
  BY <1>2 DEF Granted
<1>4. ~Arriving(q) /\ ~Considered(q)
  BY <1>3 DEF DecisionInv, Decided
<1>5. ASSUME NEW i \in DOMAIN down["student"], down["student"][i].kind = "request",
             down["student"][i].n = q
      PROVE  FALSE
  <2>1. down["student"][i] \in Letters
    BY <1>1
  <2>2. down["student"][i] = Asks(q)
    BY <1>5, <2>1, AsksLemma
  <2> QED BY <1>4, <2>2 DEF Arriving, Range
<1> QED BY <1>2, <1>4, <1>5 DEF InFlight, Considered

\* Whatever is lost and whoever comes back, neither the gateway nor the
\* professor's application takes for granted a control that the student is
\* being asked for, or is about to be.
THEOREM StudentsDecide == Spec => []StudentDecides
<1>1. Init => DecisionInv
  BY InitDecided
<1>2. DecisionInv /\ [Next]_vars => DecisionInv'
  BY StepDecided
<1>3. DecisionInv => StudentDecides
  BY DecidedLemma
<1> QED BY <1>1, <1>2, <1>3, PTL DEF Spec

-----------------------------------------------------------------------------
(* While no connection has been lost *)

\* Messages about a control carry its number; a smaller one is more recent.
Steps == {"request", "approved", "denied", "stop", "keydown", "keyup"}

\* M has such a message about the control q.
Has(M, kind, q) == \E m \in M : m.kind = kind /\ m.n = q

\* A message that ends the control q for the application that reads it.
Ends(M, q) == \E m \in M : m.kind = "ended" \/ (m.kind = "stop" /\ m.n = q)

\* A control is not older than what comes after it, and not more recent than
\* what came before it, nor than the last message about it.
Above(n, M) ==
    n \in Nat => \A m \in M : m.kind \in Steps =>
        n >= m.n /\ (m.kind = "request" => n > m.n)
Below(n, M, last) ==
    n \in Nat => \A m \in M : m.kind \in Steps =>
        n =< m.n /\ (m.kind \in last => n < m.n)
AtMost(a, b) == a \in Nat /\ b \in Nat => a =< b

\* c is the control q, in the status given.
Is(c, q, status) == c.request = q /\ c.status = status

\* n may come after m: nothing follows the end of the attendance nor precedes its
\* start, and requests are numbered downwards.
Follows(m, n) ==
    /\ m.kind # "ended" /\ n.kind # "started"
    /\ m.kind \in Steps /\ n.kind \in Steps =>
          m.n >= n.n /\ (n.kind = "request" => m.n > n.n)

Sorted(queue) == \A i, j \in DOMAIN queue : i < j => Follows(queue[i], queue[j])

\* The controls of the professor, the gateway and the student, what is on its
\* way between them, and the number of the next request: t, a, s; from the
\* professor, from the student, to the professor, to the student; l.
Ordered(t, a, s, tu, su, td, sd, l) ==
    /\ Below(t.request, tu, {"stop"})
    /\ Below(t.request, su \cup td \cup sd, {})
    /\ AtMost(t.request, a.request) /\ AtMost(t.request, s.request)
    /\ Above(a.request, tu)
    /\ Below(a.request, sd, {"stop"})
    /\ Below(a.request, td, {"stop", "denied"})
    /\ Below(a.request, su, {})
    /\ AtMost(a.request, s.request)
    /\ Above(s.request, tu \cup sd)
    /\ Below(s.request, su, {"stop", "denied"})
    /\ \A m \in su : m.kind \in Steps => Above(m.n, tu \cup sd)
    /\ \A m \in td \cup sd : m.kind \in Steps => Above(m.n, tu)
    /\ Below(l, tu \cup su \cup td \cup sd, Steps)
    /\ \A c \in {t, a, s} : c.request \in Nat => l < c.request

\* Who differs from the gateway is about to hear from it, or the gateway from him.
Agreed(t, a, s, tu, su, td, sd, over) ==
    /\ a.request \in Nat /\ t.request # a.request => Has(tu, "stop", a.request)
    /\ a.status = "pending" =>
          /\ t.request = a.request => t.status = "pending"
          /\ ~Has(td, "approved", a.request)
          /\ \/ Has(sd, "request", a.request)
             \/ s.request = a.request
             \/ Has(su, "stop", a.request)
             \/ Has(su, "denied", a.request)
          /\ Is(s, a.request, "active") => Has(su, "approved", a.request)
    /\ a.status = "active" =>
          /\ Is(t, a.request, "pending") => Has(td, "approved", a.request)
          /\ Is(s, a.request, "active") \/ Has(su, "stop", a.request)
    /\ t.status = "pending" /\ a.request # t.request =>
          \/ Has(tu, "request", t.request)
          \/ Has(td, "denied", t.request) /\ ~Has(td, "approved", t.request)
          \/ Ends(td, t.request)
    /\ t.status = "active" /\ a.request # t.request => Ends(td, t.request)
    /\ s.request \in Nat /\ a.request # s.request => Ends(sd, s.request)
    /\ \A m \in sd : m.kind = "request" /\ m.n # a.request => Ends(sd, m.n)
    /\ \A m \in tu : m.kind = "request" /\ ~over =>
          Is(t, m.n, "pending") \/ Has(tu, "stop", m.n)
    /\ \A m \in su : m.kind = "denied" =>
          ~Has(su, "approved", m.n) /\ ~Is(a, m.n, "active")
    /\ \A m \in su : m.kind = "approved" /\ s.request = m.n => s.status = "active"

\* M has the key going up under the control q.
Lifts(M, q, k) == \E m \in M : m.kind = "keyup" /\ m.n = q /\ m.key = k

\* Every time the key goes down in a queue it comes up again later.
Settled(queue, q, k) ==
    \A i \in DOMAIN queue :
        queue[i].kind = "keydown" /\ queue[i].n = q /\ queue[i].key = k =>
            \E j \in DOMAIN queue : j > i /\ queue[j].kind = "keyup"
                                          /\ queue[j].n = q /\ queue[j].key = k

-----------------------------------------------------------------------------
(* What is known while no connection has been lost *)

\* Where the control is kept by the two applications.
ProfessorControl == app["teacher"].control
StudentControl   == app["student"].control

\* What the two applications say, and what they are told.
Orders    == up["teacher"][1]
Replies   == up["student"][1]
Notices   == down["teacher"]
Forwarded == down["student"]

\* ... while both are connected for good.
Said == [teacher |-> {"request", "stop", "keydown", "keyup", "end"},
         student |-> {"approved", "denied", "stop", "end"}]
Told == [teacher |-> {"started", "approved", "denied", "stop", "ended"},
         student |-> {"started", "request", "keydown", "keyup", "stop", "ended"}]

\* A message of the kind is in the queue.
Tells(queue, kind) == \E m \in Range(queue) : m.kind = kind

\* An application and its connection.  It has yet to read that the attendance
\* has started, or it is in it, or it has read everything.
Online(r) ==
    /\ app[r].startup = "settled"
    /\ \A s \in Sockets \ {1} : up[r][s] = <<>>
    /\ \A m \in Range(up[r][1]) : m.kind \in Said[r] /\ (m.kind = "end" => m.n = None)
    /\ \A m \in Range(down[r]) : m.kind \in Told[r]
    /\ Tells(down[r], "ended") => server.ended
    /\ Tells(down[r], "started") => ~app[r].session
    /\ server.ended => \/ Tells(down[r], "ended")
                       \/ /\ app[r].control = Inactive /\ down[r] = <<>>
                          /\ r = "teacher" => ~app[r].session
    /\ ~app[r].session => /\ app[r].control = Inactive
                          /\ \/ Tells(down[r], "started")
                             \/ server.ended /\ down[r] = <<>>

\* Both keep their seats for as long as the attendance lasts.
Connected ==
    /\ server.due = "no"
    /\ ~server.ended => \A r \in Roles : server.seat[r] = 1
    /\ server.ended => server.auth = NoAuthorization
    /\ \A r \in Roles : Online(r)

\* What the gateway reads and what it sends comes in order.
InOrder == Sorted(Orders) /\ Sorted(Notices) /\ Sorted(Forwarded)

\* The controls and the messages about them, as they are.
Balanced ==
    /\ Ordered(ProfessorControl, server.auth, StudentControl,
               Range(Orders), Range(Replies), Range(Notices), Range(Forwarded),
               left["request"])
    /\ Agreed(ProfessorControl, server.auth, StudentControl,
              Range(Orders), Range(Replies), Range(Notices), Range(Forwarded),
              server.ended)

\* No key of the control q is on its way to the student.
Unheard(q) ==
    \A m \in Range(Orders) \cup Range(Forwarded) :
        m.kind \in {"keydown", "keyup"} => m.n # q

\* A key that is down, or about to be, is about to be let go of, unless Windows has
\* refused to.
Released(q, k) ==
    /\ k \in held \ stuck /\ Is(StudentControl, q, "active") =>
          Lifts(Range(Orders) \cup Range(Forwarded), q, k)
    /\ Settled(Forwarded, q, k) \/ Lifts(Range(Orders), q, k)
    /\ Settled(Orders, q, k)

\* A key the professor has let go of, or has not been granted, does not stay down
\* on the student's computer.
Keyboard ==
    /\ held # {} => StudentControl.status = "active"
    /\ ProfessorControl.status = "pending" =>
          /\ Unheard(ProfessorControl.request)
          /\ StudentControl.request = ProfessorControl.request => held = {}
    /\ /\ ProfessorControl.status = "active"
       /\ server.auth.request = ProfessorControl.request
       => \A k \in Keys \ pressed : Released(ProfessorControl.request, k)

\* All of it, and when it holds.
Calm == Connected /\ InOrder /\ Balanced /\ Keyboard

CalmInv == /\ Typed
           /\ \A r \in Roles : app[r].socket >= 1
           /\ Undisturbed => Calm

-----------------------------------------------------------------------------
(* Queues in order *)

\* A message at the end of an ordered queue.
LEMMA SortedAppend ==
    ASSUME NEW S, NEW queue \in Seq(S), NEW m \in S,
           Sorted(queue), \A x \in Range(queue) : Follows(x, m)
    PROVE  Sorted(Append(queue, m))
<1> DEFINE new == Append(queue, m)
           n == Len(queue)
<1>1. /\ n \in Nat /\ DOMAIN queue = 1..n /\ DOMAIN new = 1..(n + 1)
      /\ \A i \in 1..n : new[i] = queue[i]
      /\ new[n + 1] = m
  BY AppendProperties, LenProperties
<1> HIDE DEF new, n
<1> SUFFICES ASSUME NEW i \in 1..(n + 1), NEW j \in 1..(n + 1), i < j
             PROVE  Follows(new[i], new[j])
  BY <1>1 DEF Sorted, new
<1>2. CASE j = n + 1
  <2>1. i \in 1..n /\ new[i] \in Range(queue)
    BY <1>1, <1>2 DEF Range
  <2> QED BY <1>1, <1>2, <2>1
<1>3. CASE j # n + 1
  <2>1. i \in 1..n /\ j \in 1..n
    BY <1>1, <1>3
  <2> QED BY <1>1, <2>1 DEF Sorted
<1> QED BY <1>2, <1>3

\* What is left of an ordered queue follows its head.
LEMMA SortedTail ==
    ASSUME NEW S, NEW queue \in Seq(S), queue # <<>>, Sorted(queue)
    PROVE  /\ Sorted(Tail(queue))
           /\ \A x \in Range(Tail(queue)) : Follows(Head(queue), x)
<1> DEFINE new == Tail(queue)
           n == Len(queue)
<1>1. /\ n \in Nat \ {0} /\ DOMAIN queue = 1..n /\ DOMAIN new = 1..(n - 1)
      /\ \A i \in 1..(n - 1) : new[i] = queue[i + 1]
      /\ Head(queue) = queue[1]
  BY HeadTailProperties, LenProperties, EmptySeq
<1> HIDE DEF new, n
<1>2. ASSUME NEW i \in 1..(n - 1), NEW j \in 1..(n - 1), i < j
      PROVE  Follows(new[i], new[j])
  <2>1. i + 1 \in 1..n /\ j + 1 \in 1..n /\ i + 1 < j + 1
    BY <1>1, <1>2
  <2>2. Follows(queue[i + 1], queue[j + 1])
    BY <1>1, <2>1 DEF Sorted
  <2> QED BY <1>1, <2>2
<1>3. ASSUME NEW i \in 1..(n - 1) PROVE Follows(Head(queue), new[i])
  <2>1. i + 1 \in 1..n /\ 1 \in 1..n /\ 1 < i + 1
    BY <1>1
  <2>2. Follows(queue[1], queue[i + 1])
    BY <1>1, <2>1 DEF Sorted
  <2> QED BY <1>1, <2>2
<1>4. Sorted(new)
  BY <1>1, <1>2 DEF Sorted
<1>5. \A x \in Range(new) : Follows(Head(queue), x)
  BY <1>1, <1>3 DEF Range
<1> QED BY <1>4, <1>5 DEF new

\* Two ordered queues in a row.
LEMMA SortedConcat ==
    ASSUME NEW S, NEW queue \in Seq(S), NEW more \in Seq(S), Sorted(queue),
           \A x \in Range(queue) \cup Range(more), y \in Range(more) : Follows(x, y)
    PROVE  Sorted(queue \o more)
<1> DEFINE new == queue \o more
           l == Len(queue)
           n == Len(more)
<1>1. /\ l \in Nat /\ n \in Nat /\ DOMAIN queue = 1..l /\ DOMAIN more = 1..n
      /\ DOMAIN new = 1..(l + n)
      /\ \A i \in 1..(l + n) : new[i] = IF i <= l THEN queue[i] ELSE more[i - l]
  BY ConcatProperties, LenProperties
<1> HIDE DEF new, l, n
<1>2. \A i \in 1..(l + n) : \/ i \in 1..l /\ new[i] = queue[i]
                            \/ i - l \in 1..n /\ new[i] = more[i - l]
  BY <1>1
<1> SUFFICES ASSUME NEW i \in 1..(l + n), NEW j \in 1..(l + n), i < j
             PROVE  Follows(new[i], new[j])
  BY <1>1 DEF Sorted, new
<1>3. new[i] \in Range(queue) \cup Range(more)
  BY <1>1, <1>2 DEF Range
<1>4. CASE j <= l
  <2>1. i \in 1..l /\ j \in 1..l /\ new[i] = queue[i] /\ new[j] = queue[j]
    BY <1>1, <1>4
  <2> QED BY <1>1, <2>1 DEF Sorted
<1>5. CASE ~(j <= l)
  <2>1. new[j] \in Range(more)
    <3>1. ~(j \in 1..l)
      BY <1>1, <1>5
    <3> QED BY <1>1, <1>2, <3>1 DEF Range
  <2> QED BY <1>3, <2>1
<1> QED BY <1>4, <1>5

\* A key that is down at the end of a queue was not let go of before.
LEMMA SettledAppend ==
    ASSUME NEW S, NEW queue \in Seq(S), NEW m \in S, NEW q, NEW k,
           \/ Settled(queue, q, k) /\ ~(m.kind = "keydown" /\ m.n = q /\ m.key = k)
           \/ m.kind = "keyup" /\ m.n = q /\ m.key = k
    PROVE  Settled(Append(queue, m), q, k)
<1> DEFINE new == Append(queue, m)
           n == Len(queue)
<1>1. /\ n \in Nat /\ DOMAIN queue = 1..n /\ DOMAIN new = 1..(n + 1)
      /\ \A i \in 1..n : new[i] = queue[i]
      /\ new[n + 1] = m
  BY AppendProperties, LenProperties
<1> HIDE DEF new, n
<1> SUFFICES ASSUME NEW i \in 1..(n + 1),
                    new[i].kind = "keydown" /\ new[i].n = q /\ new[i].key = k
             PROVE  \E j \in 1..(n + 1) : j > i /\ new[j].kind = "keyup"
                                                /\ new[j].n = q /\ new[j].key = k
  BY <1>1 DEF Settled, new
<1>2. CASE m.kind = "keyup" /\ m.n = q /\ m.key = k
  <2>1. i # n + 1
    BY <1>1, <1>2
  <2>2. n + 1 \in 1..(n + 1) /\ n + 1 > i
    BY <1>1, <2>1
  <2> QED BY <1>1, <1>2, <2>2
<1>3. CASE Settled(queue, q, k) /\ ~(m.kind = "keydown" /\ m.n = q /\ m.key = k)
  <2>1. i # n + 1
    BY <1>1, <1>3
  <2>2. i \in 1..n /\ queue[i] = new[i]
    BY <1>1, <2>1
  <2>3. PICK j \in 1..n : j > i /\ queue[j].kind = "keyup"
                                /\ queue[j].n = q /\ queue[j].key = k
    BY <1>1, <1>3, <2>2 DEF Settled
  <2>4. j \in 1..(n + 1) /\ new[j] = queue[j]
    BY <1>1
  <2> QED BY <2>3, <2>4
<1> QED BY <1>2, <1>3

\* The head of a queue is taken away.
LEMMA SettledTail ==
    ASSUME NEW S, NEW queue \in Seq(S), queue # <<>>, NEW q, NEW k, Settled(queue, q, k)
    PROVE  /\ Settled(Tail(queue), q, k)
           /\ Head(queue).kind = "keydown" /\ Head(queue).n = q /\ Head(queue).key = k
                 => Lifts(Range(Tail(queue)), q, k)
<1> DEFINE new == Tail(queue)
           n == Len(queue)
<1>1. /\ n \in Nat \ {0} /\ DOMAIN queue = 1..n /\ DOMAIN new = 1..(n - 1)
      /\ \A i \in 1..(n - 1) : new[i] = queue[i + 1]
      /\ Head(queue) = queue[1]
  BY HeadTailProperties, LenProperties, EmptySeq
<1> HIDE DEF new, n
<1>2. ASSUME NEW i \in 1..n, queue[i].kind = "keydown" /\ queue[i].n = q /\ queue[i].key = k
      PROVE  \E j \in 1..(n - 1) : j + 1 > i /\ new[j].kind = "keyup"
                                             /\ new[j].n = q /\ new[j].key = k
  <2>1. PICK j \in 1..n : j > i /\ queue[j].kind = "keyup"
                                /\ queue[j].n = q /\ queue[j].key = k
    BY <1>1, <1>2 DEF Settled
  <2>2. j - 1 \in 1..(n - 1) /\ (j - 1) + 1 = j
    BY <1>1, <2>1
  <2>3. new[j - 1] = queue[j]
    BY <1>1, <2>2
  <2> QED BY <2>1, <2>2, <2>3
<1>3. Settled(new, q, k)
  <2> SUFFICES ASSUME NEW i \in 1..(n - 1),
                      new[i].kind = "keydown" /\ new[i].n = q /\ new[i].key = k
               PROVE  \E j \in 1..(n - 1) : j > i /\ new[j].kind = "keyup"
                                                  /\ new[j].n = q /\ new[j].key = k
    BY <1>1 DEF Settled
  <2>1. i + 1 \in 1..n /\ queue[i + 1] = new[i]
    BY <1>1
  <2>2. PICK j \in 1..(n - 1) : j + 1 > i + 1 /\ new[j].kind = "keyup"
                                              /\ new[j].n = q /\ new[j].key = k
    BY <1>2, <2>1
  <2>3. j > i
    BY <1>1, <2>2
  <2> QED BY <2>2, <2>3
<1>4. Head(queue).kind = "keydown" /\ Head(queue).n = q /\ Head(queue).key = k
         => Lifts(Range(new), q, k)
  <2> SUFFICES ASSUME queue[1].kind = "keydown" /\ queue[1].n = q /\ queue[1].key = k
               PROVE  Lifts(Range(new), q, k)
    BY <1>1
  <2>1. 1 \in 1..n
    BY <1>1
  <2>2. PICK j \in 1..(n - 1) : new[j].kind = "keyup" /\ new[j].n = q /\ new[j].key = k
    BY <1>2, <2>1
  <2>3. new[j] \in Range(new)
    BY <1>1 DEF Range
  <2> QED BY <2>2, <2>3 DEF Lifts
<1> QED BY <1>3, <1>4 DEF new

\* Only keys going up, in a row with a queue.
LEMMA SettledConcat ==
    ASSUME NEW S, NEW queue \in Seq(S), NEW more \in Seq(S), NEW q, NEW k,
           \A m \in Range(more) : m.kind = "keyup",
           Settled(queue, q, k) \/ Lifts(Range(more), q, k)
    PROVE  Settled(queue \o more, q, k)
<1> DEFINE new == queue \o more
           l == Len(queue)
           n == Len(more)
<1>1. /\ l \in Nat /\ n \in Nat /\ DOMAIN queue = 1..l /\ DOMAIN more = 1..n
      /\ DOMAIN new = 1..(l + n)
      /\ \A i \in 1..(l + n) : new[i] = IF i <= l THEN queue[i] ELSE more[i - l]
  BY ConcatProperties, LenProperties
<1> HIDE DEF new, l, n
<1>2. \A i \in 1..(l + n) : \/ i \in 1..l /\ new[i] = queue[i]
                            \/ i - l \in 1..n /\ new[i] = more[i - l]
  BY <1>1
<1> SUFFICES ASSUME NEW i \in 1..(l + n),
                    new[i].kind = "keydown" /\ new[i].n = q /\ new[i].key = k
             PROVE  \E j \in 1..(l + n) : j > i /\ new[j].kind = "keyup"
                                                /\ new[j].n = q /\ new[j].key = k
  BY <1>1 DEF Settled, new
<1>3. i \in 1..l /\ new[i] = queue[i]
  <2>1. CASE i - l \in 1..n /\ new[i] = more[i - l]
    <3>1. new[i] \in Range(more)
      BY <1>1, <2>1 DEF Range
    <3> QED BY <3>1
  <2> QED BY <1>2, <2>1
<1>4. CASE Settled(queue, q, k)
  <2>1. PICK j \in 1..l : j > i /\ queue[j].kind = "keyup"
                                /\ queue[j].n = q /\ queue[j].key = k
    BY <1>1, <1>3, <1>4 DEF Settled
  <2>2. j \in 1..(l + n) /\ new[j] = queue[j]
    BY <1>1
  <2> QED BY <2>1, <2>2
<1>5. CASE Lifts(Range(more), q, k)
  <2>1. PICK j \in 1..n : more[j].kind = "keyup" /\ more[j].n = q /\ more[j].key = k
    BY <1>1, <1>5 DEF Lifts, Range
  <2>2. l + j \in 1..(l + n) /\ (l + j) - l = j /\ l + j > i /\ ~(l + j <= l)
    BY <1>1, <1>3
  <2>3. new[l + j] = more[j]
    BY <1>1, <2>2
  <2> QED BY <2>1, <2>2, <2>3
<1> QED BY <1>4, <1>5

\* Everything in a set is in its list.
LEMMA ListedLemma ==
    ASSUME NEW S, IsFiniteSet(S), NEW x \in S
    PROVE  x \in Range(SetToSeq(S))
<1> DEFINE n == Cardinality(S)
           f == SetToSeq(S)
<1>1. n \in Nat /\ ExistsBijection(1..n, S)
  BY FS_CardinalityType
<1>2. f \in [1..n -> S] /\ IsInjective(f)
  <2>1. \E g \in [1..n -> S] : IsInjective(g)
    <3>1. PICK g \in Bijection(1..n, S) : TRUE
      BY <1>1 DEF ExistsBijection
    <3>2. g \in [1..n -> S] /\ \A a, b \in 1..n : g[a] = g[b] => a = b
      BY <3>1 DEF Bijection, Injection, IsInjective
    <3> QED BY <3>2 DEF IsInjective
  <2> QED BY <2>1 DEF SetToSeq
<1> HIDE DEF n, f
<1>3. IsFiniteSet(1..n) /\ Cardinality(1..n) = n
  BY <1>1, FS_Interval
<1> SUFFICES ASSUME x \notin Range(f) PROVE FALSE
  BY DEF f
<1>4. f \in [1..n -> S \ {x}]
  BY <1>2 DEF Range
<1>5. f \in Injection(1..n, S \ {x})
  BY <1>2, <1>4 DEF Injection
<1>6. IsFiniteSet(S \ {x}) /\ Cardinality(S \ {x}) = n - 1
  BY FS_RemoveElement DEF n
<1>7. Cardinality(1..n) =< Cardinality(S \ {x})
  BY <1>5, <1>6, FS_Injection DEF ExistsInjection
<1> QED BY <1>1, <1>3, <1>6, <1>7

-----------------------------------------------------------------------------
(* Who agrees, step by step *)

Legal(c) ==
    \/ c.status \in {"pending", "active"} /\ c.request \in Nat
    \/ c.status \notin {"pending", "active"} /\ c.request \notin Nat

Lettered(M) == \A m \in M : m.kind \in Steps => m.n \in Nat

\* Fewer messages and fewer controls keep the order.
LEMMA OrderedLess ==
    ASSUME NEW t, NEW a, NEW s, NEW tu, NEW su, NEW td, NEW sd, NEW l,
           Ordered(t, a, s, tu, su, td, sd, l),
           NEW t2, NEW a2, NEW s2,
           t2.request \in Nat => t2.request = t.request,
           a2.request \in Nat => a2.request = a.request,
           s2.request \in Nat => s2.request = s.request,
           NEW tu2 \in SUBSET tu, NEW su2 \in SUBSET su,
           NEW td2 \in SUBSET td, NEW sd2 \in SUBSET sd
    PROVE  Ordered(t2, a2, s2, tu2, su2, td2, sd2, l)
BY DEF Ordered, Above, Below, AtMost

\* The professor asks.
LEMMA AskAgrees ==
    ASSUME NEW t, NEW a, NEW s, NEW tu, NEW su, NEW td, NEW sd, NEW l \in Nat, NEW over,
           Ordered(t, a, s, tu, su, td, sd, l), Agreed(t, a, s, tu, su, td, sd, over),
           Legal(t), Legal(a), Legal(s),
           Lettered(tu), Lettered(su), Lettered(td), Lettered(sd),
           t.request \notin Nat, l > 0,
           NEW t2, t2.request = l, t2.status = "pending",
           NEW m, m.kind = "request", m.n = l
    PROVE  /\ Ordered(t2, a, s, tu \cup {m}, su, td, sd, l - 1)
           /\ Agreed(t2, a, s, tu \cup {m}, su, td, sd, over)
<1>1. Ordered(t2, a, s, tu \cup {m}, su, td, sd, l - 1)
  BY DEF Ordered, Above, Below, AtMost, Lettered, Steps
<1>2. Agreed(t2, a, s, tu \cup {m}, su, td, sd, over)
  BY DEF Ordered, Above, Below, AtMost, Lettered, Steps, Agreed, Has, Ends, Is, Legal
<1> QED BY <1>1, <1>2

\* The professor stops.
LEMMA StopAgrees ==
    ASSUME NEW t, NEW a, NEW s, NEW tu, NEW su, NEW td, NEW sd, NEW l \in Nat, NEW over,
           Ordered(t, a, s, tu, su, td, sd, l), Agreed(t, a, s, tu, su, td, sd, over),
           Legal(t), Legal(a), Legal(s),
           Lettered(tu), Lettered(su), Lettered(td), Lettered(sd),
           t.request \in Nat,
           NEW t2, t2.request \notin Nat, Legal(t2),
           NEW m, m.kind = "stop", m.n = t.request
    PROVE  /\ Ordered(t2, a, s, tu \cup {m}, su, td, sd, l)
           /\ Agreed(t2, a, s, tu \cup {m}, su, td, sd, over)
<1>1. Ordered(t2, a, s, tu \cup {m}, su, td, sd, l)
  BY DEF Ordered, Above, Below, AtMost, Lettered, Steps
<1>2. Agreed(t2, a, s, tu \cup {m}, su, td, sd, over)
  BY DEF Ordered, Above, Below, AtMost, Lettered, Steps, Agreed, Has, Ends, Is, Legal
<1> QED BY <1>1, <1>2

\* The professor's keys.
LEMMA TypeAgrees ==
    ASSUME NEW t, NEW a, NEW s, NEW tu, NEW su, NEW td, NEW sd, NEW l \in Nat, NEW over,
           Ordered(t, a, s, tu, su, td, sd, l), Agreed(t, a, s, tu, su, td, sd, over),
           Legal(t), Legal(a), Legal(s),
           Lettered(tu), Lettered(su), Lettered(td), Lettered(sd),
           t.request \in Nat,
           NEW M, \A m \in M : m.kind \in {"keydown", "keyup"} /\ m.n = t.request
    PROVE  /\ Ordered(t, a, s, tu \cup M, su, td, sd, l)
           /\ Agreed(t, a, s, tu \cup M, su, td, sd, over)
<1>1. Ordered(t, a, s, tu \cup M, su, td, sd, l)
  BY DEF Ordered, Above, Below, AtMost, Lettered, Steps, Follows, Is, Legal
<1>2. Agreed(t, a, s, tu \cup M, su, td, sd, over)
  BY DEF Ordered, Above, Below, AtMost, Lettered, Steps, Agreed, Has, Ends, Is, Legal, Follows
<1> QED BY <1>1, <1>2

\* The student answers.
LEMMA AnswerAgrees ==
    ASSUME NEW t, NEW a, NEW s, NEW tu, NEW su, NEW td, NEW sd, NEW l \in Nat, NEW over,
           Ordered(t, a, s, tu, su, td, sd, l), Agreed(t, a, s, tu, su, td, sd, over),
           Legal(t), Legal(a), Legal(s),
           Lettered(tu), Lettered(su), Lettered(td), Lettered(sd),
           s.status = "pending",
           NEW m, m.kind \in {"approved", "denied"}, m.n = s.request,
           NEW s2, Legal(s2), m.kind = "approved" => Is(s2, s.request, "active"),
           m.kind = "denied" => s2.request \notin Nat
    PROVE  /\ Ordered(t, a, s2, tu, su \cup {m}, td, sd, l)
           /\ Agreed(t, a, s2, tu, su \cup {m}, td, sd, over)
<1>1. Ordered(t, a, s2, tu, su \cup {m}, td, sd, l)
  BY DEF Ordered, Above, Below, AtMost, Lettered, Steps, Follows, Is, Legal
<1>2. Agreed(t, a, s2, tu, su \cup {m}, td, sd, over)
  BY DEF Ordered, Above, Below, AtMost, Lettered, Steps, Agreed, Has, Ends, Is, Legal, Follows
<1> QED BY <1>1, <1>2

\* The student stops.
LEMMA StudentStopAgrees ==
    ASSUME NEW t, NEW a, NEW s, NEW tu, NEW su, NEW td, NEW sd, NEW l \in Nat, NEW over,
           Ordered(t, a, s, tu, su, td, sd, l), Agreed(t, a, s, tu, su, td, sd, over),
           Legal(t), Legal(a), Legal(s),
           Lettered(tu), Lettered(su), Lettered(td), Lettered(sd),
           s.request \in Nat,
           NEW m, m.kind = "stop", m.n = s.request,
           NEW s2, Legal(s2), s2.request \notin Nat
    PROVE  /\ Ordered(t, a, s2, tu, su \cup {m}, td, sd, l)
           /\ Agreed(t, a, s2, tu, su \cup {m}, td, sd, over)
<1>1. Ordered(t, a, s2, tu, su \cup {m}, td, sd, l)
  BY DEF Ordered, Above, Below, AtMost, Lettered, Steps, Follows, Is, Legal
<1>2. Agreed(t, a, s2, tu, su \cup {m}, td, sd, over)
  BY DEF Ordered, Above, Below, AtMost, Lettered, Steps, Agreed, Has, Ends, Is, Legal, Follows
<1> QED BY <1>1, <1>2

\* The gateway takes a request ...
LEMMA RequestAgrees ==
    ASSUME NEW t, NEW a, NEW s, NEW tu, NEW su, NEW td, NEW sd, NEW l \in Nat, NEW over,
           Ordered(t, a, s, tu, su, td, sd, l), Agreed(t, a, s, tu, su, td, sd, over),
           Legal(t), Legal(a), Legal(s),
           Lettered(tu), Lettered(su), Lettered(td), Lettered(sd),
           NEW h \in tu, NEW rest, tu = {h} \cup rest, \A x \in rest : Follows(h, x),
           h.kind = "request", ~over, a.request \notin Nat,
           NEW a2, Is(a2, h.n, "pending")
    PROVE  /\ Ordered(t, a2, s, rest, su, td, sd \cup {h}, l)
           /\ Agreed(t, a2, s, rest, su, td, sd \cup {h}, over)
<1>1. Ordered(t, a2, s, rest, su, td, sd \cup {h}, l)
  BY DEF Ordered, Above, Below, AtMost, Lettered, Steps, Follows, Is, Legal
<1>2. Agreed(t, a2, s, rest, su, td, sd \cup {h}, over)
  BY DEF Ordered, Above, Below, AtMost, Lettered, Steps, Agreed, Has, Ends, Is, Legal, Follows
<1> QED BY <1>1, <1>2

\* ... or drops it.
LEMMA RequestDroppedAgrees ==
    ASSUME NEW t, NEW a, NEW s, NEW tu, NEW su, NEW td, NEW sd, NEW l \in Nat, NEW over,
           Ordered(t, a, s, tu, su, td, sd, l), Agreed(t, a, s, tu, su, td, sd, over),
           Legal(t), Legal(a), Legal(s),
           Lettered(tu), Lettered(su), Lettered(td), Lettered(sd),
           NEW h \in tu, NEW rest, tu = {h} \cup rest, \A x \in rest : Follows(h, x),
           h.kind = "request", over \/ a.request \in Nat,
           over => t.request \notin Nat \/ \E m \in td : m.kind = "ended"
    PROVE  /\ Ordered(t, a, s, rest, su, td, sd, l)
           /\ Agreed(t, a, s, rest, su, td, sd, over)
<1>1. Ordered(t, a, s, rest, su, td, sd, l)
  BY DEF Ordered, Above, Below, AtMost, Lettered, Steps, Follows, Is, Legal
<1>2. Agreed(t, a, s, rest, su, td, sd, over)
  BY DEF Ordered, Above, Below, AtMost, Lettered, Steps, Agreed, Has, Ends, Is, Legal, Follows
<1> QED BY <1>1, <1>2

\* The gateway takes an answer ...
LEMMA OnAnswerAgrees ==
    ASSUME NEW t, NEW a, NEW s, NEW tu, NEW su, NEW td, NEW sd, NEW l \in Nat, NEW over,
           Ordered(t, a, s, tu, su, td, sd, l), Agreed(t, a, s, tu, su, td, sd, over),
           Legal(t), Legal(a), Legal(s),
           Lettered(tu), Lettered(su), Lettered(td), Lettered(sd),
           NEW h \in su, NEW rest, su = {h} \cup rest,
           h.kind \in {"approved", "denied"}, Is(a, h.n, "pending"),
           NEW a2, Legal(a2), h.kind = "approved" => Is(a2, h.n, "active"),
           h.kind = "denied" => a2.request \notin Nat
    PROVE  /\ Ordered(t, a2, s, tu, rest, td \cup {h}, sd, l)
           /\ Agreed(t, a2, s, tu, rest, td \cup {h}, sd, over)
<1>1. Ordered(t, a2, s, tu, rest, td \cup {h}, sd, l)
  BY DEF Ordered, Above, Below, AtMost, Lettered, Steps, Follows, Is, Legal
<1>2. Agreed(t, a2, s, tu, rest, td \cup {h}, sd, over)
  BY DEF Ordered, Above, Below, AtMost, Lettered, Steps, Agreed, Has, Ends, Is, Legal, Follows
<1> QED BY <1>1, <1>2

\* ... or drops it.
LEMMA AnswerDroppedAgrees ==
    ASSUME NEW t, NEW a, NEW s, NEW tu, NEW su, NEW td, NEW sd, NEW l \in Nat, NEW over,
           Ordered(t, a, s, tu, su, td, sd, l), Agreed(t, a, s, tu, su, td, sd, over),
           Legal(t), Legal(a), Legal(s),
           Lettered(tu), Lettered(su), Lettered(td), Lettered(sd),
           NEW h \in su, NEW rest, su = {h} \cup rest,
           h.kind \in {"approved", "denied"}, ~Is(a, h.n, "pending")
    PROVE  /\ Ordered(t, a, s, tu, rest, td, sd, l)
           /\ Agreed(t, a, s, tu, rest, td, sd, over)
<1>1. Ordered(t, a, s, tu, rest, td, sd, l)
  BY DEF Ordered, Above, Below, AtMost, Lettered, Steps, Follows, Is, Legal
<1>2. Agreed(t, a, s, tu, rest, td, sd, over)
  BY DEF Ordered, Above, Below, AtMost, Lettered, Steps, Agreed, Has, Ends, Is, Legal, Follows
<1> QED BY <1>1, <1>2

\* The gateway passes a key on ...
LEMMA OnInputAgrees ==
    ASSUME NEW t, NEW a, NEW s, NEW tu, NEW su, NEW td, NEW sd, NEW l \in Nat, NEW over,
           Ordered(t, a, s, tu, su, td, sd, l), Agreed(t, a, s, tu, su, td, sd, over),
           Legal(t), Legal(a), Legal(s),
           Lettered(tu), Lettered(su), Lettered(td), Lettered(sd),
           NEW h \in tu, NEW rest, tu = {h} \cup rest, \A x \in rest : Follows(h, x),
           h.kind \in {"keydown", "keyup"}, a.request = h.n
    PROVE  /\ Ordered(t, a, s, rest, su, td, sd \cup {h}, l)
           /\ Agreed(t, a, s, rest, su, td, sd \cup {h}, over)
<1>1. Ordered(t, a, s, rest, su, td, sd \cup {h}, l)
  BY DEF Ordered, Above, Below, AtMost, Lettered, Steps, Follows, Is, Legal
<1>2. Agreed(t, a, s, rest, su, td, sd \cup {h}, over)
  BY DEF Ordered, Above, Below, AtMost, Lettered, Steps, Agreed, Has, Ends, Is, Legal, Follows
<1> QED BY <1>1, <1>2

\* ... or drops it.
LEMMA InputDroppedAgrees ==
    ASSUME NEW t, NEW a, NEW s, NEW tu, NEW su, NEW td, NEW sd, NEW l \in Nat, NEW over,
           Ordered(t, a, s, tu, su, td, sd, l), Agreed(t, a, s, tu, su, td, sd, over),
           Legal(t), Legal(a), Legal(s),
           Lettered(tu), Lettered(su), Lettered(td), Lettered(sd),
           NEW h \in tu, NEW rest, tu = {h} \cup rest, \A x \in rest : Follows(h, x),
           h.kind \in {"keydown", "keyup", "end"}
    PROVE  /\ Ordered(t, a, s, rest, su, td, sd, l)
           /\ Agreed(t, a, s, rest, su, td, sd, over)
<1>1. Ordered(t, a, s, rest, su, td, sd, l)
  BY DEF Ordered, Above, Below, AtMost, Lettered, Steps, Follows, Is, Legal
<1>2. Agreed(t, a, s, rest, su, td, sd, over)
  BY DEF Ordered, Above, Below, AtMost, Lettered, Steps, Agreed, Has, Ends, Is, Legal, Follows
<1> QED BY <1>1, <1>2

\* The professor's stop reaches the gateway ...
LEMMA OnStopAgrees ==
    ASSUME NEW t, NEW a, NEW s, NEW tu, NEW su, NEW td, NEW sd, NEW l \in Nat, NEW over,
           Ordered(t, a, s, tu, su, td, sd, l), Agreed(t, a, s, tu, su, td, sd, over),
           Legal(t), Legal(a), Legal(s),
           Lettered(tu), Lettered(su), Lettered(td), Lettered(sd),
           NEW h \in tu, NEW rest, tu = {h} \cup rest, \A x \in rest : Follows(h, x),
           h.kind = "stop", a.request = h.n,
           NEW a2, Legal(a2), a2.request \notin Nat
    PROVE  /\ Ordered(t, a2, s, rest, su, td, sd \cup {h}, l)
           /\ Agreed(t, a2, s, rest, su, td, sd \cup {h}, over)
<1>1. Ordered(t, a2, s, rest, su, td, sd \cup {h}, l)
  BY DEF Ordered, Above, Below, AtMost, Lettered, Steps, Follows, Is, Legal
<1>2. Agreed(t, a2, s, rest, su, td, sd \cup {h}, over)
  BY DEF Ordered, Above, Below, AtMost, Lettered, Steps, Agreed, Has, Ends, Is, Legal, Follows
<1> QED BY <1>1, <1>2

\* ... and comes too late.
LEMMA StopDroppedAgrees ==
    ASSUME NEW t, NEW a, NEW s, NEW tu, NEW su, NEW td, NEW sd, NEW l \in Nat, NEW over,
           Ordered(t, a, s, tu, su, td, sd, l), Agreed(t, a, s, tu, su, td, sd, over),
           Legal(t), Legal(a), Legal(s),
           Lettered(tu), Lettered(su), Lettered(td), Lettered(sd),
           NEW h \in tu, NEW rest, tu = {h} \cup rest, \A x \in rest : Follows(h, x),
           h.kind = "stop", a.request # h.n
    PROVE  /\ Ordered(t, a, s, rest, su, td, sd, l)
           /\ Agreed(t, a, s, rest, su, td, sd, over)
<1>1. Ordered(t, a, s, rest, su, td, sd, l)
  BY DEF Ordered, Above, Below, AtMost, Lettered, Steps, Follows, Is, Legal
<1>2. Agreed(t, a, s, rest, su, td, sd, over)
  BY DEF Ordered, Above, Below, AtMost, Lettered, Steps, Agreed, Has, Ends, Is, Legal, Follows
<1> QED BY <1>1, <1>2

\* The student's stop reaches the gateway ...
LEMMA OnStudentStopAgrees ==
    ASSUME NEW t, NEW a, NEW s, NEW tu, NEW su, NEW td, NEW sd, NEW l \in Nat, NEW over,
           Ordered(t, a, s, tu, su, td, sd, l), Agreed(t, a, s, tu, su, td, sd, over),
           Legal(t), Legal(a), Legal(s),
           Lettered(tu), Lettered(su), Lettered(td), Lettered(sd),
           NEW h \in su, NEW rest, su = {h} \cup rest,
           h.kind = "stop", a.request = h.n,
           NEW a2, Legal(a2), a2.request \notin Nat
    PROVE  /\ Ordered(t, a2, s, tu, rest, td \cup {h}, sd, l)
           /\ Agreed(t, a2, s, tu, rest, td \cup {h}, sd, over)
<1>1. Ordered(t, a2, s, tu, rest, td \cup {h}, sd, l)
  BY DEF Ordered, Above, Below, AtMost, Lettered, Steps, Follows, Is, Legal
<1>2. Agreed(t, a2, s, tu, rest, td \cup {h}, sd, over)
  BY DEF Ordered, Above, Below, AtMost, Lettered, Steps, Agreed, Has, Ends, Is, Legal, Follows
<1> QED BY <1>1, <1>2

\* ... and comes too late.
LEMMA StudentStopDroppedAgrees ==
    ASSUME NEW t, NEW a, NEW s, NEW tu, NEW su, NEW td, NEW sd, NEW l \in Nat, NEW over,
           Ordered(t, a, s, tu, su, td, sd, l), Agreed(t, a, s, tu, su, td, sd, over),
           Legal(t), Legal(a), Legal(s),
           Lettered(tu), Lettered(su), Lettered(td), Lettered(sd),
           NEW h \in su, NEW rest, su = {h} \cup rest,
           h.kind = "end" \/ (h.kind = "stop" /\ a.request # h.n)
    PROVE  /\ Ordered(t, a, s, tu, rest, td, sd, l)
           /\ Agreed(t, a, s, tu, rest, td, sd, over)
<1>1. Ordered(t, a, s, tu, rest, td, sd, l)
  BY DEF Ordered, Above, Below, AtMost, Lettered, Steps, Follows, Is, Legal
<1>2. Agreed(t, a, s, tu, rest, td, sd, over)
  BY DEF Ordered, Above, Below, AtMost, Lettered, Steps, Agreed, Has, Ends, Is, Legal, Follows
<1> QED BY <1>1, <1>2

\* The gateway stops the control.
LEMMA BothStopAgrees ==
    ASSUME NEW t, NEW a, NEW s, NEW tu, NEW su, NEW td, NEW sd, NEW l \in Nat, NEW over,
           Ordered(t, a, s, tu, su, td, sd, l), Agreed(t, a, s, tu, su, td, sd, over),
           Legal(t), Legal(a), Legal(s),
           Lettered(tu), Lettered(su), Lettered(td), Lettered(sd),
           a.request \in Nat,
           NEW m, m.kind = "stop", m.n = a.request,
           NEW a2, Legal(a2), a2.request \notin Nat
    PROVE  /\ Ordered(t, a2, s, tu, su, td \cup {m}, sd \cup {m}, l)
           /\ Agreed(t, a2, s, tu, su, td \cup {m}, sd \cup {m}, over)
<1>1. Ordered(t, a2, s, tu, su, td \cup {m}, sd \cup {m}, l)
  BY DEF Ordered, Above, Below, AtMost, Lettered, Steps, Follows, Is, Legal
<1>2. Agreed(t, a2, s, tu, su, td \cup {m}, sd \cup {m}, over)
  BY DEF Ordered, Above, Below, AtMost, Lettered, Steps, Agreed, Has, Ends, Is, Legal, Follows
<1> QED BY <1>1, <1>2

\* The attendance is over.
LEMMA EndAgrees ==
    ASSUME NEW t, NEW a, NEW s, NEW tu, NEW su, NEW td, NEW sd, NEW l \in Nat, NEW over,
           Ordered(t, a, s, tu, su, td, sd, l), Agreed(t, a, s, tu, su, td, sd, over),
           Legal(t), Legal(a), Legal(s),
           Lettered(tu), Lettered(su), Lettered(td), Lettered(sd),
           a.request \notin Nat,
           NEW m, m.kind = "ended"
    PROVE  /\ Ordered(t, a, s, tu, su, td \cup {m}, sd \cup {m}, l)
           /\ Agreed(t, a, s, tu, su, td \cup {m}, sd \cup {m}, TRUE)
<1>1. Ordered(t, a, s, tu, su, td \cup {m}, sd \cup {m}, l)
  BY DEF Ordered, Above, Below, AtMost, Lettered, Steps, Follows, Is, Legal
<1>2. Agreed(t, a, s, tu, su, td \cup {m}, sd \cup {m}, TRUE)
  BY DEF Ordered, Above, Below, AtMost, Lettered, Steps, Agreed, Has, Ends, Is, Legal, Follows
<1> QED BY <1>1, <1>2

\* The student reads a request ...
LEMMA ReadRequestAgrees ==
    ASSUME NEW t, NEW a, NEW s, NEW tu, NEW su, NEW td, NEW sd, NEW l \in Nat, NEW over,
           Ordered(t, a, s, tu, su, td, sd, l), Agreed(t, a, s, tu, su, td, sd, over),
           Legal(t), Legal(a), Legal(s),
           Lettered(tu), Lettered(su), Lettered(td), Lettered(sd),
           NEW h \in sd, NEW rest, sd = {h} \cup rest, \A x \in rest : Follows(h, x),
           h.kind = "request", s.request \notin Nat,
           NEW s2, Is(s2, h.n, "pending")
    PROVE  /\ Ordered(t, a, s2, tu, su, td, rest, l)
           /\ Agreed(t, a, s2, tu, su, td, rest, over)
<1>1. Ordered(t, a, s2, tu, su, td, rest, l)
  BY DEF Ordered, Above, Below, AtMost, Lettered, Steps, Follows, Is, Legal
<1>2. Agreed(t, a, s2, tu, su, td, rest, over)
  BY DEF Ordered, Above, Below, AtMost, Lettered, Steps, Agreed, Has, Ends, Is, Legal, Follows
<1> QED BY <1>1, <1>2

\* ... while he has one.
LEMMA RequestIgnoredAgrees ==
    ASSUME NEW t, NEW a, NEW s, NEW tu, NEW su, NEW td, NEW sd, NEW l \in Nat, NEW over,
           Ordered(t, a, s, tu, su, td, sd, l), Agreed(t, a, s, tu, su, td, sd, over),
           Legal(t), Legal(a), Legal(s),
           Lettered(tu), Lettered(su), Lettered(td), Lettered(sd),
           NEW h \in sd, NEW rest, sd = {h} \cup rest, \A x \in rest : Follows(h, x),
           h.kind = "request", s.request \in Nat,
           \A m \in sd : m.kind = "ended" => a.request \notin Nat
    PROVE  /\ Ordered(t, a, s, tu, su, td, rest, l)
           /\ Agreed(t, a, s, tu, su, td, rest, over)
<1>1. Ordered(t, a, s, tu, su, td, rest, l)
  BY DEF Ordered, Above, Below, AtMost, Lettered, Steps, Follows, Is, Legal
<1>2. Agreed(t, a, s, tu, su, td, rest, over)
  BY DEF Ordered, Above, Below, AtMost, Lettered, Steps, Agreed, Has, Ends, Is, Legal, Follows
<1> QED BY <1>1, <1>2

\* The student reads a stop ...
LEMMA ReadStopAgrees ==
    ASSUME NEW t, NEW a, NEW s, NEW tu, NEW su, NEW td, NEW sd, NEW l \in Nat, NEW over,
           Ordered(t, a, s, tu, su, td, sd, l), Agreed(t, a, s, tu, su, td, sd, over),
           Legal(t), Legal(a), Legal(s),
           Lettered(tu), Lettered(su), Lettered(td), Lettered(sd),
           NEW h \in sd, NEW rest, sd = {h} \cup rest, \A x \in rest : Follows(h, x),
           h.kind = "stop", s.request = h.n,
           NEW s2, Legal(s2), s2.request \notin Nat
    PROVE  /\ Ordered(t, a, s2, tu, su, td, rest, l)
           /\ Agreed(t, a, s2, tu, su, td, rest, over)
<1>1. Ordered(t, a, s2, tu, su, td, rest, l)
  BY DEF Ordered, Above, Below, AtMost, Lettered, Steps, Follows, Is, Legal
<1>2. Agreed(t, a, s2, tu, su, td, rest, over)
  BY DEF Ordered, Above, Below, AtMost, Lettered, Steps, Agreed, Has, Ends, Is, Legal, Follows
<1> QED BY <1>1, <1>2

\* ... too late, or anything else.
LEMMA PassedAgrees ==
    ASSUME NEW t, NEW a, NEW s, NEW tu, NEW su, NEW td, NEW sd, NEW l \in Nat, NEW over,
           Ordered(t, a, s, tu, su, td, sd, l), Agreed(t, a, s, tu, su, td, sd, over),
           Legal(t), Legal(a), Legal(s),
           Lettered(tu), Lettered(su), Lettered(td), Lettered(sd),
           NEW h \in sd, NEW rest, sd = {h} \cup rest, \A x \in rest : Follows(h, x),
           h.kind \in {"started", "keydown", "keyup"} \/ (h.kind = "stop" /\ s.request # h.n)
    PROVE  /\ Ordered(t, a, s, tu, su, td, rest, l)
           /\ Agreed(t, a, s, tu, su, td, rest, over)
<1>1. Ordered(t, a, s, tu, su, td, rest, l)
  BY DEF Ordered, Above, Below, AtMost, Lettered, Steps, Follows, Is, Legal
<1>2. Agreed(t, a, s, tu, su, td, rest, over)
  BY DEF Ordered, Above, Below, AtMost, Lettered, Steps, Agreed, Has, Ends, Is, Legal, Follows
<1> QED BY <1>1, <1>2

\* The professor reads a stop or a refusal ...
LEMMA HearStopAgrees ==
    ASSUME NEW t, NEW a, NEW s, NEW tu, NEW su, NEW td, NEW sd, NEW l \in Nat, NEW over,
           Ordered(t, a, s, tu, su, td, sd, l), Agreed(t, a, s, tu, su, td, sd, over),
           Legal(t), Legal(a), Legal(s),
           Lettered(tu), Lettered(su), Lettered(td), Lettered(sd),
           NEW h \in td, NEW rest, td = {h} \cup rest, \A x \in rest : Follows(h, x),
           h.kind = "stop" \/ (h.kind = "denied" /\ t.status = "pending"), t.request = h.n,
           NEW t2, Legal(t2), t2.request \notin Nat
    PROVE  /\ Ordered(t2, a, s, tu, su, rest, sd, l)
           /\ Agreed(t2, a, s, tu, su, rest, sd, over)
<1>1. Ordered(t2, a, s, tu, su, rest, sd, l)
  BY DEF Ordered, Above, Below, AtMost, Lettered, Steps, Follows, Is, Legal
<1>2. Agreed(t2, a, s, tu, su, rest, sd, over)
  BY DEF Ordered, Above, Below, AtMost, Lettered, Steps, Agreed, Has, Ends, Is, Legal, Follows
<1> QED BY <1>1, <1>2

\* ... or is granted the control ...
LEMMA HearApprovalAgrees ==
    ASSUME NEW t, NEW a, NEW s, NEW tu, NEW su, NEW td, NEW sd, NEW l \in Nat, NEW over,
           Ordered(t, a, s, tu, su, td, sd, l), Agreed(t, a, s, tu, su, td, sd, over),
           Legal(t), Legal(a), Legal(s),
           Lettered(tu), Lettered(su), Lettered(td), Lettered(sd),
           NEW h \in td, NEW rest, td = {h} \cup rest, \A x \in rest : Follows(h, x),
           h.kind = "approved", Is(t, h.n, "pending"),
           NEW t2, Is(t2, h.n, "active")
    PROVE  /\ Ordered(t2, a, s, tu, su, rest, sd, l)
           /\ Agreed(t2, a, s, tu, su, rest, sd, over)
<1>1. Ordered(t2, a, s, tu, su, rest, sd, l)
  BY DEF Ordered, Above, Below, AtMost, Lettered, Steps, Follows, Is, Legal
<1>2. Agreed(t2, a, s, tu, su, rest, sd, over)
  BY DEF Ordered, Above, Below, AtMost, Lettered, Steps, Agreed, Has, Ends, Is, Legal, Follows
<1> QED BY <1>1, <1>2

\* ... or reads what no longer matters.
LEMMA OverheardAgrees ==
    ASSUME NEW t, NEW a, NEW s, NEW tu, NEW su, NEW td, NEW sd, NEW l \in Nat, NEW over,
           Ordered(t, a, s, tu, su, td, sd, l), Agreed(t, a, s, tu, su, td, sd, over),
           Legal(t), Legal(a), Legal(s),
           Lettered(tu), Lettered(su), Lettered(td), Lettered(sd),
           NEW h \in td, NEW rest, td = {h} \cup rest, \A x \in rest : Follows(h, x),
           \/ h.kind = "started"
           \/ h.kind = "stop" /\ t.request # h.n
           \/ h.kind \in {"approved", "denied"} /\ ~Is(t, h.n, "pending")
    PROVE  /\ Ordered(t, a, s, tu, su, rest, sd, l)
           /\ Agreed(t, a, s, tu, su, rest, sd, over)
<1>1. Ordered(t, a, s, tu, su, rest, sd, l)
  BY DEF Ordered, Above, Below, AtMost, Lettered, Steps, Follows, Is, Legal
<1>2. Agreed(t, a, s, tu, su, rest, sd, over)
  BY DEF Ordered, Above, Below, AtMost, Lettered, Steps, Agreed, Has, Ends, Is, Legal, Follows
<1> QED BY <1>1, <1>2

\* The end of the attendance is the last thing an application reads.
LEMMA ReadEndAgrees ==
    ASSUME NEW t, NEW a, NEW s, NEW tu, NEW su, NEW td, NEW sd, NEW l \in Nat, NEW over,
           Ordered(t, a, s, tu, su, td, sd, l), Agreed(t, a, s, tu, su, td, sd, over),
           Legal(t), Legal(a), Legal(s),
           Lettered(tu), Lettered(su), Lettered(td), Lettered(sd),
           a.request \notin Nat, over,
           NEW c, Legal(c), c.request \notin Nat
    PROVE  /\ Ordered(c, a, s, tu, su, {}, sd, l) /\ Agreed(c, a, s, tu, su, {}, sd, over)
           /\ Ordered(t, a, c, tu, su, td, {}, l) /\ Agreed(t, a, c, tu, su, td, {}, over)
<1>1. Ordered(c, a, s, tu, su, {}, sd, l) /\ Ordered(t, a, c, tu, su, td, {}, l)
  BY DEF Ordered, Above, Below, AtMost, Lettered, Steps, Follows, Is, Legal
<1>2. Agreed(c, a, s, tu, su, {}, sd, over)
  BY DEF Ordered, Above, Below, AtMost, Lettered, Steps, Agreed, Has, Ends, Is, Legal, Follows
<1>3. Agreed(t, a, c, tu, su, td, {}, over)
  BY DEF Ordered, Above, Below, AtMost, Lettered, Steps, Agreed, Has, Ends, Is, Legal, Follows
<1> QED BY <1>1, <1>2, <1>3

-----------------------------------------------------------------------------
(* What a step does while no connection has been lost *)

\* Types, as far as agreement needs them.
LEMMA CalmTypes ==
    ASSUME Typed, Connected
    PROVE  /\ "teacher" \in Roles /\ "student" \in Roles
           /\ Legal(ProfessorControl) /\ Legal(server.auth) /\ Legal(StudentControl)
           /\ Orders \in Seq(Letters) /\ Replies \in Seq(Letters)
           /\ Notices \in Seq(Letters) /\ Forwarded \in Seq(Letters)
           /\ Lettered(Range(Orders)) /\ Lettered(Range(Replies))
           /\ Lettered(Range(Notices)) /\ Lettered(Range(Forwarded))
           /\ left["request"] \in Nat
<1>1. "teacher" \in Roles /\ "student" \in Roles /\ 1 \in Sockets /\ None \notin Nat
  BY RemoteControlAssumption DEF Roles
<1>2. \A c \in Controlled \cup {NoAuthorization, Inactive} : Legal(c)
  BY <1>1 DEF Legal, Controlled, NoAuthorization, Inactive
<1>3. /\ ProfessorControl \in Controlled \cup {Inactive}
      /\ StudentControl \in Controlled \cup {Inactive}
      /\ server.auth \in Controlled \cup {NoAuthorization}
  BY <1>1 DEF Typed, AppRecords, ProfessorControl, StudentControl
<1>4. \A queue \in Seq(Letters) : Lettered(Range(queue))
  <2>1. \A m \in Letters : m.kind \in Steps => m.n \in Nat
    BY DEF Letters, Steps
  <2>2. \A queue \in Seq(Letters) : Range(queue) \subseteq Letters
    BY DEF Range
  <2> QED BY <2>1, <2>2 DEF Lettered
<1>5. /\ Orders \in Seq(Letters) /\ Replies \in Seq(Letters)
      /\ Notices \in Seq(Letters) /\ Forwarded \in Seq(Letters)
  BY <1>1 DEF Typed, Orders, Replies, Notices, Forwarded
<1>6. left["request"] \in Nat
  BY DEF Typed, Bounded
<1> QED BY <1>1, <1>2, <1>3, <1>4, <1>5, <1>6

\* What a step does to an application and its connection, short of the start and
\* the end of the attendance.
Steady(r) ==
    /\ app'[r].startup = app[r].startup
    /\ app'[r].session = app[r].session
    /\ \/ app'[r].control \in {app[r].control, Inactive}
       \/ app[r].session /\ (server.ended => Tells(down'[r], "ended"))
    /\ \A s \in Sockets \ {1} : up'[r][s] = up[r][s]
    /\ \A m \in Range(up'[r][1]) :
          m \in Range(up[r][1]) \/ (m.kind \in Said[r] /\ (m.kind = "end" => m.n = None))
    /\ \A m \in Range(down'[r]) :
          m \in Range(down[r]) \/ (m.kind \in Told[r] /\ m.kind \notin {"started", "ended"})
    /\ \A m \in Range(down[r]) :
          m.kind \in {"started", "ended"} => m \in Range(down'[r])
    /\ server.ended /\ down[r] = <<>> => down'[r] = <<>>

\* Such a step keeps what is known of the connections.
LEMMA ConnectedKept ==
    ASSUME Connected, \A r \in Roles : Steady(r),
           server'.due = server.due, server'.ended = server.ended,
           server'.seat = server.seat, server.ended => server'.auth = server.auth
    PROVE  Connected'
<1>1. ASSUME NEW r \in Roles PROVE Online(r)'
  <2>1. Online(r) /\ Steady(r)
    BY DEF Connected
  <2>2. /\ (app[r].startup = "settled")'
        /\ (\A s \in Sockets \ {1} : up[r][s] = <<>>)'
        /\ (\A m \in Range(up[r][1]) : m.kind \in Said[r] /\ (m.kind = "end" => m.n = None))'
        /\ (\A m \in Range(down[r]) : m.kind \in Told[r])'
    BY <2>1 DEF Online, Steady
  <2>3. /\ Tells(down'[r], "ended") <=> Tells(down[r], "ended")
        /\ Tells(down'[r], "started") <=> Tells(down[r], "started")
    BY <2>1 DEF Steady, Tells
  <2>4. /\ (Tells(down[r], "ended") => server.ended)'
        /\ (Tells(down[r], "started") => ~app[r].session)'
    BY <2>1, <2>3 DEF Online, Steady
  <2>5. app[r].session \/ app'[r].control = Inactive
    BY <2>1 DEF Online, Steady
  <2>6. (server.ended => \/ Tells(down[r], "ended")
                         \/ /\ app[r].control = Inactive /\ down[r] = <<>>
                            /\ r = "teacher" => ~app[r].session)'
    BY <2>1, <2>3 DEF Online, Steady
  <2>7. (~app[r].session => /\ app[r].control = Inactive
                            /\ \/ Tells(down[r], "started")
                               \/ server.ended /\ down[r] = <<>>)'
    BY <2>1, <2>3, <2>5 DEF Online, Steady
  <2> QED BY <2>2, <2>4, <2>6, <2>7 DEF Online
<1> QED BY <1>1 DEF Connected

\* A message sent over the first connection.
LEMMA SentCalm ==
    ASSUME Typed, Undisturbed, NEW r \in Roles, NEW m \in Letters, up' = Sent(up, r, m)
    PROVE  /\ up'[r][1] = Append(up[r][1], m)
           /\ Range(up'[r][1]) = Range(up[r][1]) \cup {m}
           /\ \A p \in Roles, z \in Sockets : p # r \/ z # 1 => up'[p][z] = up[p][z]
<1>1. 1 \in Sockets /\ app[r].socket = 1 /\ up[r][1] \in Seq(Letters)
      /\ up \in [Roles -> [Sockets -> Seq(Letters)]]
  BY RemoteControlAssumption DEF Undisturbed, Typed
<1>2. up' = [up EXCEPT ![r][1] = Append(@, m)]
  BY <1>1 DEF Sent
<1>3. Range(Append(up[r][1], m)) = Range(up[r][1]) \cup {m}
  BY <1>1, AppendLemma
<1>4. /\ up'[r][1] = Append(up[r][1], m)
      /\ \A p \in Roles, z \in Sockets : p # r \/ z # 1 => up'[p][z] = up[p][z]
  BY <1>1, <1>2
<1> QED BY <1>3, <1>4

\* A message sent to an application.
LEMMA EmittedCalm ==
    ASSUME Typed, Undisturbed, Connected, ~server.ended,
           NEW d \in [Roles -> Seq(Letters)], NEW r \in Roles, NEW m \in Letters
    PROVE  Emitted(d, r, server.seat[r], m) = [d EXCEPT ![r] = Append(d[r], m)]
<1>1. app[r].online /\ app[r].socket = 1 /\ server.seat[r] = 1
  BY DEF Undisturbed, Connected
<1> QED BY <1>1 DEF Emitted

\* A message sent to both.
LEMMA AnnouncedCalm ==
    ASSUME Typed, Undisturbed, Connected, ~server.ended,
           NEW d \in [Roles -> Seq(Letters)], NEW m \in Letters
    PROVE  /\ Announced(d, m) \in [Roles -> Seq(Letters)]
           /\ \A r \in Roles : Announced(d, m)[r] = Append(d[r], m)
<1>1. /\ \A r \in Roles : DeliverySocket(r) = server.seat[r]
      /\ "teacher" \in Roles /\ "student" \in Roles /\ Roles = {"teacher", "student"}
  BY RemoteControlAssumption DEF DeliverySocket, Connected, Roles
<1> DEFINE e == [d EXCEPT !["teacher"] = Append(d["teacher"], m)]
           f == [e EXCEPT !["student"] = Append(e["student"], m)]
<1>2. /\ \A r \in Roles : Append(d[r], m) \in Seq(Letters)
  BY AppendLemma
<1>3. e \in [Roles -> Seq(Letters)]
  BY <1>1, <1>2
<1>4. Emitted(d, "teacher", server.seat["teacher"], m) = e
  BY <1>1, EmittedCalm
<1>5. Emitted(e, "student", server.seat["student"], m) = f
  <2> HIDE DEF e
  <2> QED BY <1>1, <1>3, EmittedCalm
<1>6. Announced(d, m) = f
  BY <1>1, <1>4, <1>5 DEF Announced
<1>7. f = [r \in Roles |-> Append(d[r], m)]
  BY <1>1
<1> HIDE DEF f
<1> QED BY <1>2, <1>6, <1>7

\* The server reads what was said over the first connection.
LEMMA HearsCalm ==
    ASSUME Typed, Connected, NEW r \in Roles, NEW s \in Sockets, NEW kinds, Hears(r, s, kinds)
    PROVE  /\ s = 1 /\ up[r][1] \in Seq(Letters) /\ up[r][1] # <<>>
           /\ Heard(r, 1) \in Letters /\ Heard(r, 1).kind \in kinds \cap Said[r]
           /\ Heard(r, 1).kind = "end" => Heard(r, 1).n = None
           /\ Heard(r, 1) = Head(up[r][1]) /\ Heard(r, 1) \in Range(up[r][1])
           /\ up'[r][1] = Tail(up[r][1])
           /\ Range(up[r][1]) = {Heard(r, 1)} \cup Range(up'[r][1])
           /\ \A p \in Roles, z \in Sockets : p # r \/ z # 1 => up'[p][z] = up[p][z]
<1>1. /\ up[r][s] # <<>> /\ Heard(r, s) = Head(up[r][s])
      /\ up' = [up EXCEPT ![r][s] = Tail(@)] /\ Heard(r, s).kind \in kinds
      /\ up \in [Roles -> [Sockets -> Seq(Letters)]]
  BY DEF Hears, Heard, Typed
<1>2. s = 1 /\ Online(r)
  BY <1>1 DEF Connected, Online
<1>3. /\ Head(up[r][1]) \in Letters
      /\ Range(up[r][1]) = {Head(up[r][1])} \cup Range(Tail(up[r][1]))
  BY <1>1, <1>2, TailLemma
<1>4. /\ up'[r][1] = Tail(up[r][1])
      /\ \A p \in Roles, z \in Sockets : p # r \/ z # 1 => up'[p][z] = up[p][z]
  BY <1>1, <1>2
<1>5. Heard(r, 1) \in Range(up[r][1])
  BY <1>1, <1>2, <1>3
<1>6. Heard(r, 1).kind \in Said[r] /\ (Heard(r, 1).kind = "end" => Heard(r, 1).n = None)
  BY <1>2, <1>5 DEF Online
<1> QED BY <1>1, <1>2, <1>3, <1>4, <1>5, <1>6

\* An application reads what it was told.
LEMMA ReadsCalm ==
    ASSUME Typed, Connected, NEW r \in Roles, NEW kinds, Reads(r, kinds)
    PROVE  /\ down[r] \in Seq(Letters) /\ down[r] # <<>>
           /\ Read(r) \in Letters /\ Read(r).kind \in kinds \cap Told[r]
           /\ Read(r) = Head(down[r]) /\ Read(r) \in Range(down[r])
           /\ down'[r] = Tail(down[r])
           /\ Range(down[r]) = {Read(r)} \cup Range(down'[r])
           /\ \A p \in Roles \ {r} : down'[p] = down[p]
<1>1. /\ down[r] # <<>> /\ Read(r) = Head(down[r]) /\ Read(r).kind \in kinds
      /\ down' = [down EXCEPT ![r] = Tail(@)] /\ down \in [Roles -> Seq(Letters)]
  BY DEF Reads, Read, Typed
<1>2. /\ Head(down[r]) \in Letters
      /\ Range(down[r]) = {Head(down[r])} \cup Range(Tail(down[r]))
  BY <1>1, TailLemma
<1>3. Read(r) \in Range(down[r])
  BY <1>1, <1>2
<1>4. Read(r).kind \in Told[r]
  BY <1>3 DEF Connected, Online
<1> QED BY <1>1, <1>2, <1>3, <1>4

\* What a step does to a queue, as far as the keys of the control q go.
KeysKept(q, queue, new) ==
    \A k : /\ Lifts(Range(queue), q, k) => Lifts(Range(new), q, k)
           /\ Settled(queue, q, k) => Settled(new, q, k)

\* Nothing, a message at the end, or the head taken away.
LEMMA KeysKeptLemma ==
    ASSUME NEW queue \in Seq(Letters), NEW q
    PROVE  /\ KeysKept(q, queue, queue)
           /\ \A m \in Letters : ~(m.kind = "keydown" /\ m.n = q)
                 => KeysKept(q, queue, Append(queue, m))
           /\ queue # <<>> /\ ~(Head(queue).kind = "keyup" /\ Head(queue).n = q)
                 => KeysKept(q, queue, Tail(queue))
<1>1. KeysKept(q, queue, queue)
  BY DEF KeysKept
<1>2. ASSUME NEW m \in Letters, ~(m.kind = "keydown" /\ m.n = q)
      PROVE  KeysKept(q, queue, Append(queue, m))
  <2>1. Range(Append(queue, m)) = Range(queue) \cup {m}
    BY AppendLemma
  <2>2. ASSUME NEW k, Settled(queue, q, k) PROVE Settled(Append(queue, m), q, k)
    BY <1>2, <2>2, SettledAppend
  <2> QED BY <2>1, <2>2 DEF KeysKept, Lifts
<1>3. ASSUME queue # <<>>, ~(Head(queue).kind = "keyup" /\ Head(queue).n = q)
      PROVE  KeysKept(q, queue, Tail(queue))
  <2>1. Range(queue) = {Head(queue)} \cup Range(Tail(queue))
    BY <1>3, TailLemma
  <2>2. ASSUME NEW k, Settled(queue, q, k) PROVE Settled(Tail(queue), q, k)
    BY <1>3, <2>2, SettledTail
  <2> QED BY <1>3, <2>1, <2>2 DEF KeysKept, Lifts
<1> QED BY <1>1, <1>2, <1>3

\* A step that strokes no key.
Unstroked ==
    /\ \A m \in Range(Orders') \cup Range(Forwarded') :
          m.kind \in {"keydown", "keyup"} => m \in Range(Orders) \cup Range(Forwarded)
    /\ \A q \in Nat : server.auth.request = q /\ Is(ProfessorControl, q, "active") =>
          KeysKept(q, Orders, Orders') /\ KeysKept(q, Forwarded, Forwarded')
    /\ held' = {} \/ (held' = held /\ stuck' = stuck /\ StudentControl' = StudentControl)
    /\ ProfessorControl'.status = "pending" =>
          \/ ProfessorControl' = ProfessorControl
          \/ /\ Unheard(ProfessorControl'.request)
             /\ StudentControl' = StudentControl
             /\ StudentControl.request # ProfessorControl'.request
    /\ /\ ProfessorControl'.status = "active"
       /\ server'.auth.request = ProfessorControl'.request
       => \/ /\ ProfessorControl' = ProfessorControl /\ pressed' = pressed
             /\ server.auth.request = server'.auth.request
          \/ /\ ProfessorControl.status = "pending"
             /\ ProfessorControl.request = ProfessorControl'.request

\* Such a step keeps what is known of the keys.
LEMMA KeyboardKept ==
    ASSUME Typed, Connected, Keyboard, Unstroked
    PROVE  Keyboard'
<1>1. (held # {} => StudentControl.status = "active")'
  BY DEF Keyboard, Unstroked
<1>2. (ProfessorControl.status = "pending" =>
          /\ Unheard(ProfessorControl.request)
          /\ StudentControl.request = ProfessorControl.request => held = {})'
  BY DEF Keyboard, Unstroked, Unheard
<1>3. ASSUME ProfessorControl'.status = "active",
             server'.auth.request = ProfessorControl'.request,
             NEW k \in Keys \ pressed'
      PROVE  Released(ProfessorControl.request, k)'
  <2>0. PICK q : q = ProfessorControl'.request
    OBVIOUS
  <2>1. q = ProfessorControl.request /\ q \in Nat
    BY <1>3, <2>0, CalmTypes DEF Unstroked, Legal
  <2>2. CASE /\ ProfessorControl' = ProfessorControl /\ pressed' = pressed
             /\ server.auth.request = server'.auth.request
    <3>1. Released(q, k)
      BY <1>3, <2>0, <2>1, <2>2 DEF Keyboard
    <3>2. KeysKept(q, Orders, Orders') /\ KeysKept(q, Forwarded, Forwarded')
      BY <1>3, <2>0, <2>1, <2>2 DEF Unstroked, Is
    <3>3. k \in held' \ stuck' /\ Is(StudentControl', q, "active")
             => k \in held \ stuck /\ Is(StudentControl, q, "active")
      BY DEF Unstroked
    <3>4. Released(q, k)'
      BY <2>1, <3>1, <3>2, <3>3 DEF Released, KeysKept, Lifts
    <3> QED BY <2>0, <3>4
  <2>3. CASE ProfessorControl.status = "pending"
    <3>1. /\ \A m \in Range(Orders') \cup Range(Forwarded') :
                m.kind \in {"keydown", "keyup"} => m.n # q
      BY <2>0, <2>1, <2>3 DEF Unstroked, Keyboard, Unheard
    <3>2. k \in held' => ~Is(StudentControl', q, "active")
      BY <2>0, <2>1, <2>3 DEF Unstroked, Keyboard, Is
    <3>3. Settled(Orders', q, k) /\ Settled(Forwarded', q, k)
      BY <3>1 DEF Settled, Range
    <3> QED BY <2>0, <3>2, <3>3 DEF Released
  <2> QED BY <1>3, <2>2, <2>3 DEF Unstroked
<1> QED BY <1>1, <1>2, <1>3 DEF Keyboard

\* The professor asks: a request with a new number.
LEMMA AskIsCalm ==
    ASSUME Typed, Undisturbed, Calm, RequestRemoteControl
    PROVE  Calm'
<1>0. /\ Connected /\ InOrder /\ Balanced /\ Keyboard
      /\ "teacher" \in Roles /\ "student" \in Roles /\ Roles = {"teacher", "student"}
      /\ app \in [Roles -> AppRecords] /\ app["teacher"] \in AppRecords
  BY CalmTypes DEF Calm, Roles, Typed
<1>t. /\ Legal(ProfessorControl) /\ Legal(server.auth) /\ Legal(StudentControl)
      /\ Orders \in Seq(Letters) /\ Forwarded \in Seq(Letters)
      /\ Lettered(Range(Orders)) /\ Lettered(Range(Replies))
      /\ Lettered(Range(Notices)) /\ Lettered(Range(Forwarded))
      /\ left["request"] \in Nat
  BY <1>0, CalmTypes
<1>1. PICK l, m : l = left["request"] /\ m = Message("request", l)
  OBVIOUS
<1>2. l \in Nat /\ l > 0 /\ left'["request"] = l - 1
      /\ m \in Letters /\ m.kind = "request" /\ m.n = l
  BY <1>1, UsedLemma DEF RequestRemoteControl, Bounded, Message, Letters
<1>3. /\ up' = Sent(up, "teacher", m) /\ app["teacher"].session
      /\ app' = [app EXCEPT !["teacher"].control = Control(l, "pending")]
      /\ server' = server /\ pressed' = pressed /\ held' = held /\ stuck' = stuck /\ down' = down
      /\ ProfessorControl = Inactive
  BY <1>1 DEF RequestRemoteControl, InSession, ProfessorControl
<1>4. /\ Orders' = Append(Orders, m) /\ Range(Orders') = Range(Orders) \cup {m}
      /\ Replies' = Replies /\ Notices' = Notices /\ Forwarded' = Forwarded
      /\ \A p \in Roles, z \in Sockets : p # "teacher" \/ z # 1 => up'[p][z] = up[p][z]
  <2>1. 1 \in Sockets
    BY RemoteControlAssumption
  <2> QED BY <1>0, <1>2, <1>3, <2>1, SentCalm DEF Orders, Replies, Notices, Forwarded
<1>5. /\ app'["teacher"] = [app["teacher"] EXCEPT !.control = Control(l, "pending")]
      /\ app'["student"] = app["student"]
      /\ app'["teacher"].session = app["teacher"].session
      /\ app'["teacher"].startup = app["teacher"].startup
      /\ ProfessorControl' = Control(l, "pending")
      /\ StudentControl' = StudentControl
  BY <1>0, <1>3 DEF AppRecords, ProfessorControl, StudentControl
<1>6. /\ ProfessorControl'.request = l /\ ProfessorControl'.status = "pending"
      /\ ProfessorControl.request \notin Nat
  BY <1>3, <1>5, RemoteControlAssumption DEF Control, Inactive
<1>7. Connected'
  <2>1. Steady("student")
    BY <1>0, <1>3, <1>4, <1>5 DEF Steady, Replies
  <2>2. Online("teacher")
    BY <1>0 DEF Connected
  <2>3. server.ended => Tells(down'["teacher"], "ended")
    BY <1>3, <2>2 DEF Online
  <2>4. Steady("teacher")
    BY <1>0, <1>2, <1>3, <1>4, <1>5, <2>3 DEF Steady, Orders, Said
  <2> QED BY <1>0, <1>3, <2>1, <2>4, ConnectedKept
<1>8. InOrder'
  <2>1. \A x \in Range(Orders) : Follows(x, m)
    <3>1. \A x \in Range(Orders) : x.kind # "ended"
      BY <1>0 DEF Connected, Online, Orders, Said
    <3>2. Below(l, Range(Orders), Steps)
      BY <1>0, <1>1 DEF Balanced, Ordered, Below
    <3> QED BY <1>2, <3>1, <3>2 DEF Follows, Below, Lettered
  <2>2. Sorted(Orders')
    BY <1>0, <1>2, <1>4, <1>t, <2>1, SortedAppend DEF InOrder
  <2> QED BY <1>0, <1>4, <2>2 DEF InOrder
<1>9. Balanced'
  <2> DEFINE t == ProfessorControl
             t2 == ProfessorControl'
             tu == Range(Orders)
             su == Range(Replies)
             td == Range(Notices)
             sd == Range(Forwarded)
  <2>1. /\ Ordered(t, server.auth, StudentControl, tu, su, td, sd, l)
        /\ Agreed(t, server.auth, StudentControl, tu, su, td, sd, server.ended)
    BY <1>0, <1>1 DEF Balanced
  <2>2. /\ Ordered(t2, server.auth, StudentControl, tu \cup {m}, su, td, sd, l - 1)
        /\ Agreed(t2, server.auth, StudentControl, tu \cup {m}, su, td, sd, server.ended)
    <3> HIDE DEF t, t2, tu, su, td, sd
    <3>1. /\ Legal(t) /\ Legal(server.auth) /\ Legal(StudentControl)
          /\ Lettered(tu) /\ Lettered(su) /\ Lettered(td) /\ Lettered(sd)
          /\ t.request \notin Nat /\ t2.request = l /\ t2.status = "pending"
      BY <1>t, <1>6 DEF t, t2, tu, su, td, sd
    <3> QED BY <1>2, <2>1, <3>1, AskAgrees
  <2> QED BY <1>2, <1>3, <1>4, <1>5, <2>2 DEF Balanced
<1>10. Keyboard'
  <2>1. Unheard(l) /\ StudentControl.request # l
    BY <1>0, <1>1, <1>2, <1>t DEF Balanced, Ordered, Below, Unheard, Steps, Legal, Lettered
  <2>2. /\ \A q \in Nat : KeysKept(q, Orders, Orders') /\ KeysKept(q, Forwarded, Forwarded')
    BY <1>2, <1>4, <1>t, KeysKeptLemma
  <2>3. Unstroked
    BY <1>2, <1>3, <1>4, <1>5, <1>6, <2>1, <2>2 DEF Unstroked
  <2> QED BY <1>0, <2>3, KeyboardKept
<1> QED BY <1>7, <1>8, <1>9, <1>10 DEF Calm

\* The professor stops.
LEMMA StopIsCalm ==
    ASSUME Typed, Undisturbed, Calm, ClickStop("teacher")
    PROVE  Calm'
<1>0. /\ Connected /\ InOrder /\ Balanced /\ Keyboard
      /\ "teacher" \in Roles /\ "student" \in Roles /\ Roles = {"teacher", "student"}
      /\ app \in [Roles -> AppRecords] /\ app["teacher"] \in AppRecords
  BY CalmTypes DEF Calm, Roles, Typed
<1>t. /\ Legal(ProfessorControl) /\ Legal(server.auth) /\ Legal(StudentControl)
      /\ Orders \in Seq(Letters) /\ Forwarded \in Seq(Letters)
      /\ Lettered(Range(Orders)) /\ Lettered(Range(Replies))
      /\ Lettered(Range(Notices)) /\ Lettered(Range(Forwarded))
      /\ left["request"] \in Nat
  BY <1>0, CalmTypes
<1>1. PICK q, m : q = ProfessorControl.request /\ m = Message("stop", q)
  OBVIOUS
<1>2. q \in Nat /\ m \in Letters /\ m.kind = "stop" /\ m.n = q
  <2>1. ProfessorControl \in Controlled
    BY <1>0 DEF ClickStop, ProfessorControl, AppRecords
  <2> QED BY <1>1, <2>1 DEF Message, Letters, Controlled
<1>3. /\ up' = Sent(up, "teacher", m) /\ app["teacher"].session
      /\ app' = [app EXCEPT !["teacher"].control = Inactive]
      /\ server' = server /\ held' = held /\ stuck' = stuck /\ down' = down /\ left' = left
  BY <1>1 DEF ClickStop, Let, InSession, ProfessorControl
<1>4. /\ Orders' = Append(Orders, m) /\ Range(Orders') = Range(Orders) \cup {m}
      /\ Replies' = Replies /\ Notices' = Notices /\ Forwarded' = Forwarded
      /\ \A p \in Roles, z \in Sockets : p # "teacher" \/ z # 1 => up'[p][z] = up[p][z]
  <2>1. 1 \in Sockets
    BY RemoteControlAssumption
  <2> QED BY <1>0, <1>2, <1>3, <2>1, SentCalm DEF Orders, Replies, Notices, Forwarded
<1>5. /\ app'["teacher"] = [app["teacher"] EXCEPT !.control = Inactive]
      /\ app'["student"] = app["student"]
      /\ app'["teacher"].session = app["teacher"].session
      /\ app'["teacher"].startup = app["teacher"].startup
      /\ ProfessorControl' = Inactive
      /\ StudentControl' = StudentControl
  BY <1>0, <1>3 DEF AppRecords, ProfessorControl, StudentControl
<1>6. ProfessorControl'.request \notin Nat /\ Legal(ProfessorControl')
      /\ ProfessorControl'.status = "inactive"
  BY <1>5, RemoteControlAssumption DEF Inactive, Legal
<1>7. Connected'
  <2>1. Steady("student")
    BY <1>0, <1>3, <1>4, <1>5 DEF Steady, Replies
  <2>2. Steady("teacher")
    BY <1>0, <1>2, <1>3, <1>4, <1>5 DEF Steady, Orders, Said, ProfessorControl
  <2> QED BY <1>0, <1>3, <2>1, <2>2, ConnectedKept
<1>8. InOrder'
  <2>1. \A x \in Range(Orders) : Follows(x, m)
    <3>1. \A x \in Range(Orders) : x.kind # "ended"
      BY <1>0 DEF Connected, Online, Orders, Said
    <3>2. Below(q, Range(Orders), {"stop"})
      BY <1>0, <1>1 DEF Balanced, Ordered
    <3> QED BY <1>2, <1>t, <3>1, <3>2 DEF Follows, Below, Lettered
  <2>2. Sorted(Orders')
    BY <1>0, <1>2, <1>4, <1>t, <2>1, SortedAppend DEF InOrder
  <2> QED BY <1>0, <1>4, <2>2 DEF InOrder
<1>9. Balanced'
  <2> DEFINE t == ProfessorControl
             t2 == ProfessorControl'
             tu == Range(Orders)
             su == Range(Replies)
             td == Range(Notices)
             sd == Range(Forwarded)
             l == left["request"]
  <2>1. /\ Ordered(t, server.auth, StudentControl, tu, su, td, sd, l)
        /\ Agreed(t, server.auth, StudentControl, tu, su, td, sd, server.ended)
    BY <1>0 DEF Balanced
  <2>2. /\ Ordered(t2, server.auth, StudentControl, tu \cup {m}, su, td, sd, l)
        /\ Agreed(t2, server.auth, StudentControl, tu \cup {m}, su, td, sd, server.ended)
    <3> HIDE DEF t, t2, tu, su, td, sd, l
    <3>1. /\ Legal(t) /\ Legal(server.auth) /\ Legal(StudentControl)
          /\ Lettered(tu) /\ Lettered(su) /\ Lettered(td) /\ Lettered(sd)
          /\ t.request \in Nat /\ t2.request \notin Nat /\ Legal(t2)
          /\ m.kind = "stop" /\ m.n = t.request /\ l \in Nat
      BY <1>t, <1>1, <1>2, <1>6 DEF t, t2, tu, su, td, sd, l
    <3> QED BY <2>1, <3>1, StopAgrees
  <2> QED BY <1>2, <1>3, <1>4, <1>5, <2>2 DEF Balanced
<1>10. Keyboard'
  <2>1. /\ \A i \in Nat : KeysKept(i, Orders, Orders') /\ KeysKept(i, Forwarded, Forwarded')
    BY <1>2, <1>4, <1>t, KeysKeptLemma
  <2>2. Unstroked
    BY <1>2, <1>3, <1>4, <1>5, <1>6, <2>1 DEF Unstroked
  <2> QED BY <1>0, <2>2, KeyboardKept
<1> QED BY <1>7, <1>8, <1>9, <1>10 DEF Calm

\* What the student says leaves all but the control on his side alone.
StudentSays(m, c) ==
    /\ up' = Sent(up, "student", m) /\ app["student"].session
    /\ app' = [app EXCEPT !["student"].control = c]
    /\ server' = server /\ pressed' = pressed /\ down' = down /\ left' = left
    /\ m.kind \in {"approved", "denied", "stop"}
    /\ c \in {StudentControl, Inactive} \/ StudentControl.status = "pending"

\* It keeps everything that is known but the balance, if it lets go of the keys.
LEMMA StudentSaysLemma ==
    ASSUME Typed, Undisturbed, Calm, NEW m \in Letters, NEW c \in Controlled \cup {Inactive},
           StudentSays(m, c), held' = {}
    PROVE  /\ Connected' /\ InOrder' /\ Keyboard'
           /\ Range(Replies') = Range(Replies) \cup {m}
           /\ Orders' = Orders /\ Notices' = Notices /\ Forwarded' = Forwarded
           /\ ProfessorControl' = ProfessorControl /\ StudentControl' = c
<1>0. /\ Connected /\ InOrder /\ Balanced /\ Keyboard
      /\ "teacher" \in Roles /\ "student" \in Roles /\ Roles = {"teacher", "student"}
      /\ app \in [Roles -> AppRecords] /\ app["student"] \in AppRecords
      /\ Orders \in Seq(Letters) /\ Forwarded \in Seq(Letters)
  BY CalmTypes DEF Calm, Roles, Typed
<1>1. /\ Orders' = Orders /\ Range(Replies') = Range(Replies) \cup {m}
      /\ Notices' = Notices /\ Forwarded' = Forwarded
      /\ \A p \in Roles, z \in Sockets : p # "student" \/ z # 1 => up'[p][z] = up[p][z]
  <2>1. 1 \in Sockets
    BY RemoteControlAssumption
  <2> QED BY <1>0, <2>1, SentCalm DEF StudentSays, Orders, Replies, Notices, Forwarded
<1>2. /\ app'["student"] = [app["student"] EXCEPT !.control = c]
      /\ app'["teacher"] = app["teacher"]
      /\ app'["student"].session = app["student"].session
      /\ app'["student"].startup = app["student"].startup
      /\ app'["student"].control = c
  BY <1>0 DEF StudentSays, AppRecords
<1>3. Connected'
  <2>1. Steady("teacher")
    BY <1>0, <1>1, <1>2 DEF Steady, StudentSays, Orders
  <2>2. Online("student") /\ app["student"].session
    BY <1>0 DEF Connected, StudentSays
  <2>3. \/ c \in {app["student"].control, Inactive}
        \/ server.ended => Tells(down'["student"], "ended")
    <3>1. StudentControl.status = "pending" => app["student"].control # Inactive
      BY DEF StudentControl, Inactive
    <3> QED BY <2>2, <3>1 DEF StudentSays, Online, StudentControl
  <2>4. Steady("student")
    BY <1>0, <1>1, <1>2, <2>2, <2>3 DEF Steady, StudentSays, Replies, Said
  <2> QED BY <1>0, <2>1, <2>4, ConnectedKept DEF StudentSays
<1>4. InOrder'
  BY <1>0, <1>1 DEF InOrder
<1>5. ProfessorControl' = ProfessorControl /\ StudentControl' = c
  BY <1>2 DEF ProfessorControl, StudentControl
<1>6. Keyboard'
  <2>1. \A i \in Nat : KeysKept(i, Orders, Orders') /\ KeysKept(i, Forwarded, Forwarded')
    BY <1>0, <1>1, KeysKeptLemma
  <2>2. Unstroked
    BY <1>1, <1>5, <2>1 DEF Unstroked, StudentSays
  <2> QED BY <1>0, <2>2, KeyboardKept
<1> QED BY <1>1, <1>3, <1>4, <1>5, <1>6

\* The student answers, ...
LEMMA AnswerIsCalm ==
    ASSUME Typed, Undisturbed, Calm, NEW kind \in {"approved", "denied"}, Answer(kind)
    PROVE  Calm'
<1>0. /\ Connected /\ Balanced /\ Keyboard /\ app["student"] \in AppRecords
      /\ left["request"] \in Nat
      /\ Legal(ProfessorControl) /\ Legal(server.auth) /\ Legal(StudentControl)
      /\ Lettered(Range(Orders)) /\ Lettered(Range(Replies))
      /\ Lettered(Range(Notices)) /\ Lettered(Range(Forwarded))
  BY CalmTypes DEF Calm, Typed, Roles
<1>1. PICK q, m, c : /\ q = StudentControl.request /\ m = Message(kind, q)
                     /\ c = IF kind = "approved" THEN Control(q, "active") ELSE Inactive
  OBVIOUS
<1>2. /\ StudentControl.status = "pending" /\ StudentControl.request \in Nat
      /\ m \in Letters /\ m.kind = kind /\ m.n = q
      /\ c \in Controlled \cup {Inactive} /\ Legal(c)
      /\ kind = "approved" => Is(c, q, "active")
      /\ kind = "denied" => c.request \notin Nat
  <2>1. StudentControl.status = "pending" /\ StudentControl.request \in Nat
    BY <1>0 DEF Answer, StudentControl, Legal
  <2>2. m \in Letters /\ m.kind = kind /\ m.n = q
    BY <1>1, <2>1 DEF Message, Letters
  <2>3. CASE kind = "approved"
    BY <1>1, <2>1, <2>2, <2>3 DEF Control, Controlled, Legal, Is
  <2>4. CASE kind = "denied"
    BY <1>1, <2>1, <2>2, <2>4, RemoteControlAssumption DEF Inactive, Legal
  <2> QED BY <2>3, <2>4
<1>3. StudentSays(m, c) /\ held' = {}
  <2>1. held = {}
    BY <1>0, <1>2 DEF Keyboard
  <2> QED BY <1>1, <1>2, <2>1 DEF Answer, StudentSays, InSession, StudentControl
<1>4. /\ Connected' /\ InOrder' /\ Keyboard'
      /\ Range(Replies') = Range(Replies) \cup {m}
      /\ Orders' = Orders /\ Notices' = Notices /\ Forwarded' = Forwarded
      /\ ProfessorControl' = ProfessorControl /\ StudentControl' = c
  BY <1>2, <1>3, StudentSaysLemma
<1>5. Balanced'
  <2> DEFINE t == ProfessorControl
             s == StudentControl
             tu == Range(Orders)
             su == Range(Replies)
             td == Range(Notices)
             sd == Range(Forwarded)
             l == left["request"]
  <2>1. /\ Ordered(t, server.auth, s, tu, su, td, sd, l)
        /\ Agreed(t, server.auth, s, tu, su, td, sd, server.ended)
    BY <1>0 DEF Balanced
  <2>2. /\ Ordered(t, server.auth, c, tu, su \cup {m}, td, sd, l)
        /\ Agreed(t, server.auth, c, tu, su \cup {m}, td, sd, server.ended)
    <3>1. /\ s.status = "pending" /\ m.n = s.request
          /\ kind = "approved" => Is(c, s.request, "active")
          /\ m.kind = kind
      BY <1>1, <1>2
    <3> HIDE DEF t, s, tu, su, td, sd, l
    <3>2. /\ Legal(t) /\ Legal(server.auth) /\ Legal(s)
          /\ Lettered(tu) /\ Lettered(su) /\ Lettered(td) /\ Lettered(sd) /\ l \in Nat
      BY <1>0 DEF t, s, tu, su, td, sd, l
    <3> QED BY <1>2, <2>1, <3>1, <3>2, AnswerAgrees
  <2> QED BY <1>3, <1>4, <2>2 DEF Balanced, StudentSays
<1> QED BY <1>4, <1>5 DEF Calm

\* ... or stops.
LEMMA StudentStopIsCalm ==
    ASSUME Typed, Undisturbed, Calm, ClickStop("student")
    PROVE  Calm'
<1>0. /\ Connected /\ Balanced /\ Keyboard /\ app["student"] \in AppRecords
      /\ left["request"] \in Nat
      /\ Legal(ProfessorControl) /\ Legal(server.auth) /\ Legal(StudentControl)
      /\ Lettered(Range(Orders)) /\ Lettered(Range(Replies))
      /\ Lettered(Range(Notices)) /\ Lettered(Range(Forwarded))
  BY CalmTypes DEF Calm, Typed, Roles
<1>1. PICK m : m = Message("stop", StudentControl.request)
  OBVIOUS
<1>2. /\ StudentControl.request \in Nat
      /\ m \in Letters /\ m.kind = "stop" /\ m.n = StudentControl.request
  <2>1. StudentControl \in Controlled
    BY <1>0 DEF ClickStop, StudentControl, AppRecords
  <2> QED BY <1>1, <2>1 DEF Message, Letters, Controlled
<1>3. Legal(Inactive) /\ Inactive.request \notin Nat
  BY RemoteControlAssumption DEF Legal, Inactive
<1>4. StudentSays(m, Inactive) /\ held' = {}
  BY <1>1, <1>2 DEF ClickStop, Let, StudentSays, InSession, StudentControl
<1>5. /\ Connected' /\ InOrder' /\ Keyboard'
      /\ Range(Replies') = Range(Replies) \cup {m}
      /\ Orders' = Orders /\ Notices' = Notices /\ Forwarded' = Forwarded
      /\ ProfessorControl' = ProfessorControl /\ StudentControl' = Inactive
  BY <1>2, <1>4, StudentSaysLemma
<1>6. Balanced'
  <2> DEFINE t == ProfessorControl
             s == StudentControl
             tu == Range(Orders)
             su == Range(Replies)
             td == Range(Notices)
             sd == Range(Forwarded)
             l == left["request"]
  <2>1. /\ Ordered(t, server.auth, s, tu, su, td, sd, l)
        /\ Agreed(t, server.auth, s, tu, su, td, sd, server.ended)
    BY <1>0 DEF Balanced
  <2>2. /\ Ordered(t, server.auth, Inactive, tu, su \cup {m}, td, sd, l)
        /\ Agreed(t, server.auth, Inactive, tu, su \cup {m}, td, sd, server.ended)
    <3> HIDE DEF t, s, tu, su, td, sd, l
    <3>1. /\ Legal(t) /\ Legal(server.auth) /\ Legal(s) /\ s.request \in Nat
          /\ Lettered(tu) /\ Lettered(su) /\ Lettered(td) /\ Lettered(sd) /\ l \in Nat
          /\ m.n = s.request
      BY <1>0, <1>2 DEF t, s, tu, su, td, sd, l
    <3> QED BY <1>2, <1>3, <2>1, <3>1, StudentStopAgrees
  <2> QED BY <1>4, <1>5, <2>2 DEF Balanced, StudentSays
<1> QED BY <1>5, <1>6 DEF Calm

\* What asks for the end of the attendance is about no control.
LEMMA EndSaidAgrees ==
    ASSUME NEW t, NEW a, NEW s, NEW tu, NEW su, NEW td, NEW sd, NEW l \in Nat, NEW over,
           Ordered(t, a, s, tu, su, td, sd, l), Agreed(t, a, s, tu, su, td, sd, over),
           NEW M, NEW N, \A m \in M \cup N : m.kind = "end"
    PROVE  /\ Ordered(t, a, s, tu \cup M, su \cup N, td, sd, l)
           /\ Agreed(t, a, s, tu \cup M, su \cup N, td, sd, over)
<1>1. Ordered(t, a, s, tu \cup M, su \cup N, td, sd, l)
  BY DEF Ordered, Above, Below, Steps
<1>2. Agreed(t, a, s, tu \cup M, su \cup N, td, sd, over)
  BY DEF Agreed, Has, Ends
<1> QED BY <1>1, <1>2

\* Somebody asks for the end of the attendance.
LEMMA ClickEndIsCalm ==
    ASSUME Typed, Undisturbed, Calm, NEW r \in Roles, ClickEnd(r)
    PROVE  Calm'
<1>0. /\ Connected /\ InOrder /\ Balanced /\ Keyboard
      /\ "teacher" \in Roles /\ "student" \in Roles /\ Roles = {"teacher", "student"}
      /\ Orders \in Seq(Letters) /\ Forwarded \in Seq(Letters)
      /\ left["request"] \in Nat
  BY CalmTypes DEF Calm, Roles
<1>1. PICK m : m = Message("end", None)
  OBVIOUS
<1>2. m \in Letters /\ m.kind = "end" /\ m.n = None
  BY <1>1 DEF Message, Letters, Tokens
<1>3. /\ up' = Sent(up, r, m) /\ app' = app
      /\ server' = server /\ pressed' = pressed /\ held' = held /\ stuck' = stuck /\ down' = down
      /\ left'["request"] = left["request"]
  BY <1>1, UsedLemma DEF ClickEnd, Bounded
<1>4. /\ up'[r][1] = Append(up[r][1], m) /\ Range(up'[r][1]) = Range(up[r][1]) \cup {m}
      /\ \A p \in Roles, z \in Sockets : p # r \/ z # 1 => up'[p][z] = up[p][z]
  BY <1>2, <1>3, SentCalm
<1>5. 1 \in Sockets /\ Notices' = Notices /\ Forwarded' = Forwarded
      /\ ProfessorControl' = ProfessorControl /\ StudentControl' = StudentControl
  BY <1>3, RemoteControlAssumption DEF Notices, Forwarded, ProfessorControl, StudentControl
<1>6. Connected'
  <2>1. ASSUME NEW p \in Roles PROVE Steady(p)
    <3>1. /\ \A x \in Range(up'[p][1]) : x \in Range(up[p][1]) \/ x = m
          /\ \A z \in Sockets \ {1} : up'[p][z] = up[p][z]
      BY <1>4, <1>5
    <3>2. m.kind \in Said[p]
      BY <1>0, <1>2 DEF Said
    <3> QED BY <1>2, <1>3, <3>1, <3>2 DEF Steady
  <2> QED BY <1>3, <2>1, <1>0, ConnectedKept
<1>7. /\ \/ r = "teacher" /\ Orders' = Append(Orders, m) /\ Replies' = Replies
         \/ r = "student" /\ Orders' = Orders
      /\ \/ Range(Orders') = Range(Orders) \cup {m} /\ Range(Replies') = Range(Replies)
         \/ Range(Orders') = Range(Orders) /\ Range(Replies') = Range(Replies) \cup {m}
  BY <1>0, <1>4, <1>5 DEF Orders, Replies
<1>8. InOrder'
  <2>1. \A x \in Range(Orders) : Follows(x, m)
    <3>1. \A x \in Range(Orders) : x.kind # "ended"
      BY <1>0 DEF Connected, Online, Orders, Said
    <3> QED BY <1>2, <3>1 DEF Follows, Steps
  <2>2. Sorted(Append(Orders, m))
    BY <1>0, <1>2, <2>1, SortedAppend DEF InOrder
  <2> QED BY <1>0, <1>5, <1>7, <2>2 DEF InOrder
<1>9. Balanced'
  <2> DEFINE t == ProfessorControl
             a == server.auth
             s == StudentControl
             tu == Range(Orders)
             su == Range(Replies)
             td == Range(Notices)
             sd == Range(Forwarded)
             l == left["request"]
  <2>1. /\ Ordered(t, a, s, tu, su, td, sd, l)
        /\ Agreed(t, a, s, tu, su, td, sd, server.ended)
    BY <1>0 DEF Balanced
  <2>2. \A M, N : (\A x \in M \cup N : x.kind = "end") =>
          /\ Ordered(t, a, s, tu \cup M, su \cup N, td, sd, l)
          /\ Agreed(t, a, s, tu \cup M, su \cup N, td, sd, server.ended)
    <3> HIDE DEF t, a, s, tu, su, td, sd, l
    <3> SUFFICES ASSUME NEW M, NEW N, \A x \in M \cup N : x.kind = "end"
                 PROVE  /\ Ordered(t, a, s, tu \cup M, su \cup N, td, sd, l)
                        /\ Agreed(t, a, s, tu \cup M, su \cup N, td, sd, server.ended)
      OBVIOUS
    <3>1. l \in Nat
      BY <1>0 DEF l
    <3> QED BY <2>1, <3>1, EndSaidAgrees
  <2>3. PICK M, N : /\ \A x \in M \cup N : x.kind = "end"
                    /\ Range(Orders') = tu \cup M /\ Range(Replies') = su \cup N
    <3>1. tu \cup {} = tu /\ su \cup {} = su
      OBVIOUS
    <3>2. (\A x \in {m} \cup {} : x.kind = "end") /\ (\A x \in {} \cup {m} : x.kind = "end")
      BY <1>2
    <3> QED BY <1>7, <3>1, <3>2
  <2>4. /\ Ordered(t, a, s, Range(Orders'), Range(Replies'), td, sd, l)
        /\ Agreed(t, a, s, Range(Orders'), Range(Replies'), td, sd, server.ended)
    BY <2>2, <2>3
  <2> QED BY <1>3, <1>5, <2>4 DEF Balanced
<1>10. Keyboard'
  <2>1. /\ \A i \in Nat : KeysKept(i, Orders, Orders') /\ KeysKept(i, Forwarded, Forwarded')
    BY <1>0, <1>2, <1>5, <1>7, KeysKeptLemma
  <2>2. Unstroked
    BY <1>2, <1>3, <1>5, <1>7, <2>1 DEF Unstroked
  <2> QED BY <1>0, <2>2, KeyboardKept
<1> QED BY <1>6, <1>8, <1>9, <1>10 DEF Calm

\* The keys that are let go of are all those that are down.
LEMMA ReleasesLift ==
    ASSUME Typed, Controls, NEW k \in pressed
    PROVE  /\ Lifts(Range(Releases), ProfessorControl.request, k)
           /\ \A m \in Range(Releases) : m.n = ProfessorControl.request
<1>1. IsFiniteSet(pressed)
  BY DEF Typed
<1>2. k \in Range(SetToSeq(pressed))
  BY <1>1, ListedLemma
<1>3. PICK i \in DOMAIN SetToSeq(pressed) : SetToSeq(pressed)[i] = k
  BY <1>2 DEF Range
<1>4. /\ Releases[i] = Input("keyup", ProfessorControl.request, k)
      /\ i \in DOMAIN Releases
  BY <1>3 DEF Releases, ProfessorControl
<1>5. Releases[i] \in Range(Releases)
  BY <1>4 DEF Range
<1>6. \A m \in Range(Releases) : m.n = ProfessorControl.request
  BY DEF Releases, ProfessorControl, Range, Input
<1> QED BY <1>4, <1>5, <1>6 DEF Lifts, Input

\* What the professor's keys send leaves all but the keys alone.
TypeSends(more) ==
    /\ Orders' = Orders \o more
    /\ \A p \in Roles, z \in Sockets : p # "teacher" \/ z # 1 => up'[p][z] = up[p][z]
    /\ \A m \in Range(more) : /\ m.kind \in {"keydown", "keyup"}
                              /\ m.n = ProfessorControl.request
    /\ server' = server /\ app' = app /\ held' = held /\ stuck' = stuck /\ down' = down
    /\ left'["request"] = left["request"]
    /\ Controls

\* It keeps what is known of the messages.
LEMMA TypeSendsLemma ==
    ASSUME Typed, Undisturbed, Calm, NEW more \in Seq(Letters), TypeSends(more)
    PROVE  /\ Connected' /\ InOrder' /\ Balanced'
           /\ Range(Orders') = Range(Orders) \cup Range(more)
<1>0. /\ Connected /\ InOrder /\ Balanced /\ Keyboard
      /\ "teacher" \in Roles /\ "student" \in Roles /\ Roles = {"teacher", "student"}
      /\ Orders \in Seq(Letters)
  BY CalmTypes DEF Calm, Roles
<1>t. /\ Legal(ProfessorControl) /\ Legal(server.auth) /\ Legal(StudentControl)
      /\ Lettered(Range(Orders)) /\ Lettered(Range(Replies))
      /\ Lettered(Range(Notices)) /\ Lettered(Range(Forwarded))
      /\ left["request"] \in Nat
  BY <1>0, CalmTypes
<1>1. ProfessorControl.request \in Nat
  BY <1>t DEF TypeSends, Controls, ProfessorControl, Legal
<1>2. Range(Orders') = Range(Orders) \cup Range(more)
  BY <1>0, ConcatLemma DEF TypeSends
<1>3. 1 \in Sockets /\ Replies' = Replies /\ Notices' = Notices /\ Forwarded' = Forwarded
      /\ ProfessorControl' = ProfessorControl /\ StudentControl' = StudentControl
  BY <1>0, RemoteControlAssumption
     DEF TypeSends, Replies, Notices, Forwarded, ProfessorControl, StudentControl
<1>4. Connected'
  <2>1. Steady("student")
    BY <1>0, <1>3 DEF Steady, TypeSends, Replies
  <2>2. Steady("teacher")
    BY <1>0, <1>2 DEF Steady, TypeSends, Orders, Said
  <2> QED BY <1>0, <2>1, <2>2, ConnectedKept DEF TypeSends
<1>5. InOrder'
  <2>1. \A x \in Range(Orders) \cup Range(more), y \in Range(more) : Follows(x, y)
    <3>1. \A x \in Range(Orders) : x.kind # "ended"
      BY <1>0 DEF Connected, Online, Orders, Said
    <3>2. Below(ProfessorControl.request, Range(Orders), {"stop"})
      BY <1>0 DEF Balanced, Ordered
    <3> QED BY <1>1, <1>t, <3>1, <3>2 DEF Follows, Below, Lettered, TypeSends
  <2>2. Sorted(Orders')
    BY <1>0, <2>1, SortedConcat DEF InOrder, TypeSends
  <2> QED BY <1>0, <1>3, <2>2 DEF InOrder
<1>6. Balanced'
  <2> DEFINE t == ProfessorControl
             a == server.auth
             s == StudentControl
             tu == Range(Orders)
             su == Range(Replies)
             td == Range(Notices)
             sd == Range(Forwarded)
             l == left["request"]
             M == Range(more)
  <2>1. /\ Ordered(t, a, s, tu, su, td, sd, l)
        /\ Agreed(t, a, s, tu, su, td, sd, server.ended)
    BY <1>0 DEF Balanced
  <2>2. /\ Ordered(t, a, s, tu \cup M, su, td, sd, l)
        /\ Agreed(t, a, s, tu \cup M, su, td, sd, server.ended)
    <3>1. \A m \in M : m.kind \in {"keydown", "keyup"} /\ m.n = t.request
      BY DEF TypeSends
    <3> HIDE DEF t, a, s, tu, su, td, sd, l, M
    <3>2. /\ Legal(t) /\ Legal(a) /\ Legal(s) /\ t.request \in Nat
          /\ Lettered(tu) /\ Lettered(su) /\ Lettered(td) /\ Lettered(sd) /\ l \in Nat
      BY <1>t, <1>1 DEF t, a, s, tu, su, td, sd, l
    <3> QED BY <2>1, <3>1, <3>2, TypeAgrees
  <2> QED BY <1>2, <1>3, <2>2 DEF Balanced, TypeSends
<1> QED BY <1>2, <1>4, <1>5, <1>6

\* An application in control is in the attendance.
LEMMA ControlsInSession ==
    ASSUME Undisturbed, Connected, Controls
    PROVE  InSession("teacher")
<1>1. Online("teacher") /\ app["teacher"].online
  BY DEF Connected, Undisturbed, Roles
<1>2. app["teacher"].control # Inactive
  BY DEF Controls, Inactive
<1> QED BY <1>1, <1>2 DEF Online, InSession

\* A key goes down or up.
LEMMA StrokeIsCalm ==
    ASSUME Typed, Undisturbed, Calm, NEW kind \in {"keydown", "keyup"}, NEW k \in Keys,
           Stroke(kind, k)
    PROVE  Calm'
<1>0. /\ Connected /\ Keyboard /\ "teacher" \in Roles /\ 1 \in Sockets
      /\ Orders \in Seq(Letters) /\ Legal(ProfessorControl)
  BY CalmTypes, RemoteControlAssumption DEF Calm
<1>1. PICK q, m : q = ProfessorControl.request /\ m = Input(kind, q, k)
  OBVIOUS
<1>2. /\ ProfessorControl.status = "active" /\ q \in Nat
      /\ m \in Letters /\ m.kind = kind /\ m.n = q /\ m.key = k
  BY <1>0, <1>1 DEF Stroke, Controls, ProfessorControl, Legal, Input, Letters
<1>3. /\ up' = Sent(up, "teacher", m)
      /\ pressed' = IF kind = "keydown" THEN pressed \cup {k} ELSE pressed \ {k}
      /\ server' = server /\ app' = app /\ held' = held /\ stuck' = stuck /\ down' = down
      /\ left'["request"] = left["request"]
  BY <1>0, <1>1, UsedLemma, ControlsInSession DEF Stroke, ProfessorControl, Bounded
<1>4. /\ Orders' = Append(Orders, m)
      /\ \A p \in Roles, z \in Sockets : p # "teacher" \/ z # 1 => up'[p][z] = up[p][z]
  BY <1>0, <1>2, <1>3, SentCalm DEF Orders
<1>5. /\ <<m>> \in Seq(Letters) /\ Range(<<m>>) = {m}
      /\ Append(Orders, m) = Orders \o <<m>>
  BY <1>0, <1>2 DEF Range
<1>6. TypeSends(<<m>>)
  BY <1>1, <1>2, <1>3, <1>4, <1>5 DEF TypeSends, Stroke
<1>7. /\ Connected' /\ InOrder' /\ Balanced' /\ Range(Orders') = Range(Orders) \cup {m}
  BY <1>5, <1>6, TypeSendsLemma
<1>8. /\ Forwarded' = Forwarded /\ StudentControl' = StudentControl
      /\ ProfessorControl' = ProfessorControl
  BY <1>3 DEF Forwarded, StudentControl, ProfessorControl
<1>9. ASSUME server.auth.request = q, NEW j \in Keys \ pressed'
      PROVE  Released(q, j)'
  <2>1. CASE j = k
    <3>1. kind = "keyup"
      BY <1>3, <1>9, <2>1
    <3>2. Lifts(Range(Orders'), q, j)
      BY <1>2, <1>7, <2>1, <3>1 DEF Lifts
    <3>3. Settled(Orders', q, j)
      BY <1>0, <1>2, <1>4, <2>1, <3>1, SettledAppend
    <3> QED BY <3>2, <3>3 DEF Released, Lifts
  <2>2. CASE j # k
    <3>1. j \in Keys \ pressed
      BY <1>3, <1>9, <2>2
    <3>2. Released(q, j)
      BY <1>0, <1>1, <1>2, <1>9, <3>1 DEF Keyboard
    <3>3. Settled(Orders', q, j)
      BY <1>0, <1>2, <1>4, <2>2, <3>2, SettledAppend DEF Released
    <3> QED BY <1>3, <1>7, <1>8, <3>2, <3>3 DEF Released, Lifts
  <2> QED BY <2>1, <2>2
<1>10. Keyboard'
  BY <1>0, <1>1, <1>2, <1>3, <1>8, <1>9 DEF Keyboard
<1> QED BY <1>7, <1>10 DEF Calm

\* The professor's window loses the focus.
LEMMA FocusLostIsCalm ==
    ASSUME Typed, Undisturbed, Calm, FocusLost
    PROVE  Calm'
<1>0. /\ Connected /\ Keyboard /\ "teacher" \in Roles /\ 1 \in Sockets
      /\ Orders \in Seq(Letters) /\ Legal(ProfessorControl) /\ Controls
      /\ up \in [Roles -> [Sockets -> Seq(Letters)]] /\ app["teacher"].socket = 1
  BY CalmTypes, RemoteControlAssumption DEF Calm, FocusLost, Typed, Undisturbed
<1>1. PICK q : q = ProfessorControl.request
  OBVIOUS
<1>2. ProfessorControl.status = "active" /\ q \in Nat
  BY <1>0, <1>1 DEF Controls, ProfessorControl, Legal
<1>3. /\ up' = [up EXCEPT !["teacher"][1] = @ \o Releases]
      /\ pressed' = {} /\ server' = server /\ app' = app /\ held' = held /\ stuck' = stuck /\ down' = down
      /\ left' = left
  BY <1>0, ControlsInSession DEF FocusLost, Releases
<1>4. /\ Releases \in Seq(Letters)
      /\ \A m \in Range(Releases) : m.kind = "keyup" /\ m.n = q
      /\ \A k \in pressed : Lifts(Range(Releases), q, k)
  <2>1. pressed # {}
    BY DEF FocusLost
  <2> QED BY <1>0, <1>1, <2>1, ReleasesLemma, ReleasesLift
<1>5. /\ Orders' = Orders \o Releases
      /\ \A p \in Roles, z \in Sockets : p # "teacher" \/ z # 1 => up'[p][z] = up[p][z]
  BY <1>0, <1>3 DEF Orders
<1>6. PICK more : more = Releases
  OBVIOUS
<1>7. TypeSends(more)
  BY <1>0, <1>1, <1>3, <1>4, <1>5, <1>6 DEF TypeSends
<1>8. /\ Connected' /\ InOrder' /\ Balanced' /\ Range(Orders') = Range(Orders) \cup Range(more)
  BY <1>4, <1>6, <1>7, TypeSendsLemma
<1>9. /\ Forwarded' = Forwarded /\ StudentControl' = StudentControl
      /\ ProfessorControl' = ProfessorControl
  BY <1>3 DEF Forwarded, StudentControl, ProfessorControl
<1>10. ASSUME server.auth.request = q, NEW j \in Keys
       PROVE  Released(q, j)'
  <2>1. CASE j \in pressed
    <3>1. Lifts(Range(Orders'), q, j)
      BY <1>4, <1>6, <1>8, <2>1 DEF Lifts
    <3>2. Settled(Orders', q, j)
      BY <1>0, <1>4, <1>5, <1>6, <2>1, SettledConcat
    <3> QED BY <3>1, <3>2 DEF Released, Lifts
  <2>2. CASE j \notin pressed
    <3>1. Released(q, j)
      BY <1>0, <1>1, <1>2, <1>10, <2>2 DEF Keyboard
    <3>2. Settled(Orders', q, j)
      BY <1>0, <1>4, <1>5, <1>6, <3>1, SettledConcat DEF Released
    <3> QED BY <1>3, <1>8, <1>9, <3>1, <3>2 DEF Released, Lifts
  <2> QED BY <2>1, <2>2
<1>11. Keyboard'
  BY <1>0, <1>1, <1>2, <1>3, <1>9, <1>10 DEF Keyboard
<1> QED BY <1>8, <1>11 DEF Calm

\* What a handler of the gateway does to everything but the authorization: it
\* takes at most one message from each application and tells each at most one,
\* while the attendance lasts.
Gateway ==
    /\ \A r \in Roles :
          /\ \A z \in Sockets \ {1} : up'[r][z] = up[r][z]
          /\ up'[r][1] = up[r][1] \/ (up[r][1] # <<>> /\ up'[r][1] = Tail(up[r][1]))
          /\ \/ down'[r] = down[r]
             \/ \E m \in Letters :
                   /\ ~server.ended /\ down'[r] = Append(down[r], m)
                   /\ m.kind \in Told[r] \ {"started", "ended"}
                   /\ \A x \in Range(down[r]) : Follows(x, m)
    /\ server'.due = server.due /\ server'.ended = server.ended
    /\ server'.seat = server.seat
    /\ server.ended => server'.auth = server.auth
    /\ app' = app /\ pressed' = pressed /\ held' = held /\ stuck' = stuck

\* The order of the messages and the connections survive it.
LEMMA GatewayLemma ==
    ASSUME Typed, Calm, Gateway
    PROVE  /\ Connected' /\ InOrder'
           /\ ProfessorControl' = ProfessorControl /\ StudentControl' = StudentControl
<1>0. /\ Connected /\ InOrder /\ up \in [Roles -> [Sockets -> Seq(Letters)]]
      /\ down \in [Roles -> Seq(Letters)] /\ 1 \in Sockets
      /\ "teacher" \in Roles /\ "student" \in Roles
  BY RemoteControlAssumption DEF Calm, Typed, Roles
<1>1. ProfessorControl' = ProfessorControl /\ StudentControl' = StudentControl
  BY DEF Gateway, ProfessorControl, StudentControl
<1>2. \A r \in Roles : Range(up'[r][1]) \subseteq Range(up[r][1])
  <2>1. SUFFICES ASSUME NEW r \in Roles PROVE Range(up'[r][1]) \subseteq Range(up[r][1])
    OBVIOUS
  <2>2. CASE up'[r][1] = up[r][1]
    BY <2>2
  <2>3. CASE up[r][1] # <<>> /\ up'[r][1] = Tail(up[r][1])
    BY <1>0, <2>3, TailLemma
  <2> QED BY <2>2, <2>3 DEF Gateway
<1>3. ASSUME NEW r \in Roles PROVE Steady(r)
  <2>1. CASE down'[r] = down[r]
    BY <1>2, <2>1 DEF Steady, Gateway
  <2>2. ASSUME NEW m \in Letters, ~server.ended, down'[r] = Append(down[r], m),
               m.kind \in Told[r] \ {"started", "ended"}
        PROVE  Steady(r)
    <3>1. Range(down'[r]) = Range(down[r]) \cup {m}
      BY <1>0, <2>2, AppendLemma
    <3> QED BY <1>2, <2>2, <3>1 DEF Steady, Gateway
  <2> QED BY <2>1, <2>2 DEF Gateway
<1>4. Connected'
  BY <1>0, <1>3, ConnectedKept DEF Gateway
<1>5. ASSUME NEW r \in Roles, Sorted(down[r]) PROVE Sorted(down'[r])
  <2>1. CASE down'[r] = down[r]
    BY <1>5, <2>1
  <2>2. ASSUME NEW m \in Letters, down'[r] = Append(down[r], m),
               \A x \in Range(down[r]) : Follows(x, m)
        PROVE  Sorted(down'[r])
    BY <1>0, <1>5, <2>2, SortedAppend
  <2> QED BY <2>1, <2>2 DEF Gateway
<1>6. Sorted(Orders')
  <2>1. CASE Orders' = Orders
    BY <1>0, <2>1 DEF InOrder
  <2>2. CASE Orders # <<>> /\ Orders' = Tail(Orders)
    BY <1>0, <2>2, SortedTail DEF InOrder, Orders
  <2> QED BY <1>0, <2>1, <2>2 DEF Gateway, Orders
<1> QED BY <1>0, <1>1, <1>4, <1>5, <1>6 DEF InOrder, Notices, Forwarded

\* Taking a message of the professor's from the head of the queue.
LEMMA TakesCalm ==
    ASSUME Typed, Calm, NEW s \in Sockets, NEW kinds, Hears("teacher", s, kinds)
    PROVE  /\ s = 1 /\ Heard("teacher", s) \in Letters
           /\ Heard("teacher", s) = Head(Orders) /\ Heard("teacher", s) \in Range(Orders)
           /\ Heard("teacher", s).kind \in kinds \cap Said["teacher"]
           /\ Heard("teacher", s).kind = "end" => Heard("teacher", s).n = None
           /\ Orders # <<>> /\ Orders' = Tail(Orders)
           /\ Range(Orders) = {Heard("teacher", s)} \cup Range(Orders')
           /\ \A x \in Range(Orders') : Follows(Heard("teacher", s), x)
           /\ Replies' = Replies
           /\ \A p \in Roles, z \in Sockets : p # "teacher" \/ z # 1 => up'[p][z] = up[p][z]
<1>0. Connected /\ InOrder /\ "teacher" \in Roles /\ "student" \in Roles /\ 1 \in Sockets
      /\ Orders \in Seq(Letters)
  BY CalmTypes, RemoteControlAssumption DEF Calm
<1>1. /\ s = 1 /\ up["teacher"][1] # <<>>
      /\ Heard("teacher", 1) \in Letters /\ Heard("teacher", 1).kind \in kinds \cap Said["teacher"]
      /\ Heard("teacher", 1).kind = "end" => Heard("teacher", 1).n = None
      /\ Heard("teacher", 1) = Head(up["teacher"][1])
      /\ Heard("teacher", 1) \in Range(up["teacher"][1])
      /\ up'["teacher"][1] = Tail(up["teacher"][1])
      /\ Range(up["teacher"][1]) = {Heard("teacher", 1)} \cup Range(up'["teacher"][1])
      /\ \A p \in Roles, z \in Sockets : p # "teacher" \/ z # 1 => up'[p][z] = up[p][z]
  BY <1>0, HearsCalm
<1>2. Orders # <<>> /\ Orders' = Tail(Orders) /\ Heard("teacher", 1) = Head(Orders)
  BY <1>1 DEF Orders
<1>3. \A x \in Range(Orders') : Follows(Head(Orders), x)
  BY <1>0, <1>2, SortedTail DEF InOrder
<1> QED BY <1>0, <1>1, <1>2, <1>3 DEF Orders, Replies

\* Taking a message of the student's.
LEMMA HearsStudentCalm ==
    ASSUME Typed, Calm, NEW s \in Sockets, NEW kinds, Hears("student", s, kinds)
    PROVE  /\ s = 1 /\ Heard("student", s) \in Letters
           /\ Heard("student", s) \in Range(Replies)
           /\ Heard("student", s).kind \in kinds \cap Said["student"]
           /\ Heard("student", s).kind = "end" => Heard("student", s).n = None
           /\ Replies # <<>> /\ Replies' = Tail(Replies)
           /\ Range(Replies) = {Heard("student", s)} \cup Range(Replies')
           /\ Orders' = Orders
           /\ \A p \in Roles, z \in Sockets : p # "student" \/ z # 1 => up'[p][z] = up[p][z]
<1>0. Connected /\ "teacher" \in Roles /\ "student" \in Roles /\ 1 \in Sockets
  BY CalmTypes, RemoteControlAssumption DEF Calm
<1>1. /\ s = 1 /\ up["student"][1] # <<>>
      /\ Heard("student", 1) \in Letters /\ Heard("student", 1).kind \in kinds \cap Said["student"]
      /\ Heard("student", 1).kind = "end" => Heard("student", 1).n = None
      /\ Heard("student", 1) \in Range(up["student"][1])
      /\ up'["student"][1] = Tail(up["student"][1])
      /\ Range(up["student"][1]) = {Heard("student", 1)} \cup Range(up'["student"][1])
      /\ \A p \in Roles, z \in Sockets : p # "student" \/ z # 1 => up'[p][z] = up[p][z]
  BY <1>0, HearsCalm
<1> QED BY <1>0, <1>1 DEF Orders, Replies

\* While the attendance lasts everybody is heard.
LEMMA RoutedCalm ==
    ASSUME Connected, NEW r \in Roles
    PROVE  Routed(r, 1) <=> ~server.ended
<1>1. Peer(r) \in Roles
  BY DEF Roles, Peer
<1>2. 1 # None
  BY RemoteControlAssumption
<1> QED BY <1>1, <1>2 DEF Connected, Routed

\* The keys survive it, as long as none of them is passed on or dropped that counts.
LEMMA GatewayKeyboard ==
    ASSUME Typed, Calm, Gateway,
           \/ Orders' = Orders
           \/ ~(/\ Head(Orders).kind = "keyup"
                /\ Is(ProfessorControl, Head(Orders).n, "active")
                /\ server.auth.request = Head(Orders).n),
           \/ Forwarded' = Forwarded
           \/ \E m \in Letters : /\ Forwarded' = Append(Forwarded, m)
                                 /\ m.kind \notin {"keydown", "keyup"},
           \/ server'.auth.request = server.auth.request
           \/ server'.auth.request \notin Nat
           \/ ~Is(ProfessorControl, server'.auth.request, "active")
    PROVE  Keyboard'
<1>0. /\ Connected /\ Keyboard /\ Orders \in Seq(Letters) /\ Forwarded \in Seq(Letters)
      /\ Legal(ProfessorControl) /\ "teacher" \in Roles
  BY CalmTypes DEF Calm
<1>1. ProfessorControl' = ProfessorControl /\ StudentControl' = StudentControl
  BY GatewayLemma
<1>2. Orders' = Orders \/ (Orders # <<>> /\ Orders' = Tail(Orders))
  BY <1>0 DEF Gateway, Orders
<1>3. \A q \in Nat : server.auth.request = q /\ Is(ProfessorControl, q, "active") =>
          KeysKept(q, Orders, Orders')
  BY <1>0, <1>2, KeysKeptLemma
<1>4. \A q : KeysKept(q, Forwarded, Forwarded')
  BY <1>0, KeysKeptLemma
<1>5. \A m \in Range(Orders') : m \in Range(Orders)
  BY <1>0, <1>2, TailLemma
<1>6. \A m \in Range(Forwarded') : m.kind \in {"keydown", "keyup"} => m \in Range(Forwarded)
  <2>1. ASSUME NEW m \in Letters, Forwarded' = Append(Forwarded, m)
        PROVE  Range(Forwarded') = Range(Forwarded) \cup {m}
    BY <1>0, <2>1, AppendLemma
  <2> QED BY <2>1
<1>7. /\ ProfessorControl.status = "active"
      /\ server'.auth.request = ProfessorControl.request
      => server'.auth.request = server.auth.request
  BY <1>0 DEF Is, Legal
<1>8. Unstroked
  BY <1>1, <1>3, <1>4, <1>5, <1>6, <1>7 DEF Unstroked, Gateway
<1> QED BY <1>0, <1>8, KeyboardKept

\* Telling one of them.
LEMMA ToldStudent ==
    ASSUME Typed, Undisturbed, Connected, ~server.ended, NEW m \in Letters,
           down' = Emitted(down, "student", server.seat["student"], m)
    PROVE  /\ Forwarded' = Append(Forwarded, m) /\ Notices' = Notices
           /\ Range(Forwarded') = Range(Forwarded) \cup {m}
<1>1. down \in [Roles -> Seq(Letters)] /\ "teacher" \in Roles /\ "student" \in Roles
  BY DEF Typed, Roles
<1>2. Emitted(down, "student", server.seat["student"], m)
         = [down EXCEPT !["student"] = Append(down["student"], m)]
  BY <1>1 DEF Emitted, Undisturbed, Connected
<1>3. Forwarded' = Append(Forwarded, m) /\ Notices' = Notices
  BY <1>1, <1>2 DEF Forwarded, Notices
<1>4. Forwarded \in Seq(Letters)
  BY <1>1 DEF Forwarded
<1> QED BY <1>3, <1>4, AppendLemma

\* ... or the professor.
LEMMA ToldProfessor ==
    ASSUME Typed, Undisturbed, Connected, ~server.ended, NEW m \in Letters,
           down' = Emitted(down, "teacher", server.seat["teacher"], m)
    PROVE  /\ Notices' = Append(Notices, m) /\ Forwarded' = Forwarded
           /\ Range(Notices') = Range(Notices) \cup {m}
<1>1. down \in [Roles -> Seq(Letters)] /\ "teacher" \in Roles /\ "student" \in Roles
  BY DEF Typed, Roles
<1>2. Emitted(down, "teacher", server.seat["teacher"], m)
         = [down EXCEPT !["teacher"] = Append(down["teacher"], m)]
  BY <1>1 DEF Emitted, Undisturbed, Connected
<1>3. Notices' = Append(Notices, m) /\ Forwarded' = Forwarded
  BY <1>1, <1>2 DEF Forwarded, Notices
<1>4. Notices \in Seq(Letters)
  BY <1>1 DEF Notices
<1> QED BY <1>3, <1>4, AppendLemma

\* The gateway takes a request, or drops it.
LEMMA OnRequestIsCalm ==
    ASSUME Typed, Undisturbed, Calm, NEW s \in Sockets, OnRequest(s)
    PROVE  Calm'
<1>0. /\ Connected /\ InOrder /\ Balanced /\ Keyboard
      /\ "teacher" \in Roles /\ "student" \in Roles /\ Roles = {"teacher", "student"}
      /\ down \in [Roles -> Seq(Letters)] /\ Forwarded \in Seq(Letters)
      /\ Legal(ProfessorControl) /\ Legal(server.auth) /\ Legal(StudentControl)
      /\ Lettered(Range(Orders)) /\ Lettered(Range(Replies))
      /\ Lettered(Range(Notices)) /\ Lettered(Range(Forwarded))
      /\ left["request"] \in Nat
  BY CalmTypes DEF Calm, Roles, Typed
<1>1. PICK h : h = Heard("teacher", s)
  OBVIOUS
<1>2. /\ s = 1 /\ h \in Letters /\ h = Head(Orders) /\ h \in Range(Orders)
      /\ h.kind = "request" /\ Orders # <<>> /\ Orders' = Tail(Orders)
      /\ Range(Orders) = {h} \cup Range(Orders')
      /\ \A x \in Range(Orders') : Follows(h, x)
      /\ Replies' = Replies
      /\ \A p \in Roles, z \in Sockets : p # "teacher" \/ z # 1 => up'[p][z] = up[p][z]
  <2>1. Hears("teacher", s, {"request"})
    BY DEF OnRequest
  <2> QED BY <1>1, <2>1, TakesCalm
<1>3. /\ app' = app /\ pressed' = pressed /\ held' = held /\ stuck' = stuck /\ left' = left
      /\ h.n \in Nat /\ Message("request", h.n) = h
  BY <1>2 DEF OnRequest, Message, Letters
<1> DEFINE t == ProfessorControl
           a == server.auth
           c == StudentControl
           tu == Range(Orders)
           su == Range(Replies)
           td == Range(Notices)
           sd == Range(Forwarded)
           l == left["request"]
<1>4. /\ Ordered(t, a, c, tu, su, td, sd, l)
      /\ Agreed(t, a, c, tu, su, td, sd, server.ended)
  BY <1>0 DEF Balanced
<1>5. /\ Legal(t) /\ Legal(a) /\ Legal(c) /\ l \in Nat
      /\ Lettered(tu) /\ Lettered(su) /\ Lettered(td) /\ Lettered(sd)
      /\ tu = {h} \cup Range(Orders')
  BY <1>0, <1>2
<1>6. CASE ~server.ended /\ server.auth = NoAuthorization
  <2>1. PICK b : b = Control(h.n, "pending")
    OBVIOUS
  <2>2. /\ server' = [server EXCEPT !.auth = b]
        /\ down' = Emitted(down, "student", server.seat["student"], h)
    BY <1>0, <1>1, <1>2, <1>3, <1>6, <2>1, RoutedCalm DEF OnRequest
  <2>3. Is(b, h.n, "pending") /\ b.request = h.n
    BY <2>1 DEF Control, Is
  <2>4. /\ server'.due = server.due /\ server'.ended = server.ended
        /\ server'.seat = server.seat /\ server'.auth = b
    BY <2>2 DEF Typed
  <2>5. /\ Forwarded' = Append(Forwarded, h) /\ Notices' = Notices
        /\ Range(Forwarded') = sd \cup {h}
    BY <1>0, <1>2, <1>6, <2>2, ToldStudent
  <2>6. \A x \in sd : Follows(x, h)
    <3>1. \A x \in sd : x.kind # "ended"
      BY <1>0, <1>6 DEF Connected, Online, Tells, Forwarded
    <3> HIDE DEF t, a, c, tu, su, td, sd, l
    <3> QED BY <1>2, <1>3, <1>4, <1>5, <3>1 DEF Ordered, Above, Follows, Lettered
  <2>7. Gateway
    <3>1. h.kind \in Told["student"] \ {"started", "ended"}
      BY <1>2 DEF Told
    <3> QED BY <1>0, <1>2, <1>3, <1>6, <2>4, <2>5, <2>6, <3>1
            DEF Gateway, Orders, Replies, Notices, Forwarded
  <2>8. /\ Connected' /\ InOrder' /\ t' = t /\ c' = c
    BY <2>7, GatewayLemma
  <2>9. a.request \notin Nat /\ h \in tu
    BY <1>2, <1>6, RemoteControlAssumption DEF NoAuthorization
  <2>10. /\ Ordered(t, b, c, Range(Orders'), su, td, sd \cup {h}, l)
         /\ Agreed(t, b, c, Range(Orders'), su, td, sd \cup {h}, server.ended)
    <3> HIDE DEF t, a, c, tu, su, td, sd, l
    <3> QED BY <1>2, <1>4, <1>5, <1>6, <2>3, <2>9, RequestAgrees
  <2>11. Balanced'
    BY <1>2, <1>3, <2>4, <2>5, <2>8, <2>10 DEF Balanced
  <2>12. ~Is(t, h.n, "active")
    <3> HIDE DEF t, a, c, tu, su, td, sd, l
    <3> QED BY <1>2, <1>3, <1>4, <1>5, <1>6, <2>9 DEF Ordered, Agreed, Below, Has, Is, Steps
  <2>13. Keyboard'
    BY <1>2, <2>3, <2>4, <2>5, <2>7, <2>12, GatewayKeyboard
  <2> QED BY <2>8, <2>11, <2>13 DEF Calm
<1>7. CASE server.ended \/ server.auth # NoAuthorization
  <2>1. server' = server /\ down' = down
    BY <1>0, <1>1, <1>2, <1>7, RoutedCalm DEF OnRequest
  <2>2. Gateway
    BY <1>0, <1>2, <1>3, <2>1 DEF Gateway, Orders, Replies
  <2>3. /\ Connected' /\ InOrder' /\ t' = t /\ c' = c
    BY <2>2, GatewayLemma
  <2>4. Notices' = Notices /\ Forwarded' = Forwarded
    BY <2>1 DEF Notices, Forwarded
  <2>5. server.ended \/ a.request \in Nat
    BY <1>7 DEF Typed, Controlled
  <2>6. server.ended => t.request \notin Nat \/ \E m \in td : m.kind = "ended"
    <3>1. Inactive.request \notin Nat
      BY RemoteControlAssumption DEF Inactive
    <3> QED BY <1>0, <3>1 DEF Connected, Online, Tells, Notices, ProfessorControl
  <2>7. /\ Ordered(t, a, c, Range(Orders'), su, td, sd, l)
        /\ Agreed(t, a, c, Range(Orders'), su, td, sd, server.ended)
    <3>1. h \in tu
      BY <1>2
    <3> HIDE DEF t, a, c, tu, su, td, sd, l
    <3> QED BY <1>2, <1>4, <1>5, <2>5, <2>6, <3>1, RequestDroppedAgrees
  <2>8. Balanced'
    BY <1>2, <1>3, <2>1, <2>3, <2>4, <2>7 DEF Balanced
  <2>9. Keyboard'
    BY <1>2, <2>1, <2>2, <2>4, GatewayKeyboard
  <2> QED BY <2>3, <2>8, <2>9 DEF Calm
<1> QED BY <1>6, <1>7

\* The gateway passes an answer on, or drops it.
LEMMA OnAnswerIsCalm ==
    ASSUME Typed, Undisturbed, Calm, NEW s \in Sockets, OnAnswer(s)
    PROVE  Calm'
<1>0. /\ Connected /\ Balanced
      /\ "teacher" \in Roles /\ "student" \in Roles /\ Roles = {"teacher", "student"}
      /\ Legal(ProfessorControl) /\ Legal(server.auth) /\ Legal(StudentControl)
      /\ Lettered(Range(Orders)) /\ Lettered(Range(Replies))
      /\ Lettered(Range(Notices)) /\ Lettered(Range(Forwarded))
      /\ left["request"] \in Nat
  BY CalmTypes DEF Calm, Roles
<1>1. PICK h : h = Heard("student", s)
  OBVIOUS
<1>2. /\ s = 1 /\ h \in Letters /\ h \in Range(Replies)
      /\ h.kind \in {"approved", "denied"} /\ Replies # <<>> /\ Replies' = Tail(Replies)
      /\ Range(Replies) = {h} \cup Range(Replies') /\ Orders' = Orders
      /\ \A p \in Roles, z \in Sockets : p # "student" \/ z # 1 => up'[p][z] = up[p][z]
  <2>1. Hears("student", s, {"approved", "denied"})
    BY DEF OnAnswer
  <2> QED BY <1>1, <2>1, HearsStudentCalm
<1>3. /\ app' = app /\ pressed' = pressed /\ held' = held /\ stuck' = stuck /\ left' = left
      /\ h.n \in Nat
  BY <1>2 DEF OnAnswer, Letters
<1> DEFINE t == ProfessorControl
           a == server.auth
           c == StudentControl
           tu == Range(Orders)
           su == Range(Replies)
           td == Range(Notices)
           sd == Range(Forwarded)
           l == left["request"]
<1>4. /\ Ordered(t, a, c, tu, su, td, sd, l)
      /\ Agreed(t, a, c, tu, su, td, sd, server.ended)
  BY <1>0 DEF Balanced
<1>5. /\ Legal(t) /\ Legal(a) /\ Legal(c) /\ l \in Nat
      /\ Lettered(tu) /\ Lettered(su) /\ Lettered(td) /\ Lettered(sd)
      /\ su = {h} \cup Range(Replies') /\ h \in su
  BY <1>0, <1>2
<1>6. Is(a, h.n, "pending") <=> Authorized(h.n, {"pending"})
  BY DEF Is, Authorized
<1>7. CASE ~server.ended /\ Is(a, h.n, "pending")
  <2>1. PICK b : b = IF h.kind = "approved" THEN Control(h.n, "active") ELSE NoAuthorization
    OBVIOUS
  <2>2. /\ server' = [server EXCEPT !.auth = b]
        /\ down' = Emitted(down, "teacher", server.seat["teacher"], h)
    BY <1>0, <1>1, <1>2, <1>6, <1>7, <2>1, RoutedCalm DEF OnAnswer
  <2>3. /\ Legal(b)
        /\ h.kind = "approved" => Is(b, h.n, "active")
        /\ h.kind = "denied" => b.request \notin Nat
    BY <1>2, <1>3, <2>1, RemoteControlAssumption DEF Control, Is, NoAuthorization, Legal
  <2>4. /\ server'.due = server.due /\ server'.ended = server.ended
        /\ server'.seat = server.seat /\ server'.auth = b
    BY <2>2 DEF Typed
  <2>5. /\ Notices' = Append(Notices, h) /\ Forwarded' = Forwarded
        /\ Range(Notices') = td \cup {h}
    BY <1>0, <1>2, <1>7, <2>2, ToldProfessor
  <2>6. \A x \in td : Follows(x, h)
    <3>1. \A x \in td : x.kind # "ended"
      BY <1>0, <1>7 DEF Connected, Online, Tells, Notices
    <3> HIDE DEF t, a, c, tu, su, td, sd, l
    <3> QED BY <1>2, <1>3, <1>4, <1>5, <1>7, <3>1
            DEF Ordered, Below, Follows, Lettered, Is, Steps
  <2>7. Gateway
    <3>1. h.kind \in Told["teacher"] \ {"started", "ended"}
      BY <1>2 DEF Told
    <3> QED BY <1>0, <1>2, <1>3, <1>7, <2>4, <2>5, <2>6, <3>1
            DEF Gateway, Orders, Replies, Notices, Forwarded
  <2>8. /\ Connected' /\ InOrder' /\ t' = t /\ c' = c
    BY <2>7, GatewayLemma
  <2>9. /\ Ordered(t, b, c, tu, Range(Replies'), td \cup {h}, sd, l)
        /\ Agreed(t, b, c, tu, Range(Replies'), td \cup {h}, sd, server.ended)
    <3> HIDE DEF t, a, c, tu, su, td, sd, l
    <3> QED BY <1>2, <1>4, <1>5, <1>7, <2>3, OnAnswerAgrees
  <2>10. Balanced'
    BY <1>2, <1>3, <2>4, <2>5, <2>8, <2>9 DEF Balanced
  <2>11. server'.auth.request = server.auth.request \/ server'.auth.request \notin Nat
    BY <1>2, <1>7, <2>3, <2>4 DEF Is
  <2>12. Keyboard'
    BY <1>2, <2>5, <2>7, <2>11, GatewayKeyboard
  <2> QED BY <2>8, <2>10, <2>12 DEF Calm
<1>8. CASE server.ended \/ ~Is(a, h.n, "pending")
  <2>1. server' = server /\ down' = down
    BY <1>0, <1>1, <1>2, <1>6, <1>8, RoutedCalm DEF OnAnswer
  <2>2. Gateway
    BY <1>0, <1>2, <1>3, <2>1 DEF Gateway, Orders, Replies
  <2>3. /\ Connected' /\ InOrder' /\ t' = t /\ c' = c
    BY <2>2, GatewayLemma
  <2>4. Notices' = Notices /\ Forwarded' = Forwarded
    BY <2>1 DEF Notices, Forwarded
  <2>5. ~Is(a, h.n, "pending")
    BY <1>0, <1>8 DEF Connected, Is, NoAuthorization
  <2>6. /\ Ordered(t, a, c, tu, Range(Replies'), td, sd, l)
        /\ Agreed(t, a, c, tu, Range(Replies'), td, sd, server.ended)
    <3> HIDE DEF t, a, c, tu, su, td, sd, l
    <3> QED BY <1>2, <1>4, <1>5, <2>5, AnswerDroppedAgrees
  <2>7. Balanced'
    BY <1>2, <1>3, <2>1, <2>3, <2>4, <2>6 DEF Balanced
  <2>8. Keyboard'
    BY <1>2, <2>1, <2>2, <2>4, GatewayKeyboard
  <2> QED BY <2>3, <2>7, <2>8 DEF Calm
<1> QED BY <1>7, <1>8

\* The gateway passes a key on, or drops it.
LEMMA OnInputIsCalm ==
    ASSUME Typed, Undisturbed, Calm, NEW s \in Sockets, OnInput(s)
    PROVE  Calm'
<1>0. /\ Connected /\ InOrder /\ Balanced /\ Keyboard
      /\ "teacher" \in Roles /\ "student" \in Roles /\ Roles = {"teacher", "student"}
      /\ Legal(ProfessorControl) /\ Legal(server.auth) /\ Legal(StudentControl)
      /\ Orders \in Seq(Letters) /\ Forwarded \in Seq(Letters)
      /\ Lettered(Range(Orders)) /\ Lettered(Range(Replies))
      /\ Lettered(Range(Notices)) /\ Lettered(Range(Forwarded))
      /\ left["request"] \in Nat
  BY CalmTypes DEF Calm, Roles
<1>1. PICK h : h = Heard("teacher", s)
  OBVIOUS
<1>2. /\ s = 1 /\ h \in Letters /\ h \in Range(Orders)
      /\ h.kind \in {"keydown", "keyup"} /\ Orders # <<>> /\ Orders' = Tail(Orders)
      /\ h = Head(Orders) /\ \A x \in Range(Orders') : Follows(h, x)
      /\ Range(Orders) = {h} \cup Range(Orders') /\ Replies' = Replies
      /\ \A p \in Roles, z \in Sockets : p # "teacher" \/ z # 1 => up'[p][z] = up[p][z]
  <2>1. Hears("teacher", s, {"keydown", "keyup"})
    BY DEF OnInput
  <2> QED BY <1>1, <2>1, TakesCalm
<1>3. /\ app' = app /\ pressed' = pressed /\ held' = held /\ stuck' = stuck /\ left' = left
      /\ h.n \in Nat
  BY <1>2 DEF OnInput, Letters
<1> DEFINE t == ProfessorControl
           a == server.auth
           c == StudentControl
           tu == Range(Orders)
           su == Range(Replies)
           td == Range(Notices)
           sd == Range(Forwarded)
           l == left["request"]
<1>4. /\ Ordered(t, a, c, tu, su, td, sd, l)
      /\ Agreed(t, a, c, tu, su, td, sd, server.ended)
  BY <1>0 DEF Balanced
<1>5. /\ Legal(t) /\ Legal(a) /\ Legal(c) /\ l \in Nat
      /\ Lettered(tu) /\ Lettered(su) /\ Lettered(td) /\ Lettered(sd)
      /\ tu = {h} \cup Range(Orders') /\ h \in tu
  BY <1>0, <1>2
<1>6. Is(a, h.n, "active") <=> Authorized(h.n, {"active"})
  BY DEF Is, Authorized
<1>7. server' = server
  BY DEF OnInput
<1>8. CASE ~server.ended /\ Is(a, h.n, "active")
  <2>1. down' = Emitted(down, "student", server.seat["student"], h)
    BY <1>0, <1>1, <1>2, <1>6, <1>8, RoutedCalm DEF OnInput
  <2>2. /\ Forwarded' = Append(Forwarded, h) /\ Notices' = Notices
        /\ Range(Forwarded') = sd \cup {h}
    BY <1>0, <1>2, <1>8, <2>1, ToldStudent
  <2>3. \A x \in sd : Follows(x, h)
    <3>1. \A x \in sd : x.kind # "ended"
      BY <1>0, <1>8 DEF Connected, Online, Tells, Forwarded
    <3> HIDE DEF t, a, c, tu, su, td, sd, l
    <3> QED BY <1>2, <1>3, <1>4, <1>5, <3>1 DEF Ordered, Above, Follows, Lettered
  <2>4. Gateway
    <3>1. h.kind \in Told["student"] \ {"started", "ended"}
      BY <1>2 DEF Told
    <3> QED BY <1>0, <1>2, <1>3, <1>7, <1>8, <2>2, <2>3, <3>1
            DEF Gateway, Orders, Replies, Notices, Forwarded
  <2>5. /\ Connected' /\ InOrder' /\ t' = t /\ c' = c
    BY <2>4, GatewayLemma
  <2>6. a.request = h.n
    BY <1>8 DEF Is
  <2>7. /\ Ordered(t, a, c, Range(Orders'), su, td, sd \cup {h}, l)
        /\ Agreed(t, a, c, Range(Orders'), su, td, sd \cup {h}, server.ended)
    <3> HIDE DEF t, a, c, tu, su, td, sd, l
    <3> QED BY <1>2, <1>4, <1>5, <2>6, OnInputAgrees
  <2>8. Balanced'
    BY <1>2, <1>3, <1>7, <2>2, <2>5, <2>7 DEF Balanced
  <2>9. Range(Orders') \cup Range(Forwarded') = Range(Orders) \cup Range(Forwarded)
    BY <1>2, <2>2
  <2>10. ASSUME NEW q, NEW k, Released(q, k) PROVE Released(q, k)'
    <3>1. Settled(Orders', q, k)
      BY <1>0, <1>2, <2>10, SettledTail DEF Released
    <3>2. k \in held \ stuck /\ Is(StudentControl, q, "active") =>
             Lifts(Range(Orders') \cup Range(Forwarded'), q, k)
      BY <2>9, <2>10 DEF Released
    <3>3. Settled(Forwarded', q, k) \/ Lifts(Range(Orders'), q, k)
      <4>1. CASE h.kind = "keydown" /\ h.n = q /\ h.key = k
        BY <1>0, <1>2, <2>10, <4>1, SettledTail DEF Released
      <4>2. CASE h.kind = "keyup" /\ h.n = q /\ h.key = k
        BY <1>0, <1>2, <2>2, <4>2, SettledAppend
      <4>3. CASE ~(h.n = q /\ h.key = k)
        <5>1. Settled(Forwarded, q, k) => Settled(Forwarded', q, k)
          BY <1>0, <1>2, <2>2, <4>3, SettledAppend
        <5>2. Lifts(Range(Orders), q, k) => Lifts(Range(Orders'), q, k)
          BY <1>2, <4>3 DEF Lifts
        <5> QED BY <2>10, <5>1, <5>2 DEF Released
      <4> QED BY <1>2, <4>1, <4>2, <4>3
    <3> QED BY <1>3, <2>5, <3>1, <3>2, <3>3 DEF Released
  <2>11. Keyboard'
    BY <1>0, <1>3, <1>7, <2>5, <2>9, <2>10 DEF Keyboard, Unheard
  <2> QED BY <2>5, <2>8, <2>11 DEF Calm
<1>9. CASE server.ended \/ ~Is(a, h.n, "active")
  <2>1. down' = down
    BY <1>0, <1>1, <1>2, <1>6, <1>9, RoutedCalm DEF OnInput
  <2>2. Gateway
    BY <1>0, <1>2, <1>3, <1>7, <2>1 DEF Gateway, Orders, Replies
  <2>3. /\ Connected' /\ InOrder' /\ t' = t /\ c' = c
    BY <2>2, GatewayLemma
  <2>4. Notices' = Notices /\ Forwarded' = Forwarded
    BY <2>1 DEF Notices, Forwarded
  <2>5. ~Is(a, h.n, "active")
    BY <1>0, <1>9 DEF Connected, Is, NoAuthorization
  <2>6. /\ Ordered(t, a, c, Range(Orders'), su, td, sd, l)
        /\ Agreed(t, a, c, Range(Orders'), su, td, sd, server.ended)
    <3> HIDE DEF t, a, c, tu, su, td, sd, l
    <3> QED BY <1>2, <1>4, <1>5, InputDroppedAgrees
  <2>7. Balanced'
    BY <1>2, <1>3, <1>7, <2>3, <2>4, <2>6 DEF Balanced
  <2>8. ~(Is(t, h.n, "active") /\ a.request = h.n)
    <3> HIDE DEF t, a, c, tu, su, td, sd, l
    <3> QED BY <1>3, <1>4, <1>5, <2>5 DEF Agreed, Is, Legal
  <2>9. Keyboard'
    BY <1>2, <1>7, <2>2, <2>4, <2>8, GatewayKeyboard
  <2> QED BY <2>3, <2>7, <2>9 DEF Calm
<1> QED BY <1>8, <1>9

\* A stop of the professor's, passed on or too late.
LEMMA OnStopIsCalm ==
    ASSUME Typed, Undisturbed, Calm, NEW s \in Sockets, OnStop("teacher", s)
    PROVE  Calm'
<1>0. /\ Connected /\ InOrder /\ Balanced /\ Keyboard
      /\ "teacher" \in Roles /\ "student" \in Roles /\ Roles = {"teacher", "student"}
      /\ Legal(ProfessorControl) /\ Legal(server.auth) /\ Legal(StudentControl)
      /\ Orders \in Seq(Letters) /\ Forwarded \in Seq(Letters)
      /\ Lettered(Range(Orders)) /\ Lettered(Range(Replies))
      /\ Lettered(Range(Notices)) /\ Lettered(Range(Forwarded))
      /\ left["request"] \in Nat
  BY CalmTypes DEF Calm, Roles
<1>1. PICK h : h = Heard("teacher", s)
  OBVIOUS
<1>2. /\ s = 1 /\ h \in Letters /\ h \in Range(Orders)
      /\ h.kind \in {"stop"} /\ Orders # <<>> /\ Orders' = Tail(Orders)
      /\ h = Head(Orders) /\ \A x \in Range(Orders') : Follows(h, x)
      /\ Range(Orders) = {h} \cup Range(Orders') /\ Replies' = Replies
      /\ \A p \in Roles, z \in Sockets : p # "teacher" \/ z # 1 => up'[p][z] = up[p][z]
  <2>1. Hears("teacher", s, {"stop"})
    BY DEF OnStop
  <2> QED BY <1>1, <2>1, TakesCalm
<1>3. /\ app' = app /\ pressed' = pressed /\ held' = held /\ stuck' = stuck /\ left' = left
      /\ h.n \in Nat
  BY <1>2 DEF OnStop, Letters
<1> DEFINE t == ProfessorControl
           a == server.auth
           c == StudentControl
           tu == Range(Orders)
           su == Range(Replies)
           td == Range(Notices)
           sd == Range(Forwarded)
           l == left["request"]
<1>4. /\ Ordered(t, a, c, tu, su, td, sd, l)
      /\ Agreed(t, a, c, tu, su, td, sd, server.ended)
  BY <1>0 DEF Balanced
<1>5. /\ Legal(t) /\ Legal(a) /\ Legal(c) /\ l \in Nat
      /\ Lettered(tu) /\ Lettered(su) /\ Lettered(td) /\ Lettered(sd)
      /\ tu = {h} \cup Range(Orders') /\ h \in tu
  BY <1>0, <1>2
<1>6. a.request = h.n <=> Authorized(h.n, {"pending", "active"})
  BY <1>3, <1>5 DEF Authorized, Legal
<1>7. Peer("teacher") = "student"
  BY DEF Peer
<1>8. CASE ~server.ended /\ a.request = h.n
  <2>1. PICK b : b = NoAuthorization
    OBVIOUS
  <2>2. /\ server' = [server EXCEPT !.auth = b]
        /\ down' = Emitted(down, "student", server.seat["student"], h)
    BY <1>0, <1>1, <1>2, <1>6, <1>7, <1>8, <2>1, RoutedCalm DEF OnStop
  <2>3. Legal(b) /\ b.request \notin Nat
    BY <2>1, RemoteControlAssumption DEF NoAuthorization, Legal
  <2>4. /\ server'.due = server.due /\ server'.ended = server.ended
        /\ server'.seat = server.seat /\ server'.auth = b
    BY <2>2 DEF Typed
  <2>5. /\ Forwarded' = Append(Forwarded, h) /\ Notices' = Notices
        /\ Range(Forwarded') = sd \cup {h}
    BY <1>0, <1>2, <1>8, <2>2, ToldStudent
  <2>6. \A x \in sd : Follows(x, h)
    <3>1. \A x \in sd : x.kind # "ended"
      BY <1>0, <1>8 DEF Connected, Online, Tells, Forwarded
    <3> HIDE DEF t, a, c, tu, su, td, sd, l
    <3> QED BY <1>2, <1>3, <1>4, <1>5, <1>8, <3>1
            DEF Ordered, Above, Follows, Lettered
  <2>7. Gateway
    <3>1. h.kind \in Told["student"] \ {"started", "ended"}
      BY <1>2 DEF Told
    <3> QED BY <1>0, <1>2, <1>3, <1>8, <2>4, <2>5, <2>6, <3>1
            DEF Gateway, Orders, Replies, Notices, Forwarded
  <2>8. /\ Connected' /\ InOrder' /\ t' = t /\ c' = c
    BY <2>7, GatewayLemma
  <2>9. /\ Ordered(t, b, c, Range(Orders'), su, td, sd \cup {h}, l)
        /\ Agreed(t, b, c, Range(Orders'), su, td, sd \cup {h}, server.ended)
    <3> HIDE DEF t, a, c, tu, su, td, sd, l
    <3> QED BY <1>2, <1>4, <1>5, <1>8, <2>3, OnStopAgrees
  <2>10. Balanced'
    BY <1>2, <1>3, <2>4, <2>5, <2>8, <2>9 DEF Balanced
  <2>11. Keyboard'
    BY <1>2, <2>3, <2>4, <2>5, <2>7, GatewayKeyboard
  <2> QED BY <2>8, <2>10, <2>11 DEF Calm
<1>9. CASE server.ended \/ a.request # h.n
  <2>1. server' = server /\ down' = down
    BY <1>0, <1>1, <1>2, <1>6, <1>9, RoutedCalm DEF OnStop
  <2>2. Gateway
    BY <1>0, <1>2, <1>3, <2>1 DEF Gateway, Orders, Replies
  <2>3. /\ Connected' /\ InOrder' /\ t' = t /\ c' = c
    BY <2>2, GatewayLemma
  <2>4. Notices' = Notices /\ Forwarded' = Forwarded
    BY <2>1 DEF Notices, Forwarded
  <2>5. a.request # h.n
    BY <1>0, <1>3, <1>9, RemoteControlAssumption DEF Connected, NoAuthorization
  <2>6. /\ Ordered(t, a, c, Range(Orders'), su, td, sd, l)
        /\ Agreed(t, a, c, Range(Orders'), su, td, sd, server.ended)
    <3> HIDE DEF t, a, c, tu, su, td, sd, l
    <3> QED BY <1>2, <1>4, <1>5, <2>5, StopDroppedAgrees
  <2>7. Balanced'
    BY <1>2, <1>3, <2>1, <2>3, <2>4, <2>6 DEF Balanced
  <2>8. Keyboard'
    BY <1>2, <2>1, <2>2, <2>4, GatewayKeyboard
  <2> QED BY <2>3, <2>7, <2>8 DEF Calm
<1> QED BY <1>8, <1>9

\* A stop of the student's, passed on or too late.
LEMMA OnStudentStopIsCalm ==
    ASSUME Typed, Undisturbed, Calm, NEW s \in Sockets, OnStop("student", s)
    PROVE  Calm'
<1>0. /\ Connected /\ InOrder /\ Balanced /\ Keyboard
      /\ "teacher" \in Roles /\ "student" \in Roles /\ Roles = {"teacher", "student"}
      /\ Legal(ProfessorControl) /\ Legal(server.auth) /\ Legal(StudentControl)
      /\ Orders \in Seq(Letters) /\ Forwarded \in Seq(Letters)
      /\ Lettered(Range(Orders)) /\ Lettered(Range(Replies))
      /\ Lettered(Range(Notices)) /\ Lettered(Range(Forwarded))
      /\ left["request"] \in Nat
  BY CalmTypes DEF Calm, Roles
<1>1. PICK h : h = Heard("student", s)
  OBVIOUS
<1>2. /\ s = 1 /\ h \in Letters /\ h \in Range(Replies)
      /\ h.kind \in {"stop"} /\ Replies # <<>> /\ Replies' = Tail(Replies)
      /\ Range(Replies) = {h} \cup Range(Replies') /\ Orders' = Orders
      /\ \A p \in Roles, z \in Sockets : p # "student" \/ z # 1 => up'[p][z] = up[p][z]
  <2>1. Hears("student", s, {"stop"})
    BY DEF OnStop
  <2> QED BY <1>1, <2>1, HearsStudentCalm
<1>3. /\ app' = app /\ pressed' = pressed /\ held' = held /\ stuck' = stuck /\ left' = left
      /\ h.n \in Nat
  BY <1>2 DEF OnStop, Letters
<1> DEFINE t == ProfessorControl
           a == server.auth
           c == StudentControl
           tu == Range(Orders)
           su == Range(Replies)
           td == Range(Notices)
           sd == Range(Forwarded)
           l == left["request"]
<1>4. /\ Ordered(t, a, c, tu, su, td, sd, l)
      /\ Agreed(t, a, c, tu, su, td, sd, server.ended)
  BY <1>0 DEF Balanced
<1>5. /\ Legal(t) /\ Legal(a) /\ Legal(c) /\ l \in Nat
      /\ Lettered(tu) /\ Lettered(su) /\ Lettered(td) /\ Lettered(sd)
      /\ su = {h} \cup Range(Replies') /\ h \in su
  BY <1>0, <1>2
<1>6. a.request = h.n <=> Authorized(h.n, {"pending", "active"})
  BY <1>3, <1>5 DEF Authorized, Legal
<1>7. Peer("student") = "teacher"
  BY DEF Peer
<1>8. CASE ~server.ended /\ a.request = h.n
  <2>1. PICK b : b = NoAuthorization
    OBVIOUS
  <2>2. /\ server' = [server EXCEPT !.auth = b]
        /\ down' = Emitted(down, "teacher", server.seat["teacher"], h)
    BY <1>0, <1>1, <1>2, <1>6, <1>7, <1>8, <2>1, RoutedCalm DEF OnStop
  <2>3. Legal(b) /\ b.request \notin Nat
    BY <2>1, RemoteControlAssumption DEF NoAuthorization, Legal
  <2>4. /\ server'.due = server.due /\ server'.ended = server.ended
        /\ server'.seat = server.seat /\ server'.auth = b
    BY <2>2 DEF Typed
  <2>5. /\ Notices' = Append(Notices, h) /\ Forwarded' = Forwarded
        /\ Range(Notices') = td \cup {h}
    BY <1>0, <1>2, <1>8, <2>2, ToldProfessor
  <2>6. \A x \in td : Follows(x, h)
    <3>1. \A x \in td : x.kind # "ended"
      BY <1>0, <1>8 DEF Connected, Online, Tells, Notices
    <3> HIDE DEF t, a, c, tu, su, td, sd, l
    <3> QED BY <1>2, <1>3, <1>4, <1>5, <1>8, <3>1
            DEF Ordered, Below, Follows, Lettered, Steps
  <2>7. Gateway
    <3>1. h.kind \in Told["teacher"] \ {"started", "ended"}
      BY <1>2 DEF Told
    <3> QED BY <1>0, <1>2, <1>3, <1>8, <2>4, <2>5, <2>6, <3>1
            DEF Gateway, Orders, Replies, Notices, Forwarded
  <2>8. /\ Connected' /\ InOrder' /\ t' = t /\ c' = c
    BY <2>7, GatewayLemma
  <2>9. /\ Ordered(t, b, c, tu, Range(Replies'), td \cup {h}, sd, l)
        /\ Agreed(t, b, c, tu, Range(Replies'), td \cup {h}, sd, server.ended)
    <3> HIDE DEF t, a, c, tu, su, td, sd, l
    <3> QED BY <1>2, <1>4, <1>5, <1>8, <2>3, OnStudentStopAgrees
  <2>10. Balanced'
    BY <1>2, <1>3, <2>4, <2>5, <2>8, <2>9 DEF Balanced
  <2>11. Keyboard'
    BY <1>2, <2>3, <2>4, <2>5, <2>7, GatewayKeyboard
  <2> QED BY <2>8, <2>10, <2>11 DEF Calm
<1>9. CASE server.ended \/ a.request # h.n
  <2>1. server' = server /\ down' = down
    BY <1>0, <1>1, <1>2, <1>6, <1>9, RoutedCalm DEF OnStop
  <2>2. Gateway
    BY <1>0, <1>2, <1>3, <2>1 DEF Gateway, Orders, Replies
  <2>3. /\ Connected' /\ InOrder' /\ t' = t /\ c' = c
    BY <2>2, GatewayLemma
  <2>4. Notices' = Notices /\ Forwarded' = Forwarded
    BY <2>1 DEF Notices, Forwarded
  <2>5. a.request # h.n
    BY <1>0, <1>3, <1>9, RemoteControlAssumption DEF Connected, NoAuthorization
  <2>6. /\ Ordered(t, a, c, tu, Range(Replies'), td, sd, l)
        /\ Agreed(t, a, c, tu, Range(Replies'), td, sd, server.ended)
    <3> HIDE DEF t, a, c, tu, su, td, sd, l
    <3> QED BY <1>2, <1>4, <1>5, <2>5, StudentStopDroppedAgrees
  <2>7. Balanced'
    BY <1>2, <1>3, <2>1, <2>3, <2>4, <2>6 DEF Balanced
  <2>8. Keyboard'
    BY <1>2, <2>1, <2>2, <2>4, GatewayKeyboard
  <2> QED BY <2>3, <2>7, <2>8 DEF Calm
<1> QED BY <1>8, <1>9

\* The gateway gives the control up and tells both, if there is one: what is on
\* its way to them after that.
LEMMA StopAnnounced ==
    ASSUME Typed, Undisturbed, Calm, server.auth # NoAuthorization,
           NEW d, d = Announced(down, Message("stop", server.auth.request))
    PROVE  LET m == Message("stop", server.auth.request) IN
           /\ ~server.ended /\ server.auth.request \in Nat
           /\ m \in Letters /\ d \in [Roles -> Seq(Letters)]
           /\ \A r \in Roles : /\ d[r] = Append(down[r], m)
                               /\ \A x \in Range(down[r]) : Follows(x, m)
                               /\ Range(d[r]) = Range(down[r]) \cup {m}
<1>0. /\ Connected /\ Balanced
      /\ "teacher" \in Roles /\ "student" \in Roles /\ Roles = {"teacher", "student"}
      /\ Lettered(Range(Notices)) /\ Lettered(Range(Forwarded))
      /\ down \in [Roles -> Seq(Letters)]
  BY CalmTypes DEF Calm, Roles, Typed
<1>1. server.auth.request \in Nat /\ ~server.ended
  BY <1>0 DEF Typed, Controlled, Connected
<1>2. PICK m : m = Message("stop", server.auth.request)
  OBVIOUS
<1>3. m \in Letters /\ m.kind = "stop" /\ m.n = server.auth.request
  BY <1>1, <1>2 DEF Message, Letters
<1>4. d \in [Roles -> Seq(Letters)] /\ \A r \in Roles : d[r] = Append(down[r], m)
  BY <1>0, <1>1, <1>2, <1>3, AnnouncedCalm
<1>5. ASSUME NEW r \in Roles
      PROVE  /\ \A x \in Range(down[r]) : Follows(x, m)
             /\ Range(d[r]) = Range(down[r]) \cup {m}
  <2>1. \A x \in Range(down[r]) : x.kind # "ended"
    BY <1>0, <1>1 DEF Connected, Online, Tells
  <2>2. \A x \in Range(down[r]) : x.kind \in Steps => m.n =< x.n /\ x.n \in Nat
    BY <1>0, <1>1, <1>3 DEF Balanced, Ordered, Below, Lettered, Notices, Forwarded
  <2>3. \A x \in Range(down[r]) : Follows(x, m)
    BY <1>1, <1>3, <2>1, <2>2 DEF Follows
  <2>4. Range(Append(down[r], m)) = Range(down[r]) \cup {m}
    BY <1>0, <1>3, AppendLemma
  <2> QED BY <1>4, <2>3, <2>4
<1> QED BY <1>1, <1>2, <1>3, <1>4, <1>5

\* A request that has waited too long.
LEMMA TimeoutIsCalm ==
    ASSUME Typed, Undisturbed, Calm, RequestTimeout
    PROVE  Calm'
<1>0. /\ Connected /\ InOrder /\ Balanced /\ Keyboard
      /\ "teacher" \in Roles /\ "student" \in Roles /\ Roles = {"teacher", "student"}
      /\ Legal(ProfessorControl) /\ Legal(server.auth) /\ Legal(StudentControl)
      /\ Lettered(Range(Orders)) /\ Lettered(Range(Replies))
      /\ Lettered(Range(Notices)) /\ Lettered(Range(Forwarded))
      /\ left["request"] \in Nat
  BY CalmTypes DEF Calm, Roles
<1>1. PICK m, b : m = Message("stop", server.auth.request) /\ b = NoAuthorization
  OBVIOUS
<1>2. /\ server.auth # NoAuthorization
      /\ server' = [server EXCEPT !.auth = b] /\ down' = Announced(down, m)
      /\ app' = app /\ pressed' = pressed /\ held' = held /\ stuck' = stuck /\ up' = up
      /\ left'["request"] = left["request"]
  BY <1>1, UsedLemma DEF RequestTimeout, NoAuthorization, Bounded
<1>3. PICK d : d = down'
  OBVIOUS
<1>4. /\ ~server.ended /\ server.auth.request \in Nat /\ m \in Letters
      /\ \A r \in Roles : /\ down'[r] = Append(down[r], m)
                          /\ \A x \in Range(down[r]) : Follows(x, m)
                          /\ Range(down'[r]) = Range(down[r]) \cup {m}
  BY <1>1, <1>2, <1>3, StopAnnounced
<1>5. m.kind = "stop" /\ m.n = server.auth.request /\ m.kind \notin {"keydown", "keyup"}
  BY <1>1 DEF Message
<1>6. /\ server'.due = server.due /\ server'.ended = server.ended
      /\ server'.seat = server.seat /\ server'.auth = b
  BY <1>2 DEF Typed
<1>7. Legal(b) /\ b.request \notin Nat
  BY <1>1, RemoteControlAssumption DEF NoAuthorization, Legal
<1>8. Gateway
  <2>1. \A r \in Roles : m.kind \in Told[r] \ {"started", "ended"}
    BY <1>0, <1>5 DEF Told
  <2> QED BY <1>2, <1>4, <1>6, <2>1 DEF Gateway
<1>9. /\ Connected' /\ InOrder'
      /\ ProfessorControl' = ProfessorControl /\ StudentControl' = StudentControl
  BY <1>8, GatewayLemma
<1>10. /\ Orders' = Orders /\ Replies' = Replies
       /\ Range(Notices') = Range(Notices) \cup {m}
       /\ Range(Forwarded') = Range(Forwarded) \cup {m}
       /\ Forwarded' = Append(Forwarded, m)
  BY <1>0, <1>2, <1>4 DEF Orders, Replies, Notices, Forwarded
<1>11. Balanced'
  <2> DEFINE t == ProfessorControl
             a == server.auth
             c == StudentControl
             tu == Range(Orders)
             su == Range(Replies)
             td == Range(Notices)
             sd == Range(Forwarded)
             l == left["request"]
  <2>1. /\ Ordered(t, a, c, tu, su, td, sd, l)
        /\ Agreed(t, a, c, tu, su, td, sd, server.ended)
    BY <1>0 DEF Balanced
  <2>2. /\ Ordered(t, b, c, tu, su, td \cup {m}, sd \cup {m}, l)
        /\ Agreed(t, b, c, tu, su, td \cup {m}, sd \cup {m}, server.ended)
    <3>1. /\ Legal(t) /\ Legal(a) /\ Legal(c) /\ l \in Nat /\ a.request \in Nat
          /\ Lettered(tu) /\ Lettered(su) /\ Lettered(td) /\ Lettered(sd)
          /\ m.n = a.request
      BY <1>0, <1>4, <1>5
    <3> HIDE DEF t, a, c, tu, su, td, sd, l
    <3> QED BY <1>5, <1>7, <2>1, <3>1, BothStopAgrees
  <2> QED BY <1>2, <1>6, <1>9, <1>10, <2>2 DEF Balanced
<1>12. Keyboard'
  BY <1>4, <1>5, <1>6, <1>7, <1>8, <1>10, GatewayKeyboard
<1> QED BY <1>9, <1>11, <1>12 DEF Calm

\* The attendance is over: the control is given up, and both are told.
LEMMA FinishIsCalm ==
    ASSUME Typed, Undisturbed, Calm, ~server.ended, Finish,
           \A r \in Roles :
              /\ \A z \in Sockets \ {1} : up'[r][z] = up[r][z]
              /\ up'[r][1] = up[r][1] \/ (up[r][1] # <<>> /\ up'[r][1] = Tail(up[r][1])),
           app' = app, pressed' = pressed, held' = held, stuck' = stuck, left' = left,
           Ordered(ProfessorControl, server.auth, StudentControl,
                   Range(Orders'), Range(Replies'), Range(Notices), Range(Forwarded),
                   left["request"]),
           Agreed(ProfessorControl, server.auth, StudentControl,
                  Range(Orders'), Range(Replies'), Range(Notices), Range(Forwarded),
                  server.ended)
    PROVE  Calm'
<1>0. /\ Connected /\ InOrder /\ Balanced /\ Keyboard
      /\ "teacher" \in Roles /\ "student" \in Roles /\ Roles = {"teacher", "student"}
      /\ Legal(ProfessorControl) /\ Legal(server.auth) /\ Legal(StudentControl)
      /\ Orders \in Seq(Letters)
      /\ Lettered(Range(Orders)) /\ Lettered(Range(Replies))
      /\ Lettered(Range(Notices)) /\ Lettered(Range(Forwarded))
      /\ left["request"] \in Nat
      /\ up \in [Roles -> [Sockets -> Seq(Letters)]] /\ down \in [Roles -> Seq(Letters)]
  BY CalmTypes DEF Calm, Roles, Typed
<1>1. PICK m, e, b : /\ m = Message("stop", server.auth.request)
                     /\ e = Message("ended", None) /\ b = NoAuthorization
  OBVIOUS
<1>2. PICK d : d = IF server.auth = NoAuthorization THEN down ELSE Announced(down, m)
  OBVIOUS
<1>3. Legal(b) /\ b.request \notin Nat /\ e \in Letters /\ e.kind = "ended"
  BY <1>1, RemoteControlAssumption DEF NoAuthorization, Legal, Message, Letters, Tokens
<1>4. /\ server'.due = "no" /\ server'.ended = TRUE /\ server'.auth = b
      /\ down' = Announced(d, e)
  BY <1>1, <1>2 DEF Finish, Typed
<1>5. \/ server.auth = b /\ d = down
      \/ /\ m \in Letters /\ server.auth.request \in Nat
         /\ m.kind = "stop" /\ m.n = server.auth.request
         /\ d \in [Roles -> Seq(Letters)]
         /\ \A r \in Roles : /\ d[r] = Append(down[r], m)
                             /\ \A x \in Range(down[r]) : Follows(x, m)
                             /\ Range(d[r]) = Range(down[r]) \cup {m}
  <2>1. CASE server.auth = NoAuthorization
    BY <1>1, <1>2, <2>1
  <2>2. CASE server.auth # NoAuthorization
    BY <1>1, <1>2, <2>2, StopAnnounced DEF Message
  <2> QED BY <2>1, <2>2
<1>6. d \in [Roles -> Seq(Letters)]
  BY <1>0, <1>5
<1>7. \A r \in Roles : /\ down'[r] = Append(d[r], e)
                       /\ Range(down'[r]) = Range(d[r]) \cup {e}
  <2>1. \A r \in Roles : down'[r] = Append(d[r], e)
    <3>1. Connected /\ e \in Letters
      BY <1>0, <1>3
    <3>2. \A r \in Roles : Announced(d, e)[r] = Append(d[r], e)
      BY <1>6, <3>1, AnnouncedCalm
    <3> QED BY <1>4, <3>2
  <2>2. \A r \in Roles : d[r] \in Seq(Letters)
    BY <1>6
  <2>3. ASSUME NEW r \in Roles PROVE Range(Append(d[r], e)) = Range(d[r]) \cup {e}
    BY <1>3, <2>2, AppendLemma
  <2> QED BY <2>1, <2>3
<1>8. \A r \in Roles : \A x \in Range(d[r]) : x \in Range(down[r]) \/ x.kind = "stop"
  BY <1>5
<1>9. \A r \in Roles : /\ Range(down[r]) \subseteq Range(down'[r])
                       /\ Range(down'[r]) \subseteq Range(d[r]) \cup {e}
                       /\ e \in Range(down'[r])
  BY <1>5, <1>7
<1>10. \A r \in Roles : Range(up'[r][1]) \subseteq Range(up[r][1])
  <2>1. SUFFICES ASSUME NEW r \in Roles PROVE Range(up'[r][1]) \subseteq Range(up[r][1])
    OBVIOUS
  <2>2. CASE up'[r][1] = up[r][1]
    BY <2>2
  <2>3. CASE up[r][1] # <<>> /\ up'[r][1] = Tail(up[r][1])
    <3>1. 1 \in Sockets
      BY RemoteControlAssumption
    <3> QED BY <1>0, <2>3, <3>1, TailLemma
  <2> QED BY <2>2, <2>3
<1>11. Connected'
  <2>1. ASSUME NEW r \in Roles PROVE Online(r)'
    <3>1. Online(r)
      BY <1>0 DEF Connected
    <3>2. /\ Tells(down'[r], "ended")
          /\ Tells(down'[r], "started") <=> Tells(down[r], "started")
      BY <1>3, <1>8, <1>9 DEF Tells
    <3>3. \A x \in Range(down'[r]) : x.kind \in Told[r]
      <4>1. "stop" \in Told[r] /\ "ended" \in Told[r]
        BY <1>0 DEF Told
      <4> QED BY <1>3, <1>8, <1>9, <3>1, <4>1 DEF Online
    <3>4. /\ (app[r].startup = "settled")'
          /\ (\A s \in Sockets \ {1} : up[r][s] = <<>>)'
          /\ (\A x \in Range(up[r][1]) : x.kind \in Said[r] /\ (x.kind = "end" => x.n = None))'
      BY <1>10, <3>1 DEF Online
    <3>5. /\ (Tells(down[r], "started") => ~app[r].session)'
          /\ (~app[r].session => app[r].control = Inactive /\ Tells(down[r], "started"))'
      BY <3>1, <3>2 DEF Online
    <3> QED BY <1>4, <3>2, <3>3, <3>4, <3>5 DEF Online
  <2> QED BY <1>1, <1>4, <2>1 DEF Connected
<1>12. InOrder'
  <2>1. ASSUME NEW r \in Roles, Sorted(down[r]) PROVE Sorted(down'[r])
    <3>1. Sorted(d[r])
      <4>1. CASE d = down
        BY <2>1, <4>1
      <4>2. CASE /\ m \in Letters /\ d[r] = Append(down[r], m)
                 /\ \A x \in Range(down[r]) : Follows(x, m)
        <5>1. down[r] \in Seq(Letters)
          BY <1>0
        <5>2. Sorted(Append(down[r], m))
          BY <2>1, <4>2, <5>1, SortedAppend
        <5> QED BY <4>2, <5>2
      <4> QED BY <1>5, <4>1, <4>2
    <3>2. \A x \in Range(d[r]) : x.kind # "ended"
      BY <1>0, <1>8 DEF Connected, Online, Tells
    <3>3. \A x \in Range(d[r]) : Follows(x, e)
      BY <1>3, <3>2 DEF Follows, Steps
    <3>4. d[r] \in Seq(Letters)
      BY <1>6
    <3>5. Sorted(Append(d[r], e))
      BY <1>3, <3>1, <3>3, <3>4, SortedAppend
    <3> QED BY <1>7, <3>5
  <2>2. Sorted(Orders')
    <3>1. CASE Orders' = Orders
      BY <1>0, <3>1 DEF InOrder
    <3>2. CASE Orders # <<>> /\ Orders' = Tail(Orders)
      BY <1>0, <3>2, SortedTail DEF InOrder
    <3> QED BY <1>0, <3>1, <3>2 DEF Orders
  <2> QED BY <1>0, <2>1, <2>2 DEF InOrder, Notices, Forwarded
<1>13. ProfessorControl' = ProfessorControl /\ StudentControl' = StudentControl
  BY DEF ProfessorControl, StudentControl
<1>14. Balanced'
  <2> DEFINE t == ProfessorControl
             a == server.auth
             c == StudentControl
             tu == Range(Orders')
             su == Range(Replies')
             td == Range(Notices)
             sd == Range(Forwarded)
             td1 == Range(d["teacher"])
             sd1 == Range(d["student"])
             l == left["request"]
  <2>1. /\ Ordered(t, a, c, tu, su, td, sd, l)
        /\ Agreed(t, a, c, tu, su, td, sd, server.ended)
    OBVIOUS
  <2>2. /\ Legal(t) /\ Legal(a) /\ Legal(c) /\ l \in Nat
        /\ Lettered(tu) /\ Lettered(su) /\ Lettered(td) /\ Lettered(sd)
    BY <1>0, <1>10 DEF Lettered, Orders, Replies
  <2>3. \/ a = b /\ td1 = td /\ sd1 = sd
        \/ /\ a.request \in Nat /\ m.kind = "stop" /\ m.n = a.request
           /\ td1 = td \cup {m} /\ sd1 = sd \cup {m}
    BY <1>0, <1>5 DEF Notices, Forwarded
  <2>4. /\ Ordered(t, b, c, tu, su, td1, sd1, l)
        /\ Agreed(t, b, c, tu, su, td1, sd1, server.ended)
    <3> HIDE DEF t, a, c, tu, su, td, sd, td1, sd1, l
    <3>1. CASE a = b /\ td1 = td /\ sd1 = sd
      BY <2>1, <3>1
    <3>2. CASE /\ a.request \in Nat /\ m.kind = "stop" /\ m.n = a.request
               /\ td1 = td \cup {m} /\ sd1 = sd \cup {m}
      BY <1>3, <2>1, <2>2, <3>2, BothStopAgrees
    <3> QED BY <2>3, <3>1, <3>2
  <2>5. Lettered(td1) /\ Lettered(sd1)
    <3> HIDE DEF t, a, c, tu, su, td, sd, td1, sd1, l
    <3> QED BY <2>2, <2>3 DEF Lettered
  <2>6. /\ Ordered(t, b, c, tu, su, td1 \cup {e}, sd1 \cup {e}, l)
        /\ Agreed(t, b, c, tu, su, td1 \cup {e}, sd1 \cup {e}, TRUE)
    <3> HIDE DEF t, a, c, tu, su, td, sd, td1, sd1, l
    <3> QED BY <1>3, <2>2, <2>4, <2>5, EndAgrees
  <2>7. Range(Notices') = td1 \cup {e} /\ Range(Forwarded') = sd1 \cup {e}
    BY <1>0, <1>7 DEF Notices, Forwarded
  <2> QED BY <1>4, <1>13, <2>6, <2>7 DEF Balanced
<1>15. Keyboard'
  <2>1. \A x \in Range(Orders') \cup Range(Forwarded') :
           x.kind \in {"keydown", "keyup"} => x \in Range(Orders) \cup Range(Forwarded)
    BY <1>0, <1>3, <1>8, <1>9, <1>10 DEF Orders, Forwarded
  <2>2. ~(/\ ProfessorControl'.status = "active"
          /\ server'.auth.request = ProfessorControl'.request)
    BY <1>0, <1>3, <1>4, <1>13 DEF Legal
  <2> QED BY <1>0, <1>13, <2>1, <2>2 DEF Keyboard, Unheard
<1> QED BY <1>11, <1>12, <1>14, <1>15 DEF Calm

\* Somebody has asked for it.
LEMMA EndSessionIsCalm ==
    ASSUME Typed, Undisturbed, Calm, NEW r \in Roles, NEW s \in Sockets, EndSession(r, s)
    PROVE  Calm'
<1>0. /\ Connected /\ InOrder /\ Balanced /\ Keyboard
      /\ "teacher" \in Roles /\ "student" \in Roles /\ Roles = {"teacher", "student"}
      /\ Legal(ProfessorControl) /\ Legal(server.auth) /\ Legal(StudentControl)
      /\ Lettered(Range(Orders)) /\ Lettered(Range(Replies))
      /\ Lettered(Range(Notices)) /\ Lettered(Range(Forwarded))
      /\ left["request"] \in Nat
  BY CalmTypes DEF Calm, Roles
<1>1. Hears(r, s, {"end"})
  BY DEF EndSession
<1>2. PICK h : h = Heard(r, s)
  OBVIOUS
<1> DEFINE t == ProfessorControl
           a == server.auth
           c == StudentControl
           tu == Range(Orders)
           su == Range(Replies)
           td == Range(Notices)
           sd == Range(Forwarded)
           l == left["request"]
<1>3. /\ Ordered(t, a, c, tu, su, td, sd, l)
      /\ Agreed(t, a, c, tu, su, td, sd, server.ended)
  BY <1>0 DEF Balanced
<1>4. /\ Legal(t) /\ Legal(a) /\ Legal(c) /\ l \in Nat
      /\ Lettered(tu) /\ Lettered(su) /\ Lettered(td) /\ Lettered(sd)
  BY <1>0
<1>5. /\ s = 1 /\ h.n = None /\ h.kind = "end"
      /\ up[r][1] # <<>> /\ up'[r][1] = Tail(up[r][1])
      /\ \A p \in Roles, z \in Sockets : p # r \/ z # 1 => up'[p][z] = up[p][z]
  BY <1>0, <1>1, <1>2, HearsCalm
<1>6. /\ Ordered(t, a, c, Range(Orders'), Range(Replies'), td, sd, l)
      /\ Agreed(t, a, c, Range(Orders'), Range(Replies'), td, sd, server.ended)
      /\ Orders' = Orders \/ Head(Orders).kind = "end"
  <2>1. CASE r = "teacher"
    <3>1. /\ h \in tu /\ h = Head(Orders) /\ tu = {h} \cup Range(Orders')
          /\ \A x \in Range(Orders') : Follows(h, x)
          /\ Replies' = Replies
      BY <1>1, <1>2, <2>1, TakesCalm
    <3>2. /\ Ordered(t, a, c, Range(Orders'), su, td, sd, l)
          /\ Agreed(t, a, c, Range(Orders'), su, td, sd, server.ended)
      <4> HIDE DEF t, a, c, tu, su, td, sd, l
      <4> QED BY <1>3, <1>4, <1>5, <3>1, InputDroppedAgrees
    <3> QED BY <1>5, <3>1, <3>2
  <2>2. CASE r = "student"
    <3>1. h \in su /\ su = {h} \cup Range(Replies') /\ Orders' = Orders
      BY <1>1, <1>2, <2>2, HearsStudentCalm
    <3>2. /\ Ordered(t, a, c, tu, Range(Replies'), td, sd, l)
          /\ Agreed(t, a, c, tu, Range(Replies'), td, sd, server.ended)
      <4> HIDE DEF t, a, c, tu, su, td, sd, l
      <4> QED BY <1>3, <1>4, <1>5, <3>1, StudentStopDroppedAgrees
    <3> QED BY <3>1, <3>2
  <2> QED BY <1>0, <2>1, <2>2
<1>7. \A p \in Roles :
         /\ \A z \in Sockets \ {1} : up'[p][z] = up[p][z]
         /\ up'[p][1] = up[p][1] \/ (up[p][1] # <<>> /\ up'[p][1] = Tail(up[p][1]))
  <2>1. 1 \in Sockets
    BY RemoteControlAssumption
  <2> QED BY <1>5, <2>1
<1>8. app' = app /\ pressed' = pressed /\ held' = held /\ stuck' = stuck /\ left' = left
  BY DEF EndSession
<1>9. CASE ~server.ended
  <2>1. s \in {server.seat[p] : p \in Roles}
    BY <1>0, <1>5, <1>9 DEF Connected
  <2>2. Finish
    BY <1>2, <1>5, <1>9, <2>1 DEF EndSession
  <2> HIDE DEF t, a, c, tu, su, td, sd, l
  <2> QED BY <1>6, <1>7, <1>8, <1>9, <2>2, FinishIsCalm DEF t, a, c, td, sd, l
<1>10. CASE server.ended
  <2>1. server' = server /\ down' = down
    BY <1>10 DEF EndSession
  <2>2. Gateway
    BY <1>7, <1>8, <2>1 DEF Gateway
  <2>3. /\ Connected' /\ InOrder' /\ t' = t /\ c' = c
    BY <2>2, GatewayLemma
  <2>4. Notices' = Notices /\ Forwarded' = Forwarded
    BY <2>1 DEF Notices, Forwarded
  <2>5. Balanced'
    BY <1>6, <1>8, <2>1, <2>3, <2>4 DEF Balanced
  <2>6. Keyboard'
    BY <1>6, <2>1, <2>2, <2>4, GatewayKeyboard
  <2> QED BY <2>3, <2>5, <2>6 DEF Calm
<1> QED BY <1>9, <1>10

\* Reading anything but the start and the end changes at most the control of
\* the one who reads.
Reader(r, c) ==
    /\ down[r] # <<>> /\ down'[r] = Tail(down[r])
    /\ \A p \in Roles \ {r} : down'[p] = down[p] /\ app'[p] = app[p]
    /\ Read(r).kind \notin {"started", "ended"}
    /\ app'[r].startup = app[r].startup /\ app'[r].session = app[r].session
    /\ app'[r].control = c
    /\ c \in {app[r].control, Inactive} \/ app[r].session
    /\ server' = server /\ up' = up /\ left'["request"] = left["request"]

\* What is known of the connections and of the queue that is read.
LEMMA ReaderLemma ==
    ASSUME Typed, Calm, NEW r \in Roles, NEW c, Reader(r, c)
    PROVE  /\ Connected' /\ InOrder' /\ Orders' = Orders /\ Replies' = Replies
           /\ Read(r) \in Range(down[r])
           /\ Range(down[r]) = {Read(r)} \cup Range(down'[r])
           /\ \A x \in Range(down'[r]) : Follows(Read(r), x)
<1>0. /\ Connected /\ InOrder /\ Roles = {"teacher", "student"}
      /\ down \in [Roles -> Seq(Letters)] /\ down[r] \in Seq(Letters)
  BY DEF Calm, Roles, Typed
<1>1. /\ Range(down[r]) = {Read(r)} \cup Range(down'[r]) /\ Read(r) \in Range(down[r])
  BY <1>0, TailLemma DEF Reader, Read
<1>2. Sorted(down[r])
  BY <1>0 DEF InOrder, Notices, Forwarded
<1>3. Sorted(down'[r]) /\ \A x \in Range(down'[r]) : Follows(Read(r), x)
  BY <1>0, <1>2, SortedTail DEF Reader, Read
<1>4. InOrder'
  BY <1>0, <1>3 DEF InOrder, Notices, Forwarded, Orders, Reader
<1>5. Steady(r)
  <2>1. server.ended => Tells(down'[r], "ended")
    BY <1>0, <1>1 DEF Connected, Online, Tells, Reader
  <2> QED BY <1>1, <2>1 DEF Steady, Reader
<1>6. \A p \in Roles \ {r} : Steady(p)
  BY DEF Steady, Reader
<1>7. Connected'
  BY <1>0, <1>5, <1>6, ConnectedKept DEF Reader
<1> QED BY <1>1, <1>3, <1>4, <1>7 DEF Orders, Replies, Reader

\* Who has not read that the attendance has started reads nothing before that.
LEMMA ReaderInSession ==
    ASSUME Typed, Calm, NEW r \in Roles, down[r] # <<>>, Read(r).kind # "started"
    PROVE  app[r].session
<1>0. /\ Connected /\ InOrder /\ Roles = {"teacher", "student"}
      /\ down \in [Roles -> Seq(Letters)] /\ down[r] \in Seq(Letters)
  BY DEF Calm, Roles, Typed
<1>1. Sorted(down[r])
  BY <1>0 DEF InOrder, Notices, Forwarded
<1>2. \A x \in Range(down[r]) : x = Read(r) \/ Follows(Read(r), x)
  BY <1>0, <1>1, SortedTail, TailLemma DEF Read
<1>3. ~Tells(down[r], "started")
  BY <1>2 DEF Tells, Follows
<1> QED BY <1>0, <1>3 DEF Connected, Online

\* A control is its number and its status.
LEMMA ControlLemma ==
    ASSUME NEW c \in Controlled \cup {Inactive, NoAuthorization}
    PROVE  /\ \A q, status : Is(c, q, status) <=> c = Control(q, status)
           /\ c = Inactive \/ c = NoAuthorization <=> c.request \notin Nat
           /\ c \in Controlled <=> c.request \in Nat
<1>1. None \notin Nat
  BY RemoteControlAssumption
<1>2. c = Control(c.request, c.status)
  BY DEF Controlled, Inactive, NoAuthorization, Control
<1>3. \A q, status : Is(c, q, status) <=> c = Control(q, status)
  BY <1>2 DEF Is, Control
<1>4. c.request \in Nat <=> c \in Controlled
  BY <1>1 DEF Controlled, Inactive, NoAuthorization
<1>5. c = Inactive \/ c = NoAuthorization <=> c.request \notin Nat
  BY <1>1, <1>4 DEF Inactive, NoAuthorization, Controlled
<1> QED BY <1>3, <1>4, <1>5

\* The student reads a request.
LEMMA ReadRequestIsCalm ==
    ASSUME Typed, Undisturbed, Calm, ReadRequest
    PROVE  Calm'
<1>0. /\ Connected /\ Balanced /\ Keyboard
      /\ "teacher" \in Roles /\ "student" \in Roles
      /\ app \in [Roles -> AppRecords] /\ app["student"] \in AppRecords
      /\ Orders \in Seq(Letters) /\ Forwarded \in Seq(Letters)
      /\ Legal(ProfessorControl) /\ Legal(server.auth) /\ Legal(StudentControl)
      /\ Lettered(Range(Orders)) /\ Lettered(Range(Replies))
      /\ Lettered(Range(Notices)) /\ Lettered(Range(Forwarded))
      /\ left["request"] \in Nat
      /\ StudentControl \in Controlled \cup {Inactive}
  BY CalmTypes DEF Calm, Typed, AppRecords, StudentControl
<1>1. PICK h : h = Read("student")
  OBVIOUS
<1>2. /\ h \in Letters /\ h.kind = "request" /\ h.n \in Nat /\ h = Head(Forwarded)
      /\ down["student"] # <<>> /\ down'["student"] = Tail(down["student"])
      /\ \A p \in Roles \ {"student"} : down'[p] = down[p]
  <2>1. Reads("student", {"request"})
    BY DEF ReadRequest
  <2> QED BY <1>0, <1>1, <2>1, ReadsCalm DEF Letters, Forwarded
<1>3. app["student"].session
  BY <1>0, <1>1, <1>2, ReaderInSession
<1>4. PICK b : b = IF StudentControl = Inactive THEN Control(h.n, "pending") ELSE StudentControl
  OBVIOUS
<1>5. /\ app' = IF StudentControl = Inactive THEN [app EXCEPT !["student"].control = b] ELSE app
      /\ server' = server /\ pressed' = pressed /\ held' = held /\ stuck' = stuck /\ up' = up /\ left' = left
  BY <1>1, <1>3, <1>4 DEF ReadRequest, StudentControl
<1>6. /\ app'["student"].startup = app["student"].startup
      /\ app'["student"].session = app["student"].session
      /\ app'["student"].control = b /\ app'["teacher"] = app["teacher"]
  BY <1>0, <1>4, <1>5 DEF AppRecords, StudentControl
<1>7. Reader("student", b)
  BY <1>0, <1>1, <1>2, <1>3, <1>5, <1>6 DEF Reader, Roles
<1>8. /\ Connected' /\ InOrder' /\ Orders' = Orders /\ Replies' = Replies
      /\ h \in Range(Forwarded) /\ Range(Forwarded) = {h} \cup Range(Forwarded')
      /\ \A x \in Range(Forwarded') : Follows(h, x)
      /\ Notices' = Notices /\ Forwarded' = Tail(Forwarded) /\ Forwarded # <<>>
      /\ ProfessorControl' = ProfessorControl /\ StudentControl' = b
  BY <1>0, <1>1, <1>2, <1>6, <1>7, ReaderLemma, Zenon
     DEF Forwarded, Notices, ProfessorControl, StudentControl, Roles
<1>9. Balanced'
  <2> DEFINE t == ProfessorControl
             a == server.auth
             c == StudentControl
             tu == Range(Orders)
             su == Range(Replies)
             td == Range(Notices)
             sd == Range(Forwarded)
             l == left["request"]
  <2>1. /\ Ordered(t, a, c, tu, su, td, sd, l)
        /\ Agreed(t, a, c, tu, su, td, sd, server.ended)
    BY <1>0 DEF Balanced
  <2>2. /\ Legal(t) /\ Legal(a) /\ Legal(c) /\ l \in Nat
        /\ Lettered(tu) /\ Lettered(su) /\ Lettered(td) /\ Lettered(sd)
        /\ h \in sd /\ sd = {h} \cup Range(Forwarded')
    BY <1>0, <1>8
  <2>3. \/ c.request \notin Nat /\ Is(b, h.n, "pending")
        \/ c.request \in Nat /\ b = c
    BY <1>0, <1>4, ControlLemma DEF Control, Is, Inactive, Controlled
  <2>4. \A m \in sd : m.kind = "ended" => a.request \notin Nat
    BY <1>0, RemoteControlAssumption
       DEF Connected, Online, Tells, Forwarded, NoAuthorization
  <2>5. /\ Ordered(t, a, b, tu, su, td, Range(Forwarded'), l)
        /\ Agreed(t, a, b, tu, su, td, Range(Forwarded'), server.ended)
    <3> HIDE DEF t, a, c, tu, su, td, sd, l
    <3>1. CASE c.request \notin Nat /\ Is(b, h.n, "pending")
      BY <1>2, <1>8, <2>1, <2>2, <3>1, ReadRequestAgrees
    <3>2. CASE c.request \in Nat /\ b = c
      BY <1>2, <1>8, <2>1, <2>2, <2>4, <3>2, RequestIgnoredAgrees
    <3> QED BY <2>3, <3>1, <3>2
  <2> QED BY <1>5, <1>8, <2>5 DEF Balanced
<1>10. Keyboard'
  <2>1. \A q \in Nat : KeysKept(q, Orders, Orders') /\ KeysKept(q, Forwarded, Forwarded')
    BY <1>0, <1>2, <1>8, KeysKeptLemma
  <2>2. held' = {} \/ (held' = held /\ stuck' = stuck /\ b = StudentControl)
    BY <1>0, <1>4, <1>5 DEF Keyboard, Inactive
  <2>3. Unstroked
    BY <1>5, <1>8, <2>1, <2>2 DEF Unstroked
  <2> QED BY <1>0, <2>3, KeyboardKept
<1> QED BY <1>8, <1>9, <1>10 DEF Calm

\* The student reads a key.
LEMMA ReadInputIsCalm ==
    ASSUME Typed, Undisturbed, Calm, ReadInput
    PROVE  Calm'
<1>0. /\ Connected /\ Balanced /\ Keyboard
      /\ "teacher" \in Roles /\ "student" \in Roles
      /\ Orders \in Seq(Letters) /\ Forwarded \in Seq(Letters)
      /\ Legal(ProfessorControl) /\ Legal(server.auth) /\ Legal(StudentControl)
      /\ Lettered(Range(Orders)) /\ Lettered(Range(Replies))
      /\ Lettered(Range(Notices)) /\ Lettered(Range(Forwarded))
      /\ left["request"] \in Nat
      /\ StudentControl \in Controlled \cup {Inactive}
  BY CalmTypes DEF Calm, Typed, AppRecords, StudentControl
<1>1. PICK h : h = Read("student")
  OBVIOUS
<1>2. /\ h \in Letters /\ h.kind \in {"keydown", "keyup"} /\ h = Head(Forwarded)
      /\ down["student"] # <<>> /\ down'["student"] = Tail(down["student"])
      /\ \A p \in Roles \ {"student"} : down'[p] = down[p]
  <2>1. Reads("student", {"keydown", "keyup"})
    BY DEF ReadInput
  <2> QED BY <1>0, <1>1, <2>1, ReadsCalm DEF Forwarded
<1>3. /\ server' = server /\ app' = app /\ pressed' = pressed /\ up' = up
      /\ left'["request"] = left["request"]
      /\ \/ ~Is(StudentControl, h.n, "active") /\ held' = held /\ stuck' = stuck
         \/ Is(StudentControl, h.n, "active") /\ (Injected(h) \/ Refused(h))
  <2>1. StudentControl = Control(h.n, "active") <=> Is(StudentControl, h.n, "active")
    <3>1. StudentControl \in Controlled \cup {Inactive, NoAuthorization}
      BY <1>0
    <3> QED BY <3>1, ControlLemma
  <2>2. IF StudentControl = Control(h.n, "active") THEN Injected(h) \/ Refused(h)
        ELSE UNCHANGED <<held, stuck, left>>
    BY <1>1 DEF ReadInput, StudentControl
  <2>3. Used("fault") => left'["request"] = left["request"]
    BY UsedLemma DEF Bounded
  <2>4. left'["request"] = left["request"]
    BY <2>2, <2>3 DEF Injected, Refused
  <2> QED BY <2>1, <2>2, <2>4 DEF ReadInput
<1>k. /\ held' # {} => held # {} \/ Is(StudentControl, h.n, "active")
      /\ ~Is(StudentControl, h.n, "active") => held' = held
      /\ \A k : k \in held' \ stuck' =>
            \/ k \in held \ stuck /\ ~(Is(StudentControl, h.n, "active")
                                         /\ h.kind = "keyup" /\ h.key = k)
            \/ h.kind = "keydown" /\ h.key = k /\ Is(StudentControl, h.n, "active")
  <2>1. CASE Injected(h)
    BY <1>2, <1>3, <2>1 DEF Injected
  <2>2. CASE Refused(h)
    BY <1>2, <1>3, <2>2 DEF Refused
  <2>3. CASE ~Is(StudentControl, h.n, "active") /\ held' = held /\ stuck' = stuck
    BY <2>3
  <2> QED BY <1>3, <2>1, <2>2, <2>3
<1>4. Reader("student", StudentControl)
  BY <1>0, <1>1, <1>2, <1>3 DEF Reader, StudentControl
<1>5. /\ Connected' /\ InOrder' /\ Orders' = Orders /\ Replies' = Replies
      /\ h \in Range(Forwarded) /\ Range(Forwarded) = {h} \cup Range(Forwarded')
      /\ \A x \in Range(Forwarded') : Follows(h, x)
      /\ Notices' = Notices /\ Forwarded' = Tail(Forwarded) /\ Forwarded # <<>>
      /\ ProfessorControl' = ProfessorControl /\ StudentControl' = StudentControl
  BY <1>0, <1>1, <1>2, <1>3, <1>4, ReaderLemma, Zenon
     DEF Forwarded, Notices, ProfessorControl, StudentControl, Roles
<1>6. Balanced'
  <2> DEFINE t == ProfessorControl
             a == server.auth
             c == StudentControl
             tu == Range(Orders)
             su == Range(Replies)
             td == Range(Notices)
             sd == Range(Forwarded)
             l == left["request"]
  <2>1. /\ Ordered(t, a, c, tu, su, td, sd, l)
        /\ Agreed(t, a, c, tu, su, td, sd, server.ended)
    BY <1>0 DEF Balanced
  <2>2. /\ Legal(t) /\ Legal(a) /\ Legal(c) /\ l \in Nat
        /\ Lettered(tu) /\ Lettered(su) /\ Lettered(td) /\ Lettered(sd)
        /\ h \in sd /\ sd = {h} \cup Range(Forwarded')
    BY <1>0, <1>5
  <2>3. /\ Ordered(t, a, c, tu, su, td, Range(Forwarded'), l)
        /\ Agreed(t, a, c, tu, su, td, Range(Forwarded'), server.ended)
    <3> HIDE DEF t, a, c, tu, su, td, sd, l
    <3> QED BY <1>2, <1>5, <2>1, <2>2, PassedAgrees
  <2> QED BY <1>3, <1>5, <2>3 DEF Balanced
<1>7. held' # {} => StudentControl.status = "active"
  BY <1>0, <1>k DEF Keyboard, Is
<1>8. ASSUME ProfessorControl.status = "pending"
      PROVE  /\ Unheard(ProfessorControl.request)'
             /\ StudentControl.request = ProfessorControl.request => held' = {}
  <2>1. h.n # ProfessorControl.request
    BY <1>0, <1>2, <1>5, <1>8 DEF Keyboard, Unheard
  <2>2. StudentControl.request = ProfessorControl.request => held' = {}
    BY <1>0, <1>k, <1>8, <2>1 DEF Keyboard, Is
  <2>3. \A m \in Range(Orders') \cup Range(Forwarded') : m \in Range(Orders) \cup Range(Forwarded)
    BY <1>5
  <2> QED BY <1>0, <1>5, <1>8, <2>2, <2>3 DEF Keyboard, Unheard
<1>9. ASSUME NEW q, NEW k, Released(q, k)
      PROVE  Released(q, k)'
  <2>1. Settled(Orders', q, k)
    BY <1>5, <1>9 DEF Released
  <2>2. Settled(Forwarded', q, k) \/ Lifts(Range(Orders'), q, k)
    BY <1>0, <1>5, <1>9, SettledTail DEF Released
  <2>3. ASSUME k \in held' \ stuck', Is(StudentControl, q, "active")
        PROVE  Lifts(Range(Orders') \cup Range(Forwarded'), q, k)
    <3>1. CASE h.kind = "keydown" /\ h.n = q /\ h.key = k
      <4>1. Lifts(Range(Forwarded'), q, k) \/ Lifts(Range(Orders'), q, k)
        BY <1>0, <1>2, <1>5, <1>9, <3>1, SettledTail DEF Released
      <4> QED BY <4>1 DEF Lifts
    <3>2. CASE ~(h.kind = "keydown" /\ h.n = q /\ h.key = k)
      <4>1. k \in held \ stuck
        BY <1>k, <2>3, <3>2 DEF Is
      <4>2. ~(h.kind = "keyup" /\ h.n = q /\ h.key = k)
        BY <1>k, <2>3, <3>2 DEF Is
      <4>3. Lifts(Range(Orders) \cup Range(Forwarded), q, k)
        BY <1>9, <2>3, <4>1 DEF Released
      <4> QED BY <1>5, <4>2, <4>3 DEF Lifts
    <3> QED BY <3>1, <3>2
  <2> QED BY <1>5, <2>1, <2>2, <2>3 DEF Released
<1>10. Keyboard'
  BY <1>0, <1>3, <1>5, <1>7, <1>8, <1>9 DEF Keyboard
<1> QED BY <1>5, <1>6, <1>10 DEF Calm

\* The professor reads the answer.
LEMMA ReadAnswerIsCalm ==
    ASSUME Typed, Undisturbed, Calm, ReadAnswer
    PROVE  Calm'
<1>0. /\ Connected /\ Balanced /\ Keyboard
      /\ "teacher" \in Roles /\ "student" \in Roles
      /\ app \in [Roles -> AppRecords] /\ app["teacher"] \in AppRecords
      /\ Orders \in Seq(Letters) /\ Forwarded \in Seq(Letters)
      /\ Legal(ProfessorControl) /\ Legal(server.auth) /\ Legal(StudentControl)
      /\ Lettered(Range(Orders)) /\ Lettered(Range(Replies))
      /\ Lettered(Range(Notices)) /\ Lettered(Range(Forwarded))
      /\ left["request"] \in Nat
      /\ ProfessorControl \in Controlled \cup {Inactive, NoAuthorization}
  BY CalmTypes DEF Calm, Typed, AppRecords, ProfessorControl
<1>1. PICK h : h = Read("teacher")
  OBVIOUS
<1>2. /\ h \in Letters /\ h.kind \in {"approved", "denied"} /\ h.n \in Nat
      /\ down["teacher"] # <<>> /\ down'["teacher"] = Tail(down["teacher"])
      /\ \A p \in Roles \ {"teacher"} : down'[p] = down[p]
  <2>1. Reads("teacher", {"approved", "denied"})
    BY DEF ReadAnswer
  <2> QED BY <1>0, <1>1, <2>1, ReadsCalm DEF Letters
<1>3. app["teacher"].session
  BY <1>0, <1>1, <1>2, ReaderInSession
<1>4. PICK b : b = IF ~Is(ProfessorControl, h.n, "pending") THEN ProfessorControl
                   ELSE IF h.kind = "approved" THEN Control(h.n, "active") ELSE Inactive
  OBVIOUS
<1>5. /\ app' = IF ~Is(ProfessorControl, h.n, "pending") THEN app
                ELSE [app EXCEPT !["teacher"].control = b]
      /\ server' = server /\ pressed' = pressed /\ held' = held /\ stuck' = stuck /\ up' = up /\ left' = left
  <2>1. ProfessorControl = Control(h.n, "pending") <=> Is(ProfessorControl, h.n, "pending")
    <3>1. ProfessorControl \in Controlled \cup {Inactive, NoAuthorization}
      BY <1>0
    <3> QED BY <3>1, ControlLemma
  <2> QED BY <1>1, <1>4, <2>1 DEF ReadAnswer, ProfessorControl
<1>6. /\ app'["teacher"].startup = app["teacher"].startup
      /\ app'["teacher"].session = app["teacher"].session
      /\ app'["teacher"].control = b /\ app'["student"] = app["student"]
  BY <1>0, <1>4, <1>5 DEF AppRecords, ProfessorControl
<1>7. Reader("teacher", b)
  BY <1>0, <1>1, <1>2, <1>3, <1>5, <1>6 DEF Reader, Roles
<1>8. /\ Connected' /\ InOrder' /\ Orders' = Orders /\ Replies' = Replies
      /\ h \in Range(Notices) /\ Range(Notices) = {h} \cup Range(Notices')
      /\ \A x \in Range(Notices') : Follows(h, x)
      /\ Forwarded' = Forwarded
      /\ StudentControl' = StudentControl /\ ProfessorControl' = b
  BY <1>0, <1>1, <1>2, <1>6, <1>7, ReaderLemma, Zenon
     DEF Forwarded, Notices, ProfessorControl, StudentControl, Roles
<1>9. Balanced'
  <2> DEFINE t == ProfessorControl
             a == server.auth
             c == StudentControl
             tu == Range(Orders)
             su == Range(Replies)
             td == Range(Notices)
             sd == Range(Forwarded)
             l == left["request"]
  <2>1. /\ Ordered(t, a, c, tu, su, td, sd, l)
        /\ Agreed(t, a, c, tu, su, td, sd, server.ended)
    BY <1>0 DEF Balanced
  <2>2. /\ Legal(t) /\ Legal(a) /\ Legal(c) /\ l \in Nat
        /\ Lettered(tu) /\ Lettered(su) /\ Lettered(td) /\ Lettered(sd)
        /\ h \in td /\ td = {h} \cup Range(Notices')
    BY <1>0, <1>8
  <2>3. \/ ~Is(t, h.n, "pending") /\ b = t
        \/ Is(t, h.n, "pending") /\ h.kind = "approved" /\ Is(b, h.n, "active")
        \/ Is(t, h.n, "pending") /\ h.kind = "denied" /\ Legal(b) /\ b.request \notin Nat
    BY <1>2, <1>4, RemoteControlAssumption DEF Control, Is, Inactive, Legal
  <2>4. /\ Ordered(b, a, c, tu, su, Range(Notices'), sd, l)
        /\ Agreed(b, a, c, tu, su, Range(Notices'), sd, server.ended)
    <3> HIDE DEF t, a, c, tu, su, td, sd, l
    <3>1. CASE ~Is(t, h.n, "pending") /\ b = t
      BY <1>2, <1>8, <2>1, <2>2, <3>1, OverheardAgrees
    <3>2. CASE Is(t, h.n, "pending") /\ h.kind = "approved" /\ Is(b, h.n, "active")
      BY <1>8, <2>1, <2>2, <3>2, HearApprovalAgrees
    <3>3. CASE Is(t, h.n, "pending") /\ h.kind = "denied" /\ Legal(b) /\ b.request \notin Nat
      <4>1. t.status = "pending" /\ t.request = h.n
        BY <3>3 DEF Is
      <4> QED BY <1>8, <2>1, <2>2, <3>3, <4>1, HearStopAgrees
    <3> QED BY <2>3, <3>1, <3>2, <3>3
  <2> QED BY <1>5, <1>8, <2>4 DEF Balanced
<1>10. Keyboard'
  <2>1. \A q \in Nat : KeysKept(q, Orders, Orders') /\ KeysKept(q, Forwarded, Forwarded')
    BY <1>0, <1>8, KeysKeptLemma
  <2>2. b = ProfessorControl \/ (b.status # "pending" /\ (b.status = "active" =>
           ProfessorControl.status = "pending" /\ ProfessorControl.request = b.request))
    BY <1>4 DEF Is, Control, Inactive
  <2>3. Unstroked
    BY <1>5, <1>8, <2>1, <2>2 DEF Unstroked
  <2> QED BY <1>0, <2>3, KeyboardKept
<1> QED BY <1>8, <1>9, <1>10 DEF Calm

\* Somebody reads a stop.
LEMMA ReadStopIsCalm ==
    ASSUME Typed, Undisturbed, Calm, NEW r \in Roles, ReadStop(r)
    PROVE  Calm'
<1>0. /\ Connected /\ Balanced /\ Keyboard
      /\ "teacher" \in Roles /\ "student" \in Roles /\ Roles = {"teacher", "student"}
      /\ app \in [Roles -> AppRecords] /\ app[r] \in AppRecords
      /\ Orders \in Seq(Letters) /\ Forwarded \in Seq(Letters)
      /\ Legal(ProfessorControl) /\ Legal(server.auth) /\ Legal(StudentControl)
      /\ Lettered(Range(Orders)) /\ Lettered(Range(Replies))
      /\ Lettered(Range(Notices)) /\ Lettered(Range(Forwarded))
      /\ left["request"] \in Nat
  BY CalmTypes DEF Calm, Typed, Roles
<1>1. PICK h : h = Read(r)
  OBVIOUS
<1>2. /\ h \in Letters /\ h.kind = "stop" /\ h.n \in Nat /\ h = Head(down[r])
      /\ down[r] # <<>> /\ down'[r] = Tail(down[r])
      /\ \A p \in Roles \ {r} : down'[p] = down[p]
  <2>1. Reads(r, {"stop"})
    BY DEF ReadStop
  <2>2. /\ h \in Letters /\ h.kind = "stop" /\ h = Head(down[r])
        /\ down[r] # <<>> /\ down'[r] = Tail(down[r])
        /\ \A p \in Roles \ {r} : down'[p] = down[p]
    BY <1>0, <1>1, <2>1, ReadsCalm
  <2> QED BY <2>2 DEF Letters
<1>3. PICK b : b = IF app[r].control.request = h.n THEN Inactive ELSE app[r].control
  OBVIOUS
<1>4. /\ \/ /\ app[r].control.request = h.n /\ app' = [app EXCEPT ![r].control = b]
            /\ pressed' = IF r = "teacher" THEN {} ELSE pressed
            /\ held' = IF r = "student" THEN {} ELSE held
            /\ stuck' = IF r = "student" THEN {} ELSE stuck
         \/ /\ app[r].control.request # h.n /\ app' = app
            /\ pressed' = pressed /\ held' = held /\ stuck' = stuck
      /\ server' = server /\ up' = up /\ left' = left
  BY <1>1, <1>3 DEF ReadStop, Let
<1>5. /\ app'[r].startup = app[r].startup /\ app'[r].session = app[r].session
      /\ app'[r].control = b /\ \A p \in Roles \ {r} : app'[p] = app[p]
  BY <1>0, <1>3, <1>4 DEF AppRecords
<1>6. Reader(r, b)
  BY <1>1, <1>2, <1>3, <1>4, <1>5 DEF Reader
<1>7. /\ Connected' /\ InOrder' /\ Orders' = Orders /\ Replies' = Replies
      /\ h \in Range(down[r]) /\ Range(down[r]) = {h} \cup Range(down'[r])
      /\ \A x \in Range(down'[r]) : Follows(h, x)
  BY <1>1, <1>6, ReaderLemma
<1>8. \/ app[r].control.request # h.n /\ b = app[r].control
      \/ /\ app[r].control.request = h.n /\ Legal(b) /\ b.request \notin Nat
         /\ b.status = "inactive"
  BY <1>3, RemoteControlAssumption DEF Legal, Inactive
<1> DEFINE t == ProfessorControl
           a == server.auth
           c == StudentControl
           tu == Range(Orders)
           su == Range(Replies)
           td == Range(Notices)
           sd == Range(Forwarded)
           l == left["request"]
<1>9. /\ Ordered(t, a, c, tu, su, td, sd, l)
      /\ Agreed(t, a, c, tu, su, td, sd, server.ended)
  BY <1>0 DEF Balanced
<1>10. /\ Legal(t) /\ Legal(a) /\ Legal(c) /\ l \in Nat
       /\ Lettered(tu) /\ Lettered(su) /\ Lettered(td) /\ Lettered(sd)
  BY <1>0
<1>11. CASE r = "teacher"
  <2>1. /\ t = app[r].control /\ t' = b /\ c' = c /\ Forwarded' = Forwarded
        /\ h \in td /\ td = {h} \cup Range(Notices')
    BY <1>0, <1>2, <1>5, <1>7, <1>11
       DEF ProfessorControl, StudentControl, Notices, Forwarded
  <2>2. \A x \in Range(Notices') : Follows(h, x)
    BY <1>7, <1>11 DEF Notices
  <2>3. /\ Ordered(b, a, c, tu, su, Range(Notices'), sd, l)
        /\ Agreed(b, a, c, tu, su, Range(Notices'), sd, server.ended)
    <3>1. \/ t.request # h.n /\ b = t
          \/ t.request = h.n /\ Legal(b) /\ b.request \notin Nat
      BY <1>8, <2>1
    <3>2. h \in td /\ td = {h} \cup Range(Notices')
      BY <2>1
    <3> HIDE DEF t, a, c, tu, su, td, sd, l
    <3>3. CASE t.request # h.n /\ b = t
      BY <1>2, <1>9, <1>10, <2>2, <3>2, <3>3, OverheardAgrees
    <3>4. CASE t.request = h.n /\ Legal(b) /\ b.request \notin Nat
      BY <1>2, <1>9, <1>10, <2>2, <3>2, <3>4, HearStopAgrees
    <3> QED BY <3>1, <3>3, <3>4
  <2>4. Balanced'
    BY <1>4, <1>7, <2>1, <2>3 DEF Balanced
  <2>5. \A q \in Nat : KeysKept(q, Orders, Orders') /\ KeysKept(q, Forwarded, Forwarded')
    BY <1>0, <1>7, <2>1, KeysKeptLemma
  <2>6. Unstroked
    BY <1>4, <1>7, <1>8, <1>11, <2>1, <2>5 DEF Unstroked
  <2>7. Keyboard'
    BY <1>0, <2>6, KeyboardKept
  <2> QED BY <1>7, <2>4, <2>7 DEF Calm
<1>12. CASE r = "student"
  <2>1. /\ c = app[r].control /\ c' = b /\ t' = t /\ Notices' = Notices
        /\ h \in sd /\ sd = {h} \cup Range(Forwarded')
        /\ Forwarded # <<>> /\ Forwarded' = Tail(Forwarded) /\ h = Head(Forwarded)
    BY <1>0, <1>2, <1>5, <1>7, <1>12
       DEF ProfessorControl, StudentControl, Notices, Forwarded
  <2>2. \A x \in Range(Forwarded') : Follows(h, x)
    BY <1>7, <1>12 DEF Forwarded
  <2>3. /\ Ordered(t, a, b, tu, su, td, Range(Forwarded'), l)
        /\ Agreed(t, a, b, tu, su, td, Range(Forwarded'), server.ended)
    <3>1. \/ c.request # h.n /\ b = c
          \/ c.request = h.n /\ Legal(b) /\ b.request \notin Nat
      BY <1>8, <2>1
    <3>2. h \in sd /\ sd = {h} \cup Range(Forwarded')
      BY <2>1
    <3> HIDE DEF t, a, c, tu, su, td, sd, l
    <3>3. CASE c.request # h.n /\ b = c
      BY <1>2, <1>9, <1>10, <2>2, <3>2, <3>3, PassedAgrees
    <3>4. CASE c.request = h.n /\ Legal(b) /\ b.request \notin Nat
      BY <1>2, <1>9, <1>10, <2>2, <3>2, <3>4, ReadStopAgrees
    <3> QED BY <3>1, <3>3, <3>4
  <2>4. Balanced'
    BY <1>4, <1>7, <2>1, <2>3 DEF Balanced
  <2>5. \A q \in Nat : KeysKept(q, Orders, Orders') /\ KeysKept(q, Forwarded, Forwarded')
    BY <1>0, <1>2, <1>7, <2>1, KeysKeptLemma
  <2>6. Unstroked
    BY <1>4, <1>7, <1>8, <1>12, <2>1, <2>5 DEF Unstroked
  <2>7. Keyboard'
    BY <1>0, <2>6, KeyboardKept
  <2> QED BY <1>7, <2>4, <2>7 DEF Calm
<1> QED BY <1>0, <1>11, <1>12

\* Everything but the attendance itself, for who reads its start or its end.
Turn(r, session) ==
    /\ down[r] # <<>> /\ down'[r] = Tail(down[r])
    /\ \A p \in Roles \ {r} : down'[p] = down[p] /\ app'[p] = app[p]
    /\ app'[r].startup = app[r].startup /\ app'[r].session = session
    /\ app'[r].control = Inactive
    /\ Let(r)
    /\ server' = server /\ up' = up /\ left' = left

\* The queue that is read, and the keys.
LEMMA TurnLemma ==
    ASSUME Typed, Calm, NEW r \in Roles, NEW session, Turn(r, session)
    PROVE  /\ InOrder' /\ Keyboard' /\ Orders' = Orders /\ Replies' = Replies
           /\ Read(r) \in Range(down[r])
           /\ Range(down[r]) = {Read(r)} \cup Range(down'[r])
           /\ \A x \in Range(down'[r]) : Follows(Read(r), x)
<1>0. /\ Connected /\ InOrder /\ Keyboard /\ Roles = {"teacher", "student"}
      /\ "teacher" \in Roles /\ "student" \in Roles
      /\ down \in [Roles -> Seq(Letters)] /\ down[r] \in Seq(Letters)
      /\ Orders \in Seq(Letters) /\ Forwarded \in Seq(Letters)
  BY CalmTypes DEF Calm, Roles, Typed
<1>1. /\ Range(down[r]) = {Read(r)} \cup Range(down'[r]) /\ Read(r) \in Range(down[r])
  BY <1>0, TailLemma DEF Turn, Read
<1>2. Sorted(down[r])
  BY <1>0 DEF InOrder, Notices, Forwarded
<1>3. Sorted(down'[r]) /\ \A x \in Range(down'[r]) : Follows(Read(r), x)
  BY <1>0, <1>2, SortedTail DEF Turn, Read
<1>4. Orders' = Orders /\ Replies' = Replies
  BY DEF Orders, Replies, Turn
<1>5. InOrder'
  BY <1>0, <1>3, <1>4 DEF InOrder, Notices, Forwarded, Turn
<1>6. CASE r = "teacher"
  <2>1. /\ ProfessorControl'.status = "inactive" /\ StudentControl' = StudentControl
        /\ Forwarded' = Forwarded /\ held' = held /\ stuck' = stuck
    BY <1>0, <1>6 DEF Turn, Let, ProfessorControl, StudentControl, Forwarded, Inactive
  <2> QED BY <1>0, <1>1, <1>3, <1>4, <1>5, <2>1 DEF Keyboard
<1>7. CASE r = "student"
  <2>1. /\ ProfessorControl' = ProfessorControl /\ held' = {} /\ pressed' = pressed
        /\ Forwarded # <<>> /\ Forwarded' = Tail(Forwarded)
        /\ Range(Forwarded') \subseteq Range(Forwarded)
    BY <1>0, <1>1, <1>7 DEF Turn, Let, ProfessorControl, Forwarded
  <2>2. ASSUME NEW q, NEW k, Released(q, k)
        PROVE  Released(q, k)'
    <3>1. Settled(Forwarded', q, k) \/ Lifts(Range(Orders'), q, k)
      BY <1>0, <1>4, <2>1, <2>2, SettledTail DEF Released
    <3> QED BY <1>4, <2>1, <2>2, <3>1 DEF Released
  <2>3. Keyboard'
    BY <1>0, <1>4, <2>1, <2>2 DEF Keyboard, Unheard, Turn
  <2> QED BY <1>1, <1>3, <1>4, <1>5, <2>3
<1> QED BY <1>0, <1>6, <1>7

\* Somebody reads that the attendance has started.
LEMMA ReadStartedIsCalm ==
    ASSUME Typed, Undisturbed, Calm, NEW r \in Roles, ReadStarted(r)
    PROVE  Calm'
<1>0. /\ Connected /\ Balanced
      /\ "teacher" \in Roles /\ "student" \in Roles /\ Roles = {"teacher", "student"}
      /\ app \in [Roles -> AppRecords] /\ app[r] \in AppRecords
      /\ Legal(ProfessorControl) /\ Legal(server.auth) /\ Legal(StudentControl)
      /\ Lettered(Range(Orders)) /\ Lettered(Range(Replies))
      /\ Lettered(Range(Notices)) /\ Lettered(Range(Forwarded))
      /\ left["request"] \in Nat
  BY CalmTypes DEF Calm, Typed, Roles
<1>1. PICK h : h = Read(r)
  OBVIOUS
<1>2. /\ h \in Letters /\ h.kind = "started" /\ h.n \in Tokens
      /\ down[r] # <<>> /\ down'[r] = Tail(down[r])
      /\ \A p \in Roles \ {r} : down'[p] = down[p]
  <2>1. Reads(r, {"started"})
    BY DEF ReadStarted
  <2>2. /\ h \in Letters /\ h.kind = "started"
        /\ down[r] # <<>> /\ down'[r] = Tail(down[r])
        /\ \A p \in Roles \ {r} : down'[p] = down[p]
    BY <1>0, <1>1, <2>1, ReadsCalm
  <2> QED BY <2>2 DEF Letters, Tokens
<1>3. Turn(r, TRUE)
  <2> DEFINE e == Saved(app[r], h.n)
             b == [e EXCEPT !.session = TRUE, !.control = Inactive]
  <2>1. e \in AppRecords /\ e.startup = app[r].startup
    BY <1>0, <1>2, SavedLemma, SavedFields
  <2> HIDE DEF e
  <2>2. b.session = TRUE /\ b.control = Inactive /\ b.startup = app[r].startup
    BY <2>1 DEF AppRecords
  <2>3. app' = [app EXCEPT ![r] = b]
    BY <1>0, <1>1 DEF ReadStarted, e
  <2> HIDE DEF b
  <2> QED BY <1>0, <1>2, <2>2, <2>3 DEF ReadStarted, Turn
<1>4. /\ InOrder' /\ Keyboard' /\ Orders' = Orders /\ Replies' = Replies
      /\ h \in Range(down[r]) /\ Range(down[r]) = {h} \cup Range(down'[r])
      /\ \A x \in Range(down'[r]) : Follows(h, x)
  BY <1>1, <1>3, TurnLemma DEF Calm
<1>5. ~app[r].session /\ app[r].control = Inactive
  BY <1>0, <1>2, <1>4 DEF Connected, Online, Tells
<1>6. ProfessorControl' = ProfessorControl /\ StudentControl' = StudentControl
  BY <1>0, <1>3, <1>5 DEF Turn, ProfessorControl, StudentControl
<1>7. Connected'
  <2>1. Online(r)'
    <3>1. Online(r)
      BY <1>0 DEF Connected
    <3>2. ~Tells(down'[r], "started") /\ (Tells(down'[r], "ended") <=> Tells(down[r], "ended"))
      BY <1>2, <1>4 DEF Tells, Follows
    <3>3. \A m \in Range(down'[r]) : m.kind \in Told[r]
      BY <1>4, <3>1 DEF Online
    <3>4. server.ended => Tells(down'[r], "ended")
      BY <1>2, <3>1, <3>2 DEF Online
    <3> QED BY <1>3, <3>1, <3>2, <3>3, <3>4 DEF Online, Turn
  <2>2. \A p \in Roles \ {r} : Online(p)'
    BY <1>0, <1>3 DEF Connected, Online, Turn
  <2> QED BY <1>0, <1>3, <2>1, <2>2 DEF Connected, Turn
<1>8. Balanced'
  <2> DEFINE t == ProfessorControl
             a == server.auth
             c == StudentControl
             tu == Range(Orders)
             su == Range(Replies)
             td == Range(Notices)
             sd == Range(Forwarded)
             l == left["request"]
  <2>1. /\ Ordered(t, a, c, tu, su, td, sd, l)
        /\ Agreed(t, a, c, tu, su, td, sd, server.ended)
    BY <1>0 DEF Balanced
  <2>2. /\ Legal(t) /\ Legal(a) /\ Legal(c) /\ l \in Nat
        /\ Lettered(tu) /\ Lettered(su) /\ Lettered(td) /\ Lettered(sd)
    BY <1>0
  <2>3. \/ /\ h \in td /\ td = {h} \cup Range(Notices') /\ Forwarded' = Forwarded
           /\ \A x \in Range(Notices') : Follows(h, x)
        \/ /\ h \in sd /\ sd = {h} \cup Range(Forwarded') /\ Notices' = Notices
           /\ \A x \in Range(Forwarded') : Follows(h, x)
    BY <1>0, <1>2, <1>4 DEF Notices, Forwarded
  <2>4. /\ Ordered(t, a, c, tu, su, Range(Notices'), Range(Forwarded'), l)
        /\ Agreed(t, a, c, tu, su, Range(Notices'), Range(Forwarded'), server.ended)
    <3>1. CASE /\ h \in td /\ td = {h} \cup Range(Notices') /\ Forwarded' = Forwarded
               /\ \A x \in Range(Notices') : Follows(h, x)
      <4>1. /\ Ordered(t, a, c, tu, su, Range(Notices'), sd, l)
            /\ Agreed(t, a, c, tu, su, Range(Notices'), sd, server.ended)
        <5>1. h \in td /\ td = {h} \cup Range(Notices') /\ \A x \in Range(Notices') : Follows(h, x)
          BY <3>1
        <5> HIDE DEF t, a, c, tu, su, td, sd, l
        <5> QED BY <1>2, <2>1, <2>2, <5>1, OverheardAgrees
      <4> QED BY <3>1, <4>1
    <3>2. CASE /\ h \in sd /\ sd = {h} \cup Range(Forwarded') /\ Notices' = Notices
               /\ \A x \in Range(Forwarded') : Follows(h, x)
      <4>1. /\ Ordered(t, a, c, tu, su, td, Range(Forwarded'), l)
            /\ Agreed(t, a, c, tu, su, td, Range(Forwarded'), server.ended)
        <5>1. h \in sd /\ sd = {h} \cup Range(Forwarded') /\ \A x \in Range(Forwarded') : Follows(h, x)
          BY <3>2
        <5> HIDE DEF t, a, c, tu, su, td, sd, l
        <5> QED BY <1>2, <2>1, <2>2, <5>1, PassedAgrees
      <4> QED BY <3>2, <4>1
    <3> QED BY <2>3, <3>1, <3>2
  <2> QED BY <1>3, <1>4, <1>6, <2>4 DEF Balanced, Turn
<1> QED BY <1>4, <1>7, <1>8 DEF Calm

\* Somebody reads that it is over, and that is the last message.
LEMMA ReadEndedIsCalm ==
    ASSUME Typed, Undisturbed, Calm, NEW r \in Roles, ReadEnded(r)
    PROVE  Calm'
<1>0. /\ Connected /\ Balanced
      /\ "teacher" \in Roles /\ "student" \in Roles /\ Roles = {"teacher", "student"}
      /\ app \in [Roles -> AppRecords] /\ app[r] \in AppRecords
      /\ down \in [Roles -> Seq(Letters)]
      /\ Legal(ProfessorControl) /\ Legal(server.auth) /\ Legal(StudentControl)
      /\ Lettered(Range(Orders)) /\ Lettered(Range(Replies))
      /\ Lettered(Range(Notices)) /\ Lettered(Range(Forwarded))
      /\ left["request"] \in Nat
  BY CalmTypes DEF Calm, Typed, Roles
<1>1. PICK h : h = Read(r)
  OBVIOUS
<1>2. /\ h \in Letters /\ h.kind = "ended"
      /\ down[r] # <<>> /\ down'[r] = Tail(down[r])
      /\ \A p \in Roles \ {r} : down'[p] = down[p]
  <2>1. Reads(r, {"ended"})
    BY DEF ReadEnded
  <2>2. Connected
    BY <1>0
  <2> QED BY <1>1, <2>1, <2>2, ReadsCalm
<1>3. app[r].session
  BY <1>1, <1>2, ReaderInSession
<1>4. Turn(r, r = "student")
  <2> DEFINE e == Forgotten(app[r])
             b == [e EXCEPT !.session = (r = "student"), !.control = Inactive]
  <2>1. e \in AppRecords /\ e.startup = app[r].startup
    BY <1>0 DEF Forgotten, AppRecords, Tokens
  <2> HIDE DEF e
  <2>2. b.session = (r = "student") /\ b.control = Inactive /\ b.startup = app[r].startup
    BY <2>1 DEF AppRecords
  <2>3. app' = [app EXCEPT ![r] = b]
    BY <1>0, <1>3 DEF ReadEnded, e
  <2> HIDE DEF b
  <2> QED BY <1>0, <1>2, <1>3, <2>2, <2>3 DEF ReadEnded, Turn
<1>5. /\ InOrder' /\ Keyboard' /\ Orders' = Orders /\ Replies' = Replies
      /\ h \in Range(down[r]) /\ Range(down[r]) = {h} \cup Range(down'[r])
      /\ \A x \in Range(down'[r]) : Follows(h, x)
  BY <1>1, <1>4, TurnLemma DEF Calm
<1>6. down'[r] = <<>> /\ Range(down'[r]) = {}
  <2>1. Range(down'[r]) = {}
    BY <1>2, <1>5 DEF Follows
  <2>2. down'[r] \in Seq(Letters)
    BY <1>0, <1>2, TailLemma
  <2>3. down'[r] # <<>> => Head(down'[r]) \in Range(down'[r])
    BY <2>2, TailLemma
  <2> QED BY <2>1, <2>3
<1>7. server.ended /\ server.auth = NoAuthorization
  BY <1>0, <1>2, <1>5 DEF Connected, Online, Tells
<1>8. Connected'
  <2>1. Online(r)'
    <3>1. Online(r)
      BY <1>0 DEF Connected
    <3>2. ~Tells(down'[r], "started") /\ ~Tells(down'[r], "ended")
      BY <1>6 DEF Tells
    <3> QED BY <1>0, <1>4, <1>6, <1>7, <3>1, <3>2 DEF Online, Turn
  <2>2. \A p \in Roles \ {r} : Online(p)'
    BY <1>0, <1>4 DEF Connected, Online, Turn
  <2> QED BY <1>0, <1>4, <2>1, <2>2 DEF Connected, Turn
<1>9. Balanced'
  <2> DEFINE t == ProfessorControl
             a == server.auth
             c == StudentControl
             tu == Range(Orders)
             su == Range(Replies)
             td == Range(Notices)
             sd == Range(Forwarded)
             l == left["request"]
  <2>1. /\ Ordered(t, a, c, tu, su, td, sd, l)
        /\ Agreed(t, a, c, tu, su, td, sd, server.ended)
    BY <1>0 DEF Balanced
  <2>2. /\ Legal(t) /\ Legal(a) /\ Legal(c) /\ l \in Nat
        /\ Lettered(tu) /\ Lettered(su) /\ Lettered(td) /\ Lettered(sd)
        /\ a.request \notin Nat
    BY <1>0, <1>7, RemoteControlAssumption DEF NoAuthorization
  <2>3. PICK t2, c2, td2, sd2 :
           t2 = t' /\ c2 = c' /\ td2 = Range(Notices') /\ sd2 = Range(Forwarded')
    OBVIOUS
  <2>4. \/ t2.request \notin Nat /\ Legal(t2) /\ td2 = {} /\ c2 = c /\ sd2 = sd
        \/ c2.request \notin Nat /\ Legal(c2) /\ sd2 = {} /\ t2 = t /\ td2 = td
    <3>1. Inactive.request \notin Nat /\ Legal(Inactive)
      BY RemoteControlAssumption DEF Inactive, Legal
    <3>2. CASE r = "teacher"
      BY <1>0, <1>2, <1>4, <1>6, <2>3, <3>1, <3>2
         DEF Turn, Notices, Forwarded, ProfessorControl, StudentControl
    <3>3. CASE r = "student"
      BY <1>0, <1>2, <1>4, <1>6, <2>3, <3>1, <3>3
         DEF Turn, Notices, Forwarded, ProfessorControl, StudentControl
    <3> QED BY <1>0, <3>2, <3>3
  <2>5. /\ Ordered(t2, a, c2, tu, su, td2, sd2, l)
        /\ Agreed(t2, a, c2, tu, su, td2, sd2, server.ended)
    <3> HIDE DEF t, a, c, tu, su, td, sd, l
    <3>1. server.ended
      BY <1>7
    <3>2. CASE t2.request \notin Nat /\ Legal(t2) /\ td2 = {} /\ c2 = c /\ sd2 = sd
      BY <2>1, <2>2, <3>1, <3>2, ReadEndAgrees
    <3>3. CASE c2.request \notin Nat /\ Legal(c2) /\ sd2 = {} /\ t2 = t /\ td2 = td
      BY <2>1, <2>2, <3>1, <3>3, ReadEndAgrees
    <3> QED BY <2>4, <3>2, <3>3
  <2> QED BY <1>4, <1>5, <2>3, <2>5 DEF Balanced, Turn
<1> QED BY <1>5, <1>8, <1>9 DEF Calm

-----------------------------------------------------------------------------
(* The controls agree *)

\* A control is no connection.
LEMMA ControlKept ==
    ASSUME app \in [Roles -> AppRecords], NEW r \in Roles, NEW p \in Roles, NEW b,
           app' = [app EXCEPT ![p].control = b]
    PROVE  app'[r].online = app[r].online /\ app'[r].socket = app[r].socket
BY DEF AppRecords

\* An application keeps its connection unless it is opened or lost.
LEMMA SocketsKept ==
    ASSUME Typed, NEW r \in Roles,
           \/ ServerMoves \/ Professor \/ Student
           \/ \E p \in Roles : ApplicationReads(p) \/ Clicks(p)
    PROVE  app'[r].online = app[r].online /\ app'[r].socket = app[r].socket
<1>0. /\ app \in [Roles -> AppRecords] /\ \A p \in Roles : app[p] \in AppRecords
      /\ "teacher" \in Roles /\ "student" \in Roles
  BY DEF Typed, Roles
<1>1. CASE ServerMoves
  BY <1>1 DEF ServerMoves, ServerHears, Register, Disconnected, RecoverSession, EndSession,
              OnRequest, OnInput, OnAnswer, OnStop, RequestTimeout, DeadlinePasses,
              ExpireRecovery
<1>2. CASE Professor \/ Student
  <2>1. \/ \E b : app' = [app EXCEPT !["teacher"].control = b]
        \/ \E b : app' = [app EXCEPT !["student"].control = b]
        \/ app' = app
    BY <1>2, Zenon DEF Professor, Student, RequestRemoteControl, FocusLost, Stroke, Answer
  <2> QED BY <1>0, <2>1, ControlKept
<1>3. ASSUME NEW p \in Roles, Clicks(p)
      PROVE  app'[r].online = app[r].online /\ app'[r].socket = app[r].socket
  <2>1. \/ \E b : app' = [app EXCEPT ![p].control = b]
        \/ \E b : app' = [app EXCEPT ![p].startup = b]
        \/ app' = [app EXCEPT ![p].startup = "settled", ![p].stored = None]
        \/ app' = app
    BY <1>3, Zenon DEF Clicks, Resume, Discard, ClickEnd, ClickStop
  <2>2. CASE \E b : app' = [app EXCEPT ![p].startup = b]
    BY <1>0, <2>2 DEF AppRecords
  <2>3. CASE app' = [app EXCEPT ![p].startup = "settled", ![p].stored = None]
    BY <1>0, <2>3 DEF AppRecords
  <2> QED BY <1>0, <2>1, <2>2, <2>3, ControlKept
<1>4. ASSUME NEW p \in Roles, ApplicationReads(p)
      PROVE  app'[r].online = app[r].online /\ app'[r].socket = app[r].socket
  <2>0. app[p] \in AppRecords
    BY <1>0
  <2>1. Read(p).n \in Tokens
    <3>1. PICK kinds : Reads(p, kinds)
      BY <1>4 DEF ApplicationReads, ReadStarted, ReadRecovered, ReadEnded, ReadRefused,
                  ReadStop, ReadRequest, ReadInput, ReadAnswer
    <3>2. Read(p) \in Letters
      BY <3>1, ReadsLemma
    <3> QED BY <3>2 DEF Letters, Tokens
  <2> DEFINE e == Saved(app[p], Read(p).n)
             f == Forgotten(app[p])
  <2>2. /\ e \in AppRecords /\ e.online = app[p].online /\ e.socket = app[p].socket
        /\ f \in AppRecords /\ f.online = app[p].online /\ f.socket = app[p].socket
    <3>1. f.online = app[p].online /\ f.socket = app[p].socket
      BY <2>0 DEF Forgotten, AppRecords
    <3> QED BY <2>0, <2>1, <3>1, SavedLemma, SavedFields
  <2>3. \/ \E b : app' = [app EXCEPT ![p] = [e EXCEPT !.session = TRUE, !.control = b]]
        \/ app' = [app EXCEPT ![p] = [e EXCEPT !.session = TRUE]]
        \/ \E b : app' = [app EXCEPT ![p] = [f EXCEPT !.session = b, !.control = Inactive]]
        \/ app' = [app EXCEPT ![p] = f]
        \/ \E b : app' = [app EXCEPT ![p].control = b]
        \/ app' = app
    BY <1>0, <1>4, Zenon
       DEF ApplicationReads, ReadStarted, ReadRecovered, ReadEnded, ReadRefused,
           ReadStop, ReadRequest, ReadInput, ReadAnswer
  <2> HIDE DEF e, f
  <2>4. CASE \E b : app' = [app EXCEPT ![p] = [e EXCEPT !.session = TRUE, !.control = b]]
    <3>1. PICK b : app' = [app EXCEPT ![p] = [e EXCEPT !.session = TRUE, !.control = b]]
      BY <2>4
    <3>2. PICK g : g = [e EXCEPT !.session = TRUE, !.control = b]
      OBVIOUS
    <3>3. g.online = e.online /\ g.socket = e.socket
      BY <2>2, <3>2 DEF AppRecords
    <3> QED BY <1>0, <2>2, <3>1, <3>2, <3>3
  <2>5. CASE app' = [app EXCEPT ![p] = [e EXCEPT !.session = TRUE]]
    <3>1. PICK g : g = [e EXCEPT !.session = TRUE]
      OBVIOUS
    <3>2. g.online = e.online /\ g.socket = e.socket
      BY <2>2, <3>1 DEF AppRecords
    <3> QED BY <1>0, <2>2, <2>5, <3>1, <3>2
  <2>6. CASE \E b : app' = [app EXCEPT ![p] = [f EXCEPT !.session = b, !.control = Inactive]]
    <3>1. PICK b : app' = [app EXCEPT ![p] = [f EXCEPT !.session = b, !.control = Inactive]]
      BY <2>6
    <3>2. PICK g : g = [f EXCEPT !.session = b, !.control = Inactive]
      OBVIOUS
    <3>3. g.online = f.online /\ g.socket = f.socket
      BY <2>2, <3>2 DEF AppRecords
    <3> QED BY <1>0, <2>2, <3>1, <3>2, <3>3
  <2>7. CASE app' = [app EXCEPT ![p] = f]
    BY <1>0, <2>2, <2>7
  <2>8. CASE \E b : app' = [app EXCEPT ![p].control = b]
    BY <1>0, <2>8, ControlKept
  <2>9. CASE app' = app
    BY <2>9
  <2> QED BY <2>3, <2>4, <2>5, <2>6, <2>7, <2>8, <2>9
<1> QED BY <1>1, <1>2, <1>3, <1>4

\* At the start there is nothing to agree on.
LEMMA InitCalm == Init => CalmInv
<1> SUFFICES ASSUME Init PROVE CalmInv
  OBVIOUS
<1>0. 1 \in Sockets /\ None \notin Nat /\ "teacher" \in Roles /\ "student" \in Roles
  BY RemoteControlAssumption DEF Roles
<1>1. PICK m : m = Message("started", 1)
  OBVIOUS
<1>2. m.kind = "started" /\ m.n = 1
  BY <1>1 DEF Message
<1>3. /\ server.ended = FALSE /\ server.due = "no" /\ server.auth = NoAuthorization
      /\ \A r \in Roles :
            /\ server.seat[r] = 1 /\ app[r].socket = 1 /\ app[r].startup = "settled"
            /\ app[r].control = Inactive /\ app[r].session = FALSE
            /\ down[r] = <<m>> /\ \A s \in Sockets : up[r][s] = <<>>
      /\ held = {}
  BY <1>1 DEF Init
<1>4. Range(<<>>) = {} /\ Range(<<m>>) = {m}
  BY DEF Range
<1>5. Typed
  BY InitTyped
<1>6. Connected
  <2>1. ASSUME NEW r \in Roles PROVE Online(r)
    <3>1. m.kind \in Told[r]
      BY <1>2 DEF Told, Roles
    <3> QED BY <1>0, <1>2, <1>3, <1>4, <3>1 DEF Online, Tells
  <2> QED BY <1>3, <2>1 DEF Connected
<1>7. /\ Orders = <<>> /\ Replies = <<>> /\ Notices = <<m>> /\ Forwarded = <<m>>
      /\ ProfessorControl = Inactive /\ StudentControl = Inactive
  BY <1>0, <1>3
     DEF Orders, Replies, Notices, Forwarded, ProfessorControl, StudentControl
<1>8. InOrder
  <2>1. Sorted(<<>>) /\ Sorted(<<m>>)
    BY DEF Sorted
  <2> QED BY <1>7, <2>1 DEF InOrder
<1>9. Balanced
  <2>1. /\ Inactive.request \notin Nat /\ NoAuthorization.request \notin Nat
        /\ Inactive.status = "inactive" /\ NoAuthorization.status = "none"
    BY <1>0 DEF Inactive, NoAuthorization
  <2>2. Ordered(Inactive, NoAuthorization, Inactive, {}, {}, {m}, {m}, left["request"])
    BY <1>2, <2>1 DEF Ordered, Above, Below, AtMost, Steps
  <2>3. Agreed(Inactive, NoAuthorization, Inactive, {}, {}, {m}, {m}, FALSE)
    BY <1>2, <2>1 DEF Agreed
  <2> QED BY <1>3, <1>4, <1>7, <2>2, <2>3 DEF Balanced
<1>10. Keyboard
  BY <1>3, <1>7 DEF Keyboard, Inactive
<1> QED BY <1>3, <1>5, <1>6, <1>8, <1>9, <1>10 DEF CalmInv, Calm

\* While nothing is lost the server only hears what is known here.
LEMMA ServerIsCalm ==
    ASSUME Typed, Undisturbed, Calm, ServerMoves
    PROVE  Calm'
<1>0. server.due = "no" /\ Connected
  BY DEF Calm, Connected
<1>1. ASSUME NEW r \in Roles, NEW s \in Sockets, ServerHears(r, s) PROVE Calm'
  <2>1. CASE EndSession(r, s)
    BY <2>1, EndSessionIsCalm
  <2>2. CASE \/ r = "teacher" /\ (OnRequest(s) \/ OnInput(s))
             \/ r = "student" /\ OnAnswer(s)
    BY <2>2, OnRequestIsCalm, OnInputIsCalm, OnAnswerIsCalm
  <2>3. CASE OnStop(r, s)
    BY <2>3, OnStopIsCalm, OnStudentStopIsCalm DEF Roles
  <2>4. CASE Register(r, s) \/ Disconnected(r, s) \/ RecoverSession(r, s)
    <3>1. PICK kinds : kinds = {"register", "disconnect", "recover"}
      OBVIOUS
    <3>2. Hears(r, s, kinds)
      BY <2>4, <3>1 DEF Register, Disconnected, RecoverSession, Hears
    <3>3. Heard(r, 1).kind \in kinds \cap Said[r]
      BY <1>0, <3>2, HearsCalm
    <3> QED BY <3>1, <3>3 DEF Said, Roles
  <2> QED BY <1>1, <2>1, <2>2, <2>3, <2>4 DEF ServerHears
<1>2. CASE RequestTimeout
  BY <1>2, TimeoutIsCalm
<1>3. ~DeadlinePasses /\ ~ExpireRecovery
  BY <1>0 DEF DeadlinePasses, ExpireRecovery
<1> QED BY <1>1, <1>2, <1>3 DEF ServerMoves

\* ... and the applications are only told what is known here.
LEMMA ReadingIsCalm ==
    ASSUME Typed, Undisturbed, Calm, NEW r \in Roles, ApplicationReads(r)
    PROVE  Calm'
<1>0. Connected
  BY DEF Calm
<1>1. CASE ReadStarted(r) \/ ReadEnded(r) \/ ReadStop(r)
  BY <1>1, ReadStartedIsCalm, ReadEndedIsCalm, ReadStopIsCalm
<1>2. CASE ReadRequest \/ ReadInput \/ ReadAnswer
  BY <1>2, ReadRequestIsCalm, ReadInputIsCalm, ReadAnswerIsCalm
<1>3. CASE ReadRecovered(r) \/ ReadRefused(r)
  <2>1. PICK kinds : kinds = {"recovered", "refused"}
    OBVIOUS
  <2>2. Reads(r, kinds)
    BY <1>3, <2>1 DEF ReadRecovered, ReadRefused, Reads
  <2>3. Read(r).kind \in kinds \cap Told[r]
    BY <1>0, <2>2, ReadsCalm
  <2> QED BY <2>1, <2>3 DEF Told, Roles
<1> QED BY <1>1, <1>2, <1>3 DEF ApplicationReads

\* Every step keeps what is known while no connection has been lost.
LEMMA StepIsCalm ==
    ASSUME CalmInv, [Next]_vars
    PROVE  CalmInv'
<1>0. /\ Typed /\ \A r \in Roles : app[r].socket >= 1 /\ app[r].socket \in Nat
      /\ app \in [Roles -> AppRecords]
  BY RemoteControlAssumption DEF CalmInv, Typed, AppRecords
<1>8. (\A r \in Roles : app'[r].online = app[r].online /\ app'[r].socket = app[r].socket) =>
         (Undisturbed' => Undisturbed) /\ \A r \in Roles : app'[r].socket >= 1
  BY <1>0 DEF Undisturbed
<1>1. CASE ServerMoves
  BY <1>0, <1>1, <1>8, ServerTyped, SocketsKept, ServerIsCalm DEF CalmInv
<1>2. ASSUME NEW r \in Roles, Clicks(r) PROVE CalmInv'
  <2>1. Typed'
    BY <1>0, <1>2, AppTyped DEF AppMoves
  <2>2. Undisturbed /\ Calm => Calm'
    <3> SUFFICES ASSUME Undisturbed, Calm PROVE Calm'
      OBVIOUS
    <3>1. ~Resume(r) /\ ~Discard(r)
      BY DEF Calm, Connected, Online, Resume, Discard
    <3> QED BY <1>0, <1>2, <3>1, ClickEndIsCalm, StopIsCalm, StudentStopIsCalm
            DEF Clicks, Roles
  <2> QED BY <1>0, <1>2, <1>8, <2>1, <2>2, SocketsKept DEF CalmInv
<1>3. ASSUME NEW r \in Roles, Connect(r) \/ Lose(r) \/ Restart(r) PROVE CalmInv'
  <2>1. Typed'
    BY <1>0, <1>3, AppTyped DEF AppMoves
  <2>2. /\ ~app'[r].online \/ app'[r].socket = app[r].socket + 1
        /\ app'[r].socket \in {app[r].socket, app[r].socket + 1}
        /\ \A p \in Roles \ {r} : app'[p] = app[p]
    BY <1>0, <1>3 DEF Connect, Lose, Restart, AppRecords
  <2>3. ~Undisturbed' /\ \A p \in Roles : app'[p].socket >= 1
    BY <1>0, <2>2 DEF Undisturbed
  <2> QED BY <2>1, <2>3 DEF CalmInv
<1>4. ASSUME NEW r \in Roles, ApplicationReads(r) PROVE CalmInv'
  BY <1>0, <1>4, <1>8, ReaderTyped, SocketsKept, ReadingIsCalm DEF CalmInv
<1>5. CASE Professor
  <2>1. Undisturbed /\ Calm => Calm'
    BY <1>0, <1>5, AskIsCalm, FocusLostIsCalm, StrokeIsCalm DEF Professor
  <2> QED BY <1>0, <1>5, <1>8, <2>1, ProfessorTyped, SocketsKept DEF CalmInv
<1>6. CASE Student
  <2>1. Undisturbed /\ Calm => Calm'
    BY <1>0, <1>6, AnswerIsCalm DEF Student
  <2> QED BY <1>0, <1>6, <1>8, <2>1, StudentTyped, SocketsKept DEF CalmInv
<1>7. CASE UNCHANGED vars
  <2>1. UNCHANGED <<server, app, pressed, held, stuck, up, down, left>>
    BY <1>7 DEF vars
  <2>2. Typed'
    BY <1>0, <1>7, StillTyped
  <2>3. Undisturbed' = Undisturbed
    BY <2>1 DEF Undisturbed
  <2>4. Calm' = Calm
    BY <2>1 DEF Calm, Connected, Online, Tells, InOrder, Balanced, Keyboard, Unheard,
               Released, ProfessorControl, StudentControl, Orders, Replies, Notices, Forwarded
  <2> QED BY <1>0, <2>1, <2>2, <2>3, <2>4 DEF CalmInv
<1> QED BY <1>1, <1>2, <1>3, <1>4, <1>5, <1>6, <1>7 DEF Next, ServerMoves

\* When everything has arrived nobody differs from the gateway.
LEMMA AgreeLemma == CalmInv => ControlsAgree
<1> SUFFICES ASSUME CalmInv, Undisturbed, Quiet
             PROVE  /\ ProfessorControl = StudentControl
                    /\ server.auth = NoAuthorization <=> ProfessorControl = Inactive
                    /\ server.auth # NoAuthorization => server.auth = StudentControl
  BY DEF ControlsAgree, ProfessorControl, StudentControl
<1>0. Typed /\ Calm /\ Connected /\ Balanced
  BY DEF CalmInv, Calm
<1>1. /\ Range(Orders) = {} /\ Range(Replies) = {}
      /\ Range(Notices) = {} /\ Range(Forwarded) = {}
  BY EmptyLemma DEF Quiet, Orders, Replies, Notices, Forwarded, Roles
<1>2. PICK t, a, s : t = ProfessorControl /\ a = server.auth /\ s = StudentControl
  OBVIOUS
<1>3. Agreed(t, a, s, {}, {}, {}, {}, server.ended)
  BY <1>0, <1>1, <1>2 DEF Balanced
<1>4. Legal(t) /\ Legal(a) /\ Legal(s)
  BY <1>0, <1>2, CalmTypes
<1>5. /\ t \in Controlled \cup {Inactive} /\ s \in Controlled \cup {Inactive}
      /\ a \in Controlled \cup {NoAuthorization}
  BY <1>0, <1>2 DEF Typed, AppRecords, ProfessorControl, StudentControl, Roles
<1>6. /\ a.request \in Nat => /\ t.request = a.request /\ t.status = a.status
                              /\ s.request = a.request /\ s.status = a.status
      /\ a.request \notin Nat => t.request \notin Nat /\ s.request \notin Nat
  BY <1>3, <1>4 DEF Agreed, Has, Ends, Is, Legal
<1>7. None \notin Nat /\ NoAuthorization.request = None /\ Inactive.request = None
  BY RemoteControlAssumption DEF NoAuthorization, Inactive
<1>8. CASE a.request \in Nat
  <2>1. a \in Controlled /\ t \in Controlled /\ s \in Controlled
    BY <1>5, <1>6, <1>7, <1>8
  <2>2. t = a /\ s = a
    BY <1>6, <1>8, <2>1 DEF Controlled
  <2>3. a # NoAuthorization /\ t # Inactive
    BY <1>7, <1>8, <2>2
  <2> QED BY <1>2, <2>2, <2>3
<1>9. CASE a.request \notin Nat
  <2>1. a = NoAuthorization /\ t = Inactive /\ s = Inactive
    BY <1>5, <1>6, <1>9 DEF Controlled
  <2> QED BY <1>2, <2>1
<1> QED BY <1>8, <1>9

\* A key that is down is the professor's, or about to be let go of.
LEMMA HeldLemma == CalmInv => HeldIsPressed
<1> SUFFICES ASSUME CalmInv, Undisturbed, NEW k \in held, k \notin pressed, k \notin stuck
             PROVE  \E messages \in {Orders, Forwarded} : \E i \in DOMAIN messages :
                       LET m == messages[i] IN
                       \/ m.kind \in {"stop", "ended"}
                       \/ m.kind = "keyup" /\ m.key = k
  BY Zenon DEF HeldIsPressed, Orders, Forwarded
<1>1. \E m \in Range(Orders) \cup Range(Forwarded) :
         m.kind \in {"stop", "ended"} \/ (m.kind = "keyup" /\ m.key = k)
  <2>0. Typed /\ Calm /\ Connected /\ Balanced /\ Keyboard /\ k \in Keys
    BY DEF CalmInv, Calm, Typed
  <2>1. PICK t, a, s : t = ProfessorControl /\ a = server.auth /\ s = StudentControl
    OBVIOUS
  <2>2. PICK tu, su, td, sd : /\ tu = Range(Orders) /\ su = Range(Replies)
                              /\ td = Range(Notices) /\ sd = Range(Forwarded)
    OBVIOUS
  <2>3. Agreed(t, a, s, tu, su, td, sd, server.ended)
    BY <2>0, <2>1, <2>2 DEF Balanced
  <2>4. Legal(t) /\ Legal(a) /\ Legal(s)
    BY <2>0, <2>1, CalmTypes
  <2>5. s.status = "active" /\ s.request \in Nat
    BY <2>0, <2>1, <2>4 DEF Keyboard, Legal
  <2>6. CASE a.request # s.request
    BY <2>2, <2>3, <2>5, <2>6 DEF Agreed, Ends
  <2>7. CASE a.request = s.request /\ t.request # a.request
    BY <2>2, <2>3, <2>5, <2>7 DEF Agreed, Has
  <2>8. CASE a.request = s.request /\ t.request = a.request
    <3>1. t.status # "pending"
      BY <2>0, <2>1, <2>8 DEF Keyboard
    <3>2. t.status = "active"
      BY <2>4, <2>5, <2>8, <3>1 DEF Legal
    <3>3. Released(t.request, k)
      BY <2>0, <2>1, <2>8, <3>2 DEF Keyboard
    <3>4. Lifts(tu \cup sd, t.request, k)
      BY <2>1, <2>2, <2>5, <2>8, <3>3 DEF Released, Is
    <3> QED BY <2>2, <3>4 DEF Lifts
  <2> QED BY <2>6, <2>7, <2>8
<1> QED BY <1>1 DEF Range

\* While no connection has been lost: when all messages have arrived, the
\* professor's application, the gateway and the student's application are in the
\* same control or in none, whatever clicks, timeouts and answers crossed.
THEOREM ControlsComeToAgree == Spec => []ControlsAgree
<1>1. Init => CalmInv
  BY InitCalm
<1>2. CalmInv /\ [Next]_vars => CalmInv'
  BY StepIsCalm
<1>3. CalmInv => ControlsAgree
  BY AgreeLemma
<1> QED BY <1>1, <1>2, <1>3, PTL DEF Spec

\* While no connection has been lost: a key that is down on the student's
\* computer is down on the professor's, or what lets go of it is on its way, or
\* Windows has refused to release it.
THEOREM HeldKeysArePressed == Spec => []HeldIsPressed
<1>1. Init => CalmInv
  BY InitCalm
<1>2. CalmInv /\ [Next]_vars => CalmInv'
  BY StepIsCalm
<1>3. CalmInv => HeldIsPressed
  BY HeldLemma
<1> QED BY <1>1, <1>2, <1>3, PTL DEF Spec
====
