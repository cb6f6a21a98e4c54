-------------------------- MODULE AttendanceProofs --------------------------
(***************************************************************************)
(* Safety of the attendance core for any number of users, sockets and      *)
(* requests.                                                               *)
(*                                                                         *)
(* The proof follows the memory w of the server through the operators the  *)
(* actions are built from.  Most of them only calm it down (Calm): nobody  *)
(* changes who asked whom, no request becomes pending, no session becomes  *)
(* active.  With the two that are not calm, CreateRequest and              *)
(* CreateSession, a handler is still a Lawful change, whatever memory it   *)
(* starts from.  A lawful change keeps a memory Sound, and one that a new  *)
(* process has read from the database fit to be written back (Kept).       *)
(***************************************************************************)
EXTENDS Durable, SequenceTheorems, FiniteSetTheorems, TLAPS

-----------------------------------------------------------------------------
(* Lemmas about the sequence of sockets registered for a professor, the    *)
(* model of the insertion order of professorsBySocketId.                   *)

\* RemoveAt drops one entry and keeps the order of the others.
LEMMA RemoveAtLemma ==
    ASSUME NEW S, NEW entries \in Seq(S), NEW k \in 1..Len(entries)
    PROVE  /\ RemoveAt(entries, k) \in Seq(S)
           /\ Len(RemoveAt(entries, k)) = Len(entries) - 1
           /\ \A i \in 1..(Len(entries) - 1) :
                 RemoveAt(entries, k)[i] = entries[IF i < k THEN i ELSE i + 1]
<1> DEFINE front == SubSeq(entries, 1, k - 1)
           back == SubSeq(entries, k + 1, Len(entries))
<1>1. /\ Len(entries) \in Nat /\ k \in Int /\ k - 1 \in Int /\ k + 1 \in Int
      /\ \A i \in 1..Len(entries) : entries[i] \in S
  BY LenProperties, ElementOfSeq
<1>2. /\ front \in Seq(S) /\ Len(front) = k - 1
      /\ \A i \in 1..(k - 1) : front[i] = entries[i]
  <2>1. \A i \in 1..(k - 1) : entries[i] \in S
    BY <1>1
  <2>2. /\ front \in Seq(S) /\ Len(front) = IF 1 <= k - 1 THEN k - 1 - 1 + 1 ELSE 0
        /\ \A i \in 1..(k - 1 - 1 + 1) : front[i] = entries[1 + i - 1]
    BY <1>1, <2>1, SubSeqProperties
  <2> HIDE DEF front
  <2> QED BY <1>1, <2>2
<1>3. /\ back \in Seq(S) /\ Len(back) = Len(entries) - k
      /\ \A i \in 1..(Len(entries) - k) : back[i] = entries[k + i]
  <2>1. \A i \in (k + 1)..Len(entries) : entries[i] \in S
    BY <1>1
  <2>2. /\ back \in Seq(S)
        /\ Len(back) = IF k + 1 <= Len(entries)
                       THEN Len(entries) - (k + 1) + 1 ELSE 0
        /\ \A i \in 1..(Len(entries) - (k + 1) + 1) :
              back[i] = entries[(k + 1) + i - 1]
    BY <1>1, <2>1, SubSeqProperties
  <2> HIDE DEF back
  <2> QED BY <1>1, <2>2
<1>4. RemoveAt(entries, k) = front \o back
  BY DEF RemoveAt
<1> HIDE DEF front, back
<1>5. /\ front \o back \in Seq(S)
      /\ Len(front \o back) = Len(front) + Len(back)
      /\ \A i \in 1..(Len(front) + Len(back)) : (front \o back)[i] =
            IF i <= Len(front) THEN front[i] ELSE back[i - Len(front)]
  BY <1>2, <1>3, ConcatProperties
<1>6. \A i \in 1..(Len(entries) - 1) :
         (front \o back)[i] = entries[IF i < k THEN i ELSE i + 1]
  <2> SUFFICES ASSUME NEW i \in 1..(Len(entries) - 1)
               PROVE  (front \o back)[i] = entries[IF i < k THEN i ELSE i + 1]
    OBVIOUS
  <2>1. CASE i < k
    <3>1. i \in 1..(k - 1) /\ i \in 1..(Len(front) + Len(back)) /\ i <= Len(front)
      BY <1>1, <1>2, <1>3, <2>1
    <3> QED BY <1>2, <1>5, <2>1, <3>1
  <2>2. CASE ~(i < k)
    <3>1. /\ i \in 1..(Len(front) + Len(back)) /\ ~(i <= Len(front))
          /\ i - Len(front) \in 1..(Len(entries) - k)
          /\ k + (i - Len(front)) = i + 1
      BY <1>1, <1>2, <1>3, <2>2
    <3>2. (front \o back)[i] = back[i - Len(front)]
      BY <1>5, <3>1
    <3> QED BY <1>3, <2>2, <3>1, <3>2
  <2> QED BY <2>1, <2>2
<1>7. Len(front \o back) = Len(entries) - 1
  BY <1>1, <1>2, <1>3, <1>5
<1> QED BY <1>4, <1>5, <1>6, <1>7

\* What Map.delete leaves of a professor's entries (removeProfessor).
LEMMA WithoutLemma ==
    ASSUME NEW S, NEW entries \in Seq(S), IsInjective(entries), NEW s
    PROVE  /\ Without(entries, s) \in Seq(S)
           /\ IsInjective(Without(entries, s))
           /\ \A i \in DOMAIN Without(entries, s) :
                 /\ Without(entries, s)[i] # s
                 /\ \E j \in DOMAIN entries : j >= i /\ entries[j] = Without(entries, s)[i]
<1>1. CASE ~ \E i \in DOMAIN entries : entries[i] = s
  <2>1. \A i \in DOMAIN entries : i >= i
    BY LenProperties
  <2> QED BY <1>1, <2>1 DEF Without
<1>2. CASE \E i \in DOMAIN entries : entries[i] = s
  <2> DEFINE k == CHOOSE i \in DOMAIN entries : entries[i] = s
             rest == RemoveAt(entries, k)
  <2>1. /\ k \in 1..Len(entries) /\ entries[k] = s /\ Without(entries, s) = rest
        /\ DOMAIN entries = 1..Len(entries) /\ Len(entries) \in Nat
    BY <1>2, LenProperties DEF Without
  <2> HIDE DEF k
  <2>2. /\ rest \in Seq(S) /\ Len(rest) = Len(entries) - 1
        /\ \A i \in 1..(Len(entries) - 1) :
              rest[i] = entries[IF i < k THEN i ELSE i + 1]
    BY <2>1, RemoveAtLemma
  <2> HIDE DEF rest
  <2>3. DOMAIN rest = 1..(Len(entries) - 1)
    BY <2>1, <2>2, LenProperties
  <2>4. IsInjective(rest)
    <3> SUFFICES ASSUME NEW a \in DOMAIN rest, NEW b \in DOMAIN rest, rest[a] = rest[b]
                 PROVE  a = b
      BY DEF IsInjective
    <3> DEFINE Old(i) == IF i < k THEN i ELSE i + 1
    <3>1. Old(a) \in DOMAIN entries /\ Old(b) \in DOMAIN entries
      BY <2>1, <2>3
    <3>2. entries[Old(a)] = entries[Old(b)]
      BY <2>2, <2>3
    <3>3. Old(a) = Old(b)
      <4> HIDE DEF Old
      <4> QED BY <3>1, <3>2 DEF IsInjective
    <3> QED BY <2>1, <2>3, <3>3
  <2>5. \A i \in DOMAIN rest :
           rest[i] # s /\ \E j \in DOMAIN entries : j >= i /\ entries[j] = rest[i]
    <3> SUFFICES ASSUME NEW i \in DOMAIN rest
                 PROVE  rest[i] # s /\ \E j \in DOMAIN entries : j >= i /\ entries[j] = rest[i]
      OBVIOUS
    <3> DEFINE j == IF i < k THEN i ELSE i + 1
    <3>1. j \in DOMAIN entries /\ j # k /\ j >= i /\ rest[i] = entries[j]
      BY <2>1, <2>2, <2>3
    <3> HIDE DEF j
    <3> QED BY <2>1, <3>1 DEF IsInjective
  <2> QED BY <2>1, <2>2, <2>4, <2>5
<1> QED BY <1>1, <1>2

\* Appending a socket that is not there yet keeps a socket listed at most once
\* (registerProfessor after removeProfessor).
LEMMA AppendInjectiveLemma ==
    ASSUME NEW S, NEW entries \in Seq(S), IsInjective(entries), NEW s \in S,
           \A i \in DOMAIN entries : entries[i] # s
    PROVE  /\ Append(entries, s) \in Seq(S)
           /\ IsInjective(Append(entries, s))
<1> DEFINE longer == Append(entries, s)
<1>1. /\ longer \in Seq(S) /\ Len(longer) = Len(entries) + 1
      /\ \A i \in 1..Len(entries) : longer[i] = entries[i]
      /\ longer[Len(entries) + 1] = s
      /\ DOMAIN longer = 1..(Len(entries) + 1)
      /\ Len(entries) \in Nat /\ DOMAIN entries = 1..Len(entries)
  BY AppendProperties, LenProperties
<1> HIDE DEF longer
<1>2. ASSUME NEW a \in DOMAIN longer, NEW b \in DOMAIN longer, longer[a] = longer[b]
      PROVE  a = b
  BY <1>1, <1>2 DEF IsInjective
<1>3. IsInjective(longer)
  BY <1>2 DEF IsInjective
<1> QED BY <1>1, <1>3 DEF longer

-----------------------------------------------------------------------------
(* The order of the queue: compareRequests gives every nonempty set of     *)
(* requests a first element, so HeadOf and NextReachable are well defined  *)
(* whatever the queue holds.                                               *)

\* A nonempty set of naturals has a least element.  (Induction is out of reach
\* of the provers here; the proof counts the naturals below the set instead.)
LEMMA LeastNatural ==
    ASSUME NEW T, T \subseteq Nat, T # {}
    PROVE  \E m \in T : \A n \in T : m <= n
<1>1. PICK top \in T : TRUE
  OBVIOUS
<1> DEFINE Below == {k \in 0..top : \A n \in T : k < n}
           c == Cardinality(Below)
<1>2. IsFiniteSet(0..top) /\ IsFiniteSet(Below) /\ c \in Nat
  <2>1. IsFiniteSet(0..top)
    BY <1>1, FS_Interval
  <2>2. Below \in SUBSET (0..top)
    OBVIOUS
  <2> QED BY <2>1, <2>2, FS_Subset, FS_CardinalityType
<1>3. c \notin Below
  <2> SUFFICES ASSUME c \in Below PROVE FALSE
    OBVIOUS
  <2>1. 0..c \in SUBSET Below
    <3> HIDE DEF c
    <3> QED BY <1>1, <1>2
  <2>2. Cardinality(0..c) <= c
    BY <1>2, <2>1, FS_Subset
  <2>3. Cardinality(0..c) = c + 1
    <3> HIDE DEF c
    <3>1. c \in Int /\ 0 \in Int
      BY <1>2
    <3>2. Cardinality(0..c) = IF 0 > c THEN 0 ELSE c - 0 + 1
      BY <3>1, FS_Interval
    <3> QED BY <1>2, <3>2
  <2> HIDE DEF c
  <2> QED BY <1>2, <2>2, <2>3
<1>4. c = 0 \/ c - 1 \in Below
  <2> SUFFICES ASSUME c # 0, c - 1 \notin Below PROVE FALSE
    OBVIOUS
  <2>1. Below \in SUBSET (0..(c - 2))
    <3> HIDE DEF c
    <3> SUFFICES ASSUME NEW k \in Below, ~(k <= c - 2) PROVE FALSE
      BY <1>1, <1>2
    <3>1. c - 1 \in 0..top /\ c - 1 <= k
      BY <1>1, <1>2
    <3>2. \A n \in T : c - 1 < n
      BY <1>1, <1>2, <3>1
    <3> QED BY <3>1, <3>2
  <2>2. IsFiniteSet(0..(c - 2)) /\ Cardinality(0..(c - 2)) = c - 1
    <3> HIDE DEF c
    <3>1. c - 2 \in Int /\ 0 \in Int
      BY <1>2
    <3>2. /\ IsFiniteSet(0..(c - 2))
          /\ Cardinality(0..(c - 2)) = IF 0 > c - 2 THEN 0 ELSE c - 2 - 0 + 1
      BY <3>1, FS_Interval
    <3> QED BY <1>2, <3>2
  <2>3. c <= c - 1
    BY <2>1, <2>2, FS_Subset
  <2> HIDE DEF c
  <2> QED BY <1>2, <2>3
<1>5. c \in T /\ \A n \in T : c <= n
  <2> HIDE DEF c
  <2>1. \A n \in T : c <= n
    BY <1>1, <1>2, <1>4
  <2>2. c <= top
    BY <1>1, <2>1
  <2>3. ~ \A n \in T : c < n
    BY <1>2, <1>3, <2>2
  <2> QED BY <1>2, <2>1, <2>3
<1> QED BY <1>5

\* The first request of a nonempty set is one of the set, before all others
\* (getPendingRequestsForTeacher(...)[0]).
LEMMA HeadOfLemma ==
    ASSUME NEW w, \A r \in Requests : w.request[r].createdAt \in Nat,
           NEW queue \in SUBSET Requests, queue # {}
    PROVE  /\ HeadOf(w, queue) \in queue
           /\ \A q \in queue \ {HeadOf(w, queue)} : Before(w, HeadOf(w, queue), q)
<1> DEFINE At(r) == w.request[r].createdAt
           dates == {At(r) : r \in queue}
<1>1. PICK d \in dates : \A e \in dates : d <= e
  <2>1. dates \subseteq Nat /\ dates # {}
    OBVIOUS
  <2> HIDE DEF dates
  <2> QED BY <2>1, LeastNatural
<1> DEFINE earliest == {r \in queue : At(r) = d}
<1>2. PICK h \in earliest : \A e \in earliest : h <= e
  <2>1. earliest \subseteq Nat /\ earliest # {}
    BY <1>1, RequestsAssumption
  <2> HIDE DEF earliest
  <2> QED BY <2>1, LeastNatural
<1>3. \A q \in queue \ {h} : Before(w, h, q)
  <2> SUFFICES ASSUME NEW q \in queue, q # h
               PROVE  Before(w, h, q)
    OBVIOUS
  <2>1. At(h) = d /\ d <= At(q) /\ d \in Nat /\ At(q) \in Nat /\ q \in Nat /\ h \in Nat
    BY <1>1, <1>2, RequestsAssumption
  <2>2. CASE At(q) = d
    BY <1>2, <2>1, <2>2 DEF Before
  <2>3. CASE At(q) # d
    BY <2>1, <2>3 DEF Before
  <2> QED BY <2>2, <2>3
<1> QED BY <1>2, <1>3 DEF HeadOf

-----------------------------------------------------------------------------
(* The inductive invariant, on a memory *)

EntriesDistinct(w) == \A t \in Teachers : IsInjective(w.professors[t])

\* A session, active or finished, belongs to an accepted request.
SessionIsAccepted(w) ==
    \A r \in Requests : w.session[r].state # "none" => w.request[r].status = "accepted"

Apart(w) ==
    \A p, q \in Requests : p # q /\ IsActive(w, p) /\ IsActive(w, q) =>
        /\ TeacherOf(w, p) # TeacherOf(w, q)
        /\ StudentOf(w, p) # StudentOf(w, q)

OnePending(w) ==
    \A p, q \in Requests : p # q /\ IsPending(w, p) /\ IsPending(w, q) =>
        StudentOf(w, p) # StudentOf(w, q)

Sound(w) ==
    /\ w \in Memory
    /\ EntriesDistinct(w)
    /\ SessionIsAccepted(w)
    /\ Apart(w)
    /\ OnePending(w)

\* From w to v no request becomes pending, sessions only end, and only pending
\* requests change their status.
Calm(w, v) ==
    /\ v \in Memory
    /\ EntriesDistinct(w) => EntriesDistinct(v)
    /\ \A r \in Requests :
          /\ TeacherOf(v, r) = TeacherOf(w, r)
          /\ StudentOf(v, r) = StudentOf(w, r)
          /\ \/ v.session[r].state = w.session[r].state
             \/ IsActive(w, r) /\ v.session[r].state \in ActiveStates \cup {"FINISHED"}
          /\ IsPending(v, r) => IsPending(w, r)
          /\ IsPending(w, r) => v.request[r].status # "none"
          /\ IsPending(w, r) \/ v.request[r].status = w.request[r].status

\* A session, whatever its state, belongs to a request.
Founded(w) ==
    \A r \in Requests : w.session[r].state # "none" => w.request[r].status # "none"

\* What a handler may make of w: nobody changes who asked whom, no session
\* is forgotten, one is only added to an accepted request and to two users who have no other, and a pending
\* request only to a student who has no other.
Lawful(w, v) ==
    /\ v \in Memory
    /\ EntriesDistinct(w) => EntriesDistinct(v)
    /\ \A r \in Requests : w.request[r].status # "none" =>
          /\ TeacherOf(v, r) = TeacherOf(w, r)
          /\ StudentOf(v, r) = StudentOf(w, r)
          /\ v.request[r].status # "none"
          /\ IsPending(w, r) \/ v.request[r].status = w.request[r].status
    /\ \A r \in Requests : w.session[r].state # "none" => v.session[r].state # "none"
    /\ \A r \in Requests : v.session[r].state # "none" =>
          w.session[r].state # "none" \/ v.request[r].status = "accepted"
    /\ \A p, q \in Requests : p # q /\ IsActive(v, p) /\ IsActive(v, q) =>
          \/ IsActive(w, p) /\ IsActive(w, q)
          \/ TeacherOf(v, p) # TeacherOf(v, q) /\ StudentOf(v, p) # StudentOf(v, q)
    /\ \A p, q \in Requests : p # q /\ IsPending(v, p) /\ IsPending(v, q) =>
          \/ IsPending(w, p) /\ IsPending(w, q)
          \/ StudentOf(v, p) # StudentOf(v, q)

\* No session is left without its request.
LEMMA LawfulKeepsFounded ==
    ASSUME NEW w, NEW v, Founded(w), Lawful(w, v)
    PROVE  Founded(v)
BY DEF Founded, Lawful

\* A lawful change keeps the memory sound.
LEMMA LawfulKeepsSound ==
    ASSUME NEW w, NEW v, Sound(w), Lawful(w, v)
    PROVE  Sound(v)
<1>1. SessionIsAccepted(v)
  BY DEF Sound, Lawful, SessionIsAccepted, IsPending
<1>2. Apart(v)
  <2> SUFFICES ASSUME NEW p \in Requests, NEW q \in Requests,
                      p # q, IsActive(v, p), IsActive(v, q)
               PROVE  TeacherOf(v, p) # TeacherOf(v, q) /\ StudentOf(v, p) # StudentOf(v, q)
    BY DEF Apart
  <2>1. CASE IsActive(w, p) /\ IsActive(w, q)
    <3>1. w.request[p].status # "none" /\ w.request[q].status # "none"
      BY <2>1 DEF Sound, SessionIsAccepted, IsActive, ActiveStates
    <3>2. TeacherOf(w, p) # TeacherOf(w, q) /\ StudentOf(w, p) # StudentOf(w, q)
      BY <2>1 DEF Sound, Apart
    <3> QED BY <3>1, <3>2 DEF Lawful
  <2> QED BY <2>1 DEF Lawful
<1>3. OnePending(v)
  <2>1. \A r \in Requests : IsPending(w, r) => StudentOf(v, r) = StudentOf(w, r)
    BY DEF Lawful, IsPending
  <2> QED BY <2>1 DEF Sound, Lawful, OnePending
<1> QED BY <1>1, <1>2, <1>3 DEF Sound, Lawful

\* Lawful changes compose.
LEMMA LawfulTransitive ==
    ASSUME NEW w, NEW v, NEW u, Founded(w), Lawful(w, v), Lawful(v, u)
    PROVE  Lawful(w, u)
<1>1. Founded(v)
  BY LawfulKeepsFounded
<1>2. ASSUME NEW r \in Requests, w.request[r].status # "none"
      PROVE  /\ TeacherOf(u, r) = TeacherOf(w, r)
             /\ StudentOf(u, r) = StudentOf(w, r)
             /\ u.request[r].status # "none"
             /\ IsPending(w, r) \/ u.request[r].status = w.request[r].status
  BY <1>2 DEF Lawful, IsPending
<1>3. ASSUME NEW r \in Requests, u.session[r].state # "none"
      PROVE  w.session[r].state # "none" \/ u.request[r].status = "accepted"
  BY <1>3 DEF Lawful, IsPending
<1>4. ASSUME NEW p \in Requests, NEW q \in Requests, p # q, IsActive(u, p), IsActive(u, q)
      PROVE  \/ IsActive(w, p) /\ IsActive(w, q)
             \/ TeacherOf(u, p) # TeacherOf(u, q) /\ StudentOf(u, p) # StudentOf(u, q)
  <2>1. CASE IsActive(v, p) /\ IsActive(v, q)
    <3>1. v.request[p].status # "none" /\ v.request[q].status # "none"
      BY <1>1, <2>1 DEF Founded, IsActive, ActiveStates
    <3>2. /\ TeacherOf(u, p) = TeacherOf(v, p) /\ TeacherOf(u, q) = TeacherOf(v, q)
          /\ StudentOf(u, p) = StudentOf(v, p) /\ StudentOf(u, q) = StudentOf(v, q)
      BY <3>1 DEF Lawful
    <3>3. \/ IsActive(w, p) /\ IsActive(w, q)
          \/ TeacherOf(v, p) # TeacherOf(v, q) /\ StudentOf(v, p) # StudentOf(v, q)
      BY <1>4, <2>1 DEF Lawful
    <3> QED BY <3>2, <3>3
  <2> QED BY <1>4, <2>1 DEF Lawful
<1>5. ASSUME NEW p \in Requests, NEW q \in Requests, p # q, IsPending(u, p), IsPending(u, q)
      PROVE  (IsPending(w, p) /\ IsPending(w, q)) \/ StudentOf(u, p) # StudentOf(u, q)
  <2>1. CASE IsPending(v, p) /\ IsPending(v, q)
    <3>1. StudentOf(u, p) = StudentOf(v, p) /\ StudentOf(u, q) = StudentOf(v, q)
      BY <2>1 DEF Lawful, IsPending
    <3>2. (IsPending(w, p) /\ IsPending(w, q)) \/ StudentOf(v, p) # StudentOf(v, q)
      BY <1>5, <2>1 DEF Lawful
    <3> QED BY <3>1, <3>2
  <2> QED BY <1>5, <2>1 DEF Lawful
<1>6. /\ u \in Memory /\ (EntriesDistinct(w) => EntriesDistinct(u))
      /\ \A r \in Requests : w.session[r].state # "none" => u.session[r].state # "none"
  BY DEF Lawful
<1> QED BY <1>2, <1>3, <1>4, <1>5, <1>6 DEF Lawful

\* A calm change is lawful.
LEMMA CalmIsLawful ==
    ASSUME NEW w, NEW v, Calm(w, v)
    PROVE  Lawful(w, v)
<1>1. \A r \in Requests : /\ IsActive(v, r) => IsActive(w, r)
                          /\ v.session[r].state # "none" <=> w.session[r].state # "none"
                          /\ IsPending(w, r) => w.request[r].status # "none"
  BY DEF Calm, IsActive, ActiveStates, IsPending
<1> QED BY <1>1 DEF Calm, Lawful

\* A calm change keeps the memory sound.
LEMMA CalmKeepsSound ==
    ASSUME NEW w, NEW v, Sound(w), Calm(w, v)
    PROVE  Sound(v)
BY CalmIsLawful, LawfulKeepsSound

\* Followed by a calm change, a lawful one stays lawful.
LEMMA LawfulThenCalm ==
    ASSUME NEW w, NEW v, NEW u, Founded(w), Lawful(w, v), Calm(v, u)
    PROVE  Lawful(w, u)
BY CalmIsLawful, LawfulTransitive

\* Calm changes compose: a handler built of calm calls is calm.
LEMMA CalmTransitive ==
    ASSUME NEW w, NEW v, NEW u, Calm(w, v), Calm(v, u)
    PROVE  Calm(w, u)
BY DEF Calm, IsActive, IsPending

\* A change of presence data only.
LEMMA PresenceChangeIsCalm ==
    ASSUME NEW w \in Memory, NEW v \in Memory,
           v.request = w.request, v.session = w.session,
           EntriesDistinct(w) => EntriesDistinct(v)
    PROVE  Calm(w, v)
BY DEF Calm, TeacherOf, StudentOf, IsActive, IsPending

\* A sound memory left as it is is a calm change.
LEMMA CalmReflexive ==
    ASSUME NEW w \in Memory
    PROVE  Calm(w, w)
BY DEF Calm, IsPending

-----------------------------------------------------------------------------
(* Presence *)

\* A socket of a professor belongs to a professor, one of a student to a student.
LEMMA OwnerType ==
    /\ \A s \in TeacherSockets : s \in Sockets /\ Owner[s] \in Teachers
    /\ \A s \in StudentSockets : s \in Sockets /\ Owner[s] \in Students
BY PresenceAssumption DEF TeacherSockets, StudentSockets

\* The entry that answers for a professor who is online is a socket of theirs.
LEMMA FindProfessorLemma ==
    ASSUME NEW w \in Memory, NEW t \in Teachers, ProfessorOnline(w, t)
    PROVE  FindProfessor(w, t) \in TeacherSockets
<1>1. w.professors[t] \in Seq(TeacherSockets)
  BY DEF Memory
<1>2. w.professors[t] # <<>>
  BY DEF ProfessorOnline, FindProfessor
<1>3. Head(w.professors[t]) \in TeacherSockets
  BY <1>1, <1>2, HeadTailProperties
<1> QED BY <1>2, <1>3 DEF FindProfessor

\* setAvailability touches nothing but an availability.
LEMMA SetAvailabilityIsCalm ==
    ASSUME NEW w \in Memory, NEW s, NEW a \in Availabilities
    PROVE  Calm(w, SetAvailability(w, s, a))
<1> DEFINE v == SetAvailability(w, s, a)
<1>1. /\ v.request = w.request /\ v.session = w.session
      /\ v.professors = w.professors /\ v \in Memory
  BY DEF SetAvailability, Memory
<1> HIDE DEF v
<1>2. EntriesDistinct(w) => EntriesDistinct(v)
  BY <1>1 DEF EntriesDistinct
<1> QED BY <1>1, <1>2, PresenceChangeIsCalm DEF v

\* So does setAvailabilityByProfessorId, which may find nobody.
LEMMA SetAvailabilityOfIsCalm ==
    ASSUME NEW w \in Memory, NEW t, NEW a \in Availabilities
    PROVE  Calm(w, SetAvailabilityOf(w, t, a))
BY SetAvailabilityIsCalm, CalmReflexive DEF SetAvailabilityOf

\* removeProfessor deletes one entry and leaves the others distinct.
LEMMA RemoveProfessorIsCalm ==
    ASSUME NEW w \in Memory, NEW s \in TeacherSockets, EntriesDistinct(w)
    PROVE  /\ Calm(w, RemoveProfessor(w, s))
           /\ LET left == RemoveProfessor(w, s).professors[Owner[s]]
              IN  \A i \in DOMAIN left : left[i] # s
<1> DEFINE v == RemoveProfessor(w, s)
           t == Owner[s]
           left == Without(w.professors[t], s)
<1>1. s \in Sockets /\ t \in Teachers
  BY OwnerType
<1>2. w.professors[t] \in Seq(TeacherSockets) /\ IsInjective(w.professors[t])
  BY <1>1 DEF Memory, EntriesDistinct
<1>3. /\ left \in Seq(TeacherSockets) /\ IsInjective(left)
      /\ \A i \in DOMAIN left : left[i] # s
  BY <1>2, WithoutLemma
<1> HIDE DEF left
<1>4. /\ v.request = w.request /\ v.session = w.session /\ v \in Memory
      /\ v.professors = [w.professors EXCEPT ![t] = left]
  BY <1>1, <1>3 DEF RemoveProfessor, Memory, left
<1> HIDE DEF v
<1>5. EntriesDistinct(v) /\ v.professors[t] = left
  <2>1. w.professors \in [Teachers -> Seq(TeacherSockets)]
    BY DEF Memory
  <2> QED BY <1>1, <1>3, <1>4, <2>1 DEF EntriesDistinct
<1> QED BY <1>3, <1>4, <1>5, PresenceChangeIsCalm DEF v

\* registerProfessor replaces the entry of its socket, so none is doubled.
LEMMA RegisterProfessorIsCalm ==
    ASSUME NEW w \in Memory, NEW s \in TeacherSockets, EntriesDistinct(w)
    PROVE  Calm(w, RegisterProfessor(w, s))
<1> DEFINE u == RemoveProfessor(w, s)
           v == RegisterProfessor(w, s)
           t == Owner[s]
           longer == Append(u.professors[t], s)
<1>1. s \in Sockets /\ t \in Teachers
  BY OwnerType
<1>2. Calm(w, u) /\ \A i \in DOMAIN u.professors[t] : u.professors[t][i] # s
  BY RemoveProfessorIsCalm
<1>3. v = [u EXCEPT !.professors[t] = longer, !.availability[s] = "available"]
  BY DEF RegisterProfessor
<1> HIDE DEF u, v
<1>4. u \in Memory /\ EntriesDistinct(u)
  BY <1>2 DEF Calm
<1>5. u.professors[t] \in Seq(TeacherSockets) /\ IsInjective(u.professors[t])
  BY <1>1, <1>4 DEF Memory, EntriesDistinct
<1>6. longer \in Seq(TeacherSockets) /\ IsInjective(longer)
  BY <1>2, <1>5, AppendInjectiveLemma
<1> HIDE DEF longer
<1>7. /\ v.request = u.request /\ v.session = u.session /\ v \in Memory
      /\ v.professors = [u.professors EXCEPT ![t] = longer]
  BY <1>1, <1>3, <1>4, <1>6 DEF Memory, Availabilities
<1>8. EntriesDistinct(v)
  <2>1. u.professors \in [Teachers -> Seq(TeacherSockets)]
    BY <1>4 DEF Memory
  <2> QED BY <1>1, <1>4, <1>6, <1>7, <2>1 DEF EntriesDistinct
<1>9. Calm(u, v)
  BY <1>4, <1>7, <1>8, PresenceChangeIsCalm
<1> QED BY <1>2, <1>9, CalmTransitive DEF u, v

\* The three operators on a student's entry.
LEMMA StudentChangeIsCalm ==
    ASSUME NEW w \in Memory, NEW x \in Students, NEW entry \in StudentEntries
    PROVE  Calm(w, [w EXCEPT !.student[x] = entry])
<1> DEFINE v == [w EXCEPT !.student[x] = entry]
<1>1. /\ v.request = w.request /\ v.session = w.session
      /\ v.professors = w.professors /\ v \in Memory
  BY DEF Memory
<1> HIDE DEF v
<1>2. EntriesDistinct(w) => EntriesDistinct(v)
  BY <1>1 DEF EntriesDistinct
<1> QED BY <1>1, <1>2, PresenceChangeIsCalm DEF v

\* The three operations of StudentPresenceManager touch only the presence of a student.
LEMMA StudentPresenceIsCalm ==
    ASSUME NEW w \in Memory, NEW s \in StudentSockets
    PROVE  /\ Calm(w, RegisterStudent(w, s))
           /\ Calm(w, RemoveStudent(w, s))
           /\ Calm(w, MarkReconnecting(w, s))
<1> DEFINE x == Owner[s]
           marked == [w.student[x] EXCEPT !.status = "reconnecting"]
<1>1. s \in Sockets /\ x \in Students
  BY OwnerType
<1>2. /\ [socket |-> s, status |-> "online"] \in StudentEntries
      /\ AbsentStudent \in StudentEntries
  BY DEF StudentEntries
<1>3. Calm(w, RegisterStudent(w, s))
  BY <1>1, <1>2, StudentChangeIsCalm DEF RegisterStudent
<1>4. Calm(w, RemoveStudent(w, s))
  BY <1>1, <1>2, StudentChangeIsCalm, CalmReflexive DEF RemoveStudent
<1>5. Calm(w, MarkReconnecting(w, s))
  <2>1. CASE TracksStudent(w, s)
    <3>1. w.student[x] \in StudentEntries /\ w.student[x].socket = s /\ s # None
      BY <1>1, <2>1, PresenceAssumption DEF Memory, TracksStudent
    <3>2. marked \in StudentEntries
      BY <3>1 DEF StudentEntries, AbsentStudent
    <3>3. MarkReconnecting(w, s) = [w EXCEPT !.student[x] = marked]
      BY <1>1, <2>1 DEF MarkReconnecting, Memory
    <3> HIDE DEF marked
    <3> QED BY <1>1, <3>2, <3>3, StudentChangeIsCalm
  <2>2. CASE ~TracksStudent(w, s)
    BY <2>2, CalmReflexive DEF MarkReconnecting
  <2> QED BY <2>1, <2>2
<1> QED BY <1>3, <1>4, <1>5

-----------------------------------------------------------------------------
(* Requests *)

\* A pending request has a student and a professor.
LEMMA PendingLemma ==
    ASSUME NEW w \in Memory, NEW r \in Requests, IsPending(w, r)
    PROVE  w.request[r] \in [status : Statuses \ {"none"}, student : Students,
                             teacher : Teachers, queued : BOOLEAN, createdAt : Nat]
BY DEF Memory, RequestRecords, NoRequest, IsPending

\* Settling a pending request makes nothing pending and starts no session.
LEMMA SettleRequestIsCalm ==
    ASSUME NEW w \in Memory, NEW r \in Requests, IsPending(w, r),
           NEW status \in Statuses \ {"none", "pending"}
    PROVE  Calm(w, SettleRequest(w, r, status))
<1> DEFINE v == SettleRequest(w, r, status)
           settled == Settled(w.request[r], status)
<1>1. /\ settled \in RequestRecords /\ settled.status = status
      /\ settled.teacher = w.request[r].teacher
      /\ settled.student = w.request[r].student
  BY PendingLemma DEF Settled, RequestRecords
<1>2. /\ v \in Memory /\ v.session = w.session /\ v.professors = w.professors
      /\ v.request = [w.request EXCEPT ![r] = settled]
  BY <1>1 DEF SettleRequest, Memory
<1> HIDE DEF v, settled
<1>3. \A q \in Requests : v.request[q] = IF q = r THEN settled ELSE w.request[q]
  BY <1>2 DEF Memory
<1>4. EntriesDistinct(w) => EntriesDistinct(v)
  BY <1>2 DEF EntriesDistinct
<1>5. Calm(w, v)
  BY <1>1, <1>2, <1>3, <1>4
  DEF Calm, TeacherOf, StudentOf, IsActive, IsPending
<1> QED BY <1>5 DEF v

\* releaseProfessorIfQueueEmpty touches nothing but an availability.
LEMMA ReleaseIsCalm ==
    ASSUME NEW w \in Memory, NEW t
    PROVE  Calm(w, ReleaseIfQueueEmpty(w, t))
BY SetAvailabilityOfIsCalm, CalmReflexive DEF ReleaseIfQueueEmpty, Availabilities

\* A request is settled and its professor released.
LEMMA SettleAndReleaseIsCalm ==
    ASSUME NEW w \in Memory, NEW r \in Requests, IsPending(w, r),
           NEW status \in Statuses \ {"none", "pending"}, NEW t
    PROVE  Calm(w, ReleaseIfQueueEmpty(SettleRequest(w, r, status), t))
<1> DEFINE v == SettleRequest(w, r, status)
<1>1. Calm(w, v)
  BY SettleRequestIsCalm
<1> HIDE DEF v
<1>2. Calm(v, ReleaseIfQueueEmpty(v, t))
  BY <1>1, ReleaseIsCalm DEF Calm
<1> QED BY <1>1, <1>2, CalmTransitive DEF v

\* completeRequest: an answer to a request, without the session it may start.
LEMMA CompleteRequestIsCalm ==
    ASSUME NEW w \in Memory, NEW r \in Requests, IsPending(w, r),
           NEW status \in {"accepted", "rejected"}
    PROVE  Calm(w, CompleteRequest(w, r, status))
<1>1. status \in Statuses \ {"none", "pending"}
  BY DEF Statuses
<1> QED BY <1>1, SettleRequestIsCalm, SettleAndReleaseIsCalm DEF CompleteRequest

\* transitionWithoutActor: cancellation and expiry.
LEMMA TransitionWithoutActorIsCalm ==
    ASSUME NEW w \in Memory, NEW r \in Requests, IsPending(w, r),
           NEW status \in {"cancelled", "expired"}
    PROVE  Calm(w, TransitionWithoutActor(w, r, status))
<1>1. status \in Statuses \ {"none", "pending"}
  BY DEF Statuses
<1> QED BY <1>1, SettleRequestIsCalm, SettleAndReleaseIsCalm
        DEF TransitionWithoutActor

\* The student called next is pending, online, and no one the loop expired.
LEMMA NextReachableLemma ==
    ASSUME NEW w \in Memory, NEW t, CanCallNext(w, t)
    PROVE  /\ NextReachable(w, t) \in Queue(w, t) \ Skipped(w, t)
           /\ NextReachable(w, t) \in Requests
           /\ IsPending(w, NextReachable(w, t))
<1> DEFINE next == NextReachable(w, t)
<1>1. \A r \in Requests : w.request[r].createdAt \in Nat
  BY DEF Memory, RequestRecords, NoRequest
<1>2. Reachable(w, t) \in SUBSET Requests /\ Reachable(w, t) # {}
  BY DEF CanCallNext, Reachable, Queue
<1>3. next \in Reachable(w, t)
  BY <1>1, <1>2, HeadOfLemma DEF NextReachable
<1> HIDE DEF next
<1>4. next \in Queue(w, t) /\ next \in Requests /\ IsPending(w, next)
  BY <1>3 DEF Reachable, Queue
<1>5. ~Before(w, next, next)
  <2>1. next \in Nat /\ w.request[next].createdAt \in Nat
    BY <1>1, <1>4, RequestsAssumption
  <2> QED BY <2>1 DEF Before
<1>6. next \notin Skipped(w, t)
  BY <1>2, <1>5 DEF Skipped, next
<1> QED BY <1>4, <1>6 DEF next

\* The students passed over by acceptNextRequest lose their requests, and no more.
LEMMA ExpireSkippedIsCalm ==
    ASSUME NEW w \in Memory, NEW t
    PROVE  /\ Calm(w, ExpireSkipped(w, t))
           /\ \A r \in Requests \ Skipped(w, t) :
                 ExpireSkipped(w, t).request[r] = w.request[r]
<1> DEFINE v == ExpireSkipped(w, t)
           gone == Skipped(w, t)
<1>1. gone \subseteq Requests /\ \A r \in gone : IsPending(w, r)
  BY DEF Skipped, Queue
<1>2. \A r \in gone : LET settled == Settled(w.request[r], "expired")
                      IN  /\ settled \in RequestRecords
                          /\ settled.status = "expired"
                          /\ settled.teacher = w.request[r].teacher
                          /\ settled.student = w.request[r].student
  <2> SUFFICES ASSUME NEW r \in gone
               PROVE  LET settled == Settled(w.request[r], "expired")
                      IN  /\ settled \in RequestRecords
                          /\ settled.status = "expired"
                          /\ settled.teacher = w.request[r].teacher
                          /\ settled.student = w.request[r].student
    OBVIOUS
  <2>1. r \in Requests /\ IsPending(w, r)
    BY <1>1
  <2> HIDE DEF gone
  <2> QED BY <2>1, PendingLemma DEF Settled, RequestRecords, Statuses
<1> HIDE DEF gone
<1>3. /\ v.session = w.session /\ v.professors = w.professors
      /\ v.request = [r \in Requests |-> IF r \in gone
                        THEN Settled(w.request[r], "expired") ELSE w.request[r]]
      /\ v.availability = w.availability /\ v.student = w.student
      /\ v.expiry = w.expiry \ gone /\ v.clock = w.clock /\ v.recovery = w.recovery
      /\ DOMAIN v = DOMAIN w
  BY DEF ExpireSkipped, Memory, gone
<1>4. v \in Memory
  <2>1. v.request \in [Requests -> RequestRecords]
    BY <1>2, <1>3 DEF Memory
  <2>2. v = [w EXCEPT !.request = v.request, !.expiry = v.expiry]
    BY DEF ExpireSkipped, Memory
  <2> HIDE DEF v
  <2> QED BY <1>3, <2>1, <2>2 DEF Memory
<1> HIDE DEF v
<1>5. \A r \in Requests : v.request[r] =
         IF r \in gone THEN Settled(w.request[r], "expired") ELSE w.request[r]
  BY <1>3
<1>6. EntriesDistinct(w) => EntriesDistinct(v)
  BY <1>3 DEF EntriesDistinct
<1>7. Calm(w, v)
  BY <1>1, <1>2, <1>3, <1>4, <1>5, <1>6
  DEF Calm, TeacherOf, StudentOf, IsActive, IsPending
<1> QED BY <1>5, <1>7 DEF v, gone

\* acceptNextRequest is calm: the session is created after it.
LEMMA AcceptNextIsCalm ==
    ASSUME NEW w \in Memory, NEW t, CanCallNext(w, t)
    PROVE  Calm(w, AcceptNext(w, t))
<1> DEFINE left == ExpireSkipped(w, t)
           next == NextReachable(w, t)
<1>1. next \in Requests \ Skipped(w, t) /\ IsPending(w, next)
  BY NextReachableLemma
<1>2. Calm(w, left) /\ \A r \in Requests \ Skipped(w, t) :
                          left.request[r] = w.request[r]
  BY ExpireSkippedIsCalm
<1> HIDE DEF left, next
<1>3. left \in Memory /\ IsPending(left, next)
  BY <1>1, <1>2 DEF Calm, IsPending
<1>4. Calm(left, CompleteRequest(left, next, "accepted"))
  BY <1>1, <1>3, CompleteRequestIsCalm
<1> QED BY <1>2, <1>4, CalmTransitive DEF AcceptNext, left, next

\* acceptNextRequest when no student of the queue is online.
LEMMA ExpireQueueIsCalm ==
    ASSUME NEW w \in Memory, NEW t
    PROVE  Calm(w, ExpireQueue(w, t))
<1> DEFINE left == ExpireSkipped(w, t)
<1>1. Calm(w, left)
  BY ExpireSkippedIsCalm
<1> HIDE DEF left
<1>2. left \in Memory
  BY <1>1 DEF Calm
<1>3. Calm(left, SetAvailabilityOf(left, t, "available"))
  BY <1>2, SetAvailabilityOfIsCalm DEF Availabilities
<1>4. Calm(w, SetAvailabilityOf(left, t, "available"))
  BY <1>1, <1>3, CalmTransitive
<1> QED BY <1>1, <1>4 DEF ExpireQueue, left

-----------------------------------------------------------------------------
(* Sessions *)

\* Replacing a session: an active one may go on or end.
LEMMA SessionChangeIsCalm ==
    ASSUME NEW w \in Memory, NEW r \in Requests, NEW session \in SessionRecords,
           \/ session.state = w.session[r].state
           \/ IsActive(w, r) /\ session.state \in ActiveStates \cup {"FINISHED"},
           NEW timers \in SUBSET Requests
    PROVE  Calm(w, [w EXCEPT !.session[r] = session, !.recovery = timers])
<1> DEFINE v == [w EXCEPT !.session[r] = session, !.recovery = timers]
<1>1. /\ v.request = w.request /\ v.professors = w.professors /\ v \in Memory
      /\ v.session = [w.session EXCEPT ![r] = session]
  BY DEF Memory
<1> HIDE DEF v
<1>2. \A q \in Requests : v.session[q] = IF q = r THEN session ELSE w.session[q]
  BY <1>1 DEF Memory
<1>3. EntriesDistinct(w) => EntriesDistinct(v)
  BY <1>1 DEF EntriesDistinct
<1>4. Calm(w, v)
  BY <1>1, <1>2, <1>3 DEF Calm, TeacherOf, StudentOf, IsActive, IsPending
<1> QED BY <1>4 DEF v

\* finishSession ends a session and frees its professor.
LEMMA FinishSessionIsCalm ==
    ASSUME NEW w \in Memory, NEW r \in Requests, IsActive(w, r)
    PROVE  Calm(w, FinishSession(w, r))
<1> DEFINE finished == [NoSession EXCEPT !.state = "FINISHED"]
           v == [w EXCEPT !.session[r] = finished]
<1>1. finished \in SessionRecords /\ finished.state = "FINISHED"
  BY DEF NoSession, SessionRecords, ActiveStates
<1>2. w.recovery \in SUBSET Requests
  BY DEF Memory
<1>3. v = [w EXCEPT !.session[r] = finished, !.recovery = w.recovery]
  BY DEF Memory
<1>4. FinishSession(w, r) = SetAvailabilityOf(v, TeacherOf(w, r), "available")
  BY DEF FinishSession
<1> HIDE DEF finished, v
<1>5. Calm(w, v)
  BY <1>1, <1>2, <1>3, SessionChangeIsCalm
<1>6. Calm(v, SetAvailabilityOf(v, TeacherOf(w, r), "available"))
  BY <1>5, SetAvailabilityOfIsCalm DEF Calm, Availabilities
<1> QED BY <1>4, <1>5, <1>6, CalmTransitive

\* recoverSession seats a participant of a session that was active already.
LEMMA RecoverSessionIsCalm ==
    ASSUME NEW w \in Memory, NEW r \in Requests, NEW s \in Sockets,
           MayRecover(w, r, s)
    PROVE  Calm(w, RecoverSession(w, r, s))
<1> DEFINE seated == IF Owner[s] \in Teachers
                     THEN [w.session[r] EXCEPT !.teacherSocket = s]
                     ELSE [w.session[r] EXCEPT !.studentSocket = s]
           recovered == IF Rejoined(seated)
                        THEN [seated EXCEPT !.state = "CONNECTED", !.deadline = "none"]
                        ELSE [seated EXCEPT !.state = "RECOVERING"]
           timers == IF recovered.deadline = "none"
                     THEN w.recovery \ {r} ELSE w.recovery \cup {r}
           v == [w EXCEPT !.session[r] = recovered, !.recovery = timers]
<1>1. s \in TeacherSockets \/ (Owner[s] \notin Teachers /\ s \in StudentSockets)
  BY PresenceAssumption DEF TeacherSockets, StudentSockets
<1>2. w.session[r] \in SessionRecords
  BY DEF Memory
<1>3. seated \in SessionRecords
  BY <1>1, <1>2 DEF SessionRecords, TeacherSockets
<1> HIDE DEF seated
<1>4. recovered \in SessionRecords /\ recovered.state \in ActiveStates
  BY <1>3 DEF SessionRecords, ActiveStates
<1> HIDE DEF recovered
<1>5. timers \in SUBSET Requests
  BY DEF Memory
<1> HIDE DEF timers
<1>6. Calm(w, v)
  BY <1>4, <1>5, SessionChangeIsCalm DEF MayRecover
<1>7. RecoverSession(w, r, s) = SetAvailabilityOf(v, TeacherOf(w, r), "busy")
  BY DEF RecoverSession, seated, recovered, timers
<1> HIDE DEF v
<1>8. Calm(v, SetAvailabilityOf(v, TeacherOf(w, r), "busy"))
  BY <1>6, SetAvailabilityOfIsCalm DEF Calm, Availabilities
<1> QED BY <1>6, <1>7, <1>8, CalmTransitive

\* A lost socket vacates seats; the sessions stay active.
LEMMA DropSocketIsCalm ==
    ASSUME NEW w \in Memory, NEW s \in Sockets
    PROVE  Calm(w, DropSocket(w, s))
<1> DEFINE hit == {r \in Requests : IsActive(w, r) /\ HasParticipant(w, r, s)}
           v == DropSocket(w, s)
<1>1. hit \subseteq Requests /\ \A r \in hit : IsActive(w, r)
  OBVIOUS
<1> HIDE DEF hit
<1>2. \A r \in Requests : w.session[r] \in SessionRecords
  BY DEF Memory
<1>3. \A r \in Requests : /\ Interrupted(w.session[r], s) \in SessionRecords
                        /\ Interrupted(w.session[r], s).state \in ActiveStates
  BY <1>2 DEF SessionRecords, ActiveStates, Interrupted
<1>4. v = [w EXCEPT !.session = [r \in Requests |-> IF r \in hit
                        THEN Interrupted(w.session[r], s) ELSE w.session[r]],
                    !.recovery = w.recovery \cup hit]
  BY DEF DropSocket, hit, Memory
<1> HIDE DEF v
<1>5. /\ v.request = w.request /\ v.professors = w.professors
      /\ v \in Memory
      /\ \A r \in Requests : v.session[r] = IF r \in hit
                        THEN Interrupted(w.session[r], s) ELSE w.session[r]
  BY <1>1, <1>2, <1>3, <1>4 DEF Memory
<1>6. EntriesDistinct(w) => EntriesDistinct(v)
  BY <1>5 DEF EntriesDistinct
<1>7. Calm(w, v)
  BY <1>1, <1>3, <1>5, <1>6 DEF Calm, TeacherOf, StudentOf, IsActive, IsPending
<1> QED BY <1>7 DEF v

\* A restart revives only sessions that were active, and expires what was pending.
LEMMA RestartedIsCalm ==
    ASSUME NEW w \in Memory
    PROVE  Calm(w, Restarted(w)) /\ EntriesDistinct(Restarted(w))
<1> DEFINE v == Restarted(w)
           back == [NoSession EXCEPT !.state = "RECOVERING", !.deadline = "ahead"]
<1>1. back \in SessionRecords /\ back.state \in ActiveStates
  BY DEF NoSession, SessionRecords, ActiveStates
<1>2. /\ v.professors = NoProfessors /\ v.availability = NoAvailability
      /\ v.student = NoStudents /\ v.expiry = {} /\ v.clock = w.clock
      /\ v.recovery = {r \in Requests : IsActive(w, r)}
      /\ v.request = [r \in Requests |-> IF IsPending(w, r)
                        THEN Settled(w.request[r], "expired") ELSE w.request[r]]
      /\ v.session = [r \in Requests |-> IF IsActive(w, r)
                        THEN back ELSE w.session[r]]
      /\ v \in [professors : {v.professors}, availability : {v.availability},
                student : {v.student}, request : {v.request}, expiry : {v.expiry},
                clock : {v.clock}, session : {v.session}, recovery : {v.recovery}]
  BY DEF Restarted
<1>3. \A r \in Requests : IsPending(w, r) =>
         LET settled == Settled(w.request[r], "expired")
         IN  /\ settled \in RequestRecords /\ settled.status = "expired"
             /\ settled.teacher = w.request[r].teacher
             /\ settled.student = w.request[r].student
  <2> SUFFICES ASSUME NEW r \in Requests, IsPending(w, r)
               PROVE  LET settled == Settled(w.request[r], "expired")
                      IN  /\ settled \in RequestRecords /\ settled.status = "expired"
                          /\ settled.teacher = w.request[r].teacher
                          /\ settled.student = w.request[r].student
    OBVIOUS
  <2> QED BY PendingLemma DEF Settled, RequestRecords, Statuses
<1> HIDE DEF back, v
<1>4. v.professors \in [Teachers -> Seq(TeacherSockets)] /\ EntriesDistinct(v)
  <2>1. << >> \in Seq(TeacherSockets) /\ DOMAIN << >> = {}
    BY EmptySeq
  <2>2. IsInjective(<< >>)
    BY <2>1 DEF IsInjective
  <2> QED BY <1>2, <2>1, <2>2 DEF NoProfessors, EntriesDistinct
<1>5. /\ v.availability \in [Sockets -> Availabilities \cup {"offline"}]
      /\ v.student \in [Students -> StudentEntries]
      /\ v.expiry \in SUBSET Requests /\ v.clock \in Nat
      /\ v.recovery \in SUBSET Requests
  BY <1>2 DEF NoAvailability, NoStudents, StudentEntries, Memory
<1>6. /\ v.request \in [Requests -> RequestRecords]
      /\ v.session \in [Requests -> SessionRecords]
  BY <1>1, <1>2, <1>3 DEF Memory
<1>7. v \in Memory
  BY <1>2, <1>4, <1>5, <1>6 DEF Memory
<1>8. \A r \in Requests :
         /\ v.request[r] = IF IsPending(w, r)
                           THEN Settled(w.request[r], "expired") ELSE w.request[r]
         /\ v.session[r] = IF IsActive(w, r) THEN back ELSE w.session[r]
  BY <1>2
<1>9. Calm(w, v)
  BY <1>1, <1>3, <1>4, <1>7, <1>8 DEF Calm, TeacherOf, StudentOf, IsActive, IsPending
<1> QED BY <1>4, <1>9 DEF v

-----------------------------------------------------------------------------
(* The two operators that are not calm *)

\* Setting an availability touches nothing else.
LEMMA SetAvailabilityOfKeeps ==
    ASSUME NEW w \in Memory, NEW t, NEW a
    PROVE  LET v == SetAvailabilityOf(w, t, a)
           IN  /\ v.request = w.request /\ v.session = w.session
               /\ v.professors = w.professors /\ v.clock = w.clock
               /\ v.expiry = w.expiry
BY DEF SetAvailabilityOf, SetAvailability, Memory

\* createRequest, after its checks.
LEMMA CreateRequestIsLawful ==
    ASSUME NEW w \in Memory, NEW s \in StudentSockets, NEW t \in Teachers,
           NEW r \in Requests, w.request[r].status = "none",
           MayRequest(w, s, t), NEW tick \in BOOLEAN
    PROVE  Lawful(w, CreateRequest(w, s, t, r, tick))
<1> DEFINE x == Owner[s]
           queued == AvailabilityOf(w, t) = "busy"
           now == IF tick THEN w.clock + 1 ELSE w.clock
           request == [status |-> "pending", student |-> x, teacher |-> t,
                       queued |-> queued, createdAt |-> now]
           timers == IF queued THEN w.expiry ELSE w.expiry \cup {r}
           u == SetAvailabilityOf(w, t, "busy")
           v == CreateRequest(w, s, t, r, tick)
<1>1. w \in Memory /\ x \in Students
  BY OwnerType
<1>2. /\ u \in Memory /\ u.request = w.request /\ u.session = w.session
      /\ u.professors = w.professors /\ u.expiry = w.expiry
  BY <1>1, SetAvailabilityOfKeeps, SetAvailabilityOfIsCalm DEF Calm, Availabilities
<1>3. v = [u EXCEPT !.request[r] = request,
                    !.expiry = timers, !.clock = now]
  BY <1>2 DEF CreateRequest
<1>4. queued \in BOOLEAN
  OBVIOUS
<1>5. now \in Nat /\ timers \in SUBSET Requests
  BY <1>1 DEF Memory
<1> HIDE DEF u, v, now, queued, timers, x
<1>6. request \in RequestRecords
  BY <1>1, <1>4, <1>5 DEF RequestRecords, Statuses
<1>7. /\ v \in Memory /\ v.session = w.session /\ v.professors = w.professors
      /\ \A q \in Requests :
            v.request[q] = IF q = r THEN request ELSE w.request[q]
  BY <1>2, <1>3, <1>5, <1>6 DEF Memory
<1>8. \A q \in Requests : IsActive(v, q) <=> IsActive(w, q)
  BY <1>7 DEF IsActive
<1>9. /\ \A q \in Requests \ {r} :
            /\ TeacherOf(v, q) = TeacherOf(w, q)
            /\ StudentOf(v, q) = StudentOf(w, q)
            /\ v.request[q].status = w.request[q].status
            /\ IsPending(v, q) <=> IsPending(w, q)
      /\ StudentOf(v, r) = x
  BY <1>7 DEF TeacherOf, StudentOf, IsPending
<1>10. EntriesDistinct(w) => EntriesDistinct(v)
  BY <1>7 DEF EntriesDistinct
<1>11. \A q \in Requests : IsPending(w, q) => StudentOf(w, q) # x
  BY DEF MayRequest, HasPending, StudentOf, x
<1>12. \A p, q \in Requests : p # q /\ IsPending(v, p) /\ IsPending(v, q) =>
          \/ IsPending(w, p) /\ IsPending(w, q)
          \/ StudentOf(v, p) # StudentOf(v, q)
  BY <1>9, <1>11
<1> QED BY <1>7, <1>8, <1>9, <1>10, <1>12 DEF Lawful, v

\* createSession, after its checks.
LEMMA CreateSessionIsLawful ==
    ASSUME NEW w \in Memory, Founded(w), NEW r \in Requests, MayStart(w, r)
    PROVE  Lawful(w, CreateSession(w, r))
<1> DEFINE t == TeacherOf(w, r)
           x == StudentOf(w, r)
           session == [state |-> "CONNECTED",
                       teacherSocket |-> FindProfessor(w, t),
                       studentSocket |-> w.student[x].socket,
                       deadline |-> "none"]
           v == [w EXCEPT !.session[r] = session]
<1>1. w \in Memory /\ w.request[r].status = "accepted"
  BY DEF MayStart
<1>2. t \in Teachers /\ x \in Students
  BY <1>1 DEF Memory, RequestRecords, NoRequest, TeacherOf, StudentOf
<1>3. CreateSession(w, r) = SetAvailabilityOf(v, t, "busy")
  BY DEF CreateSession
<1>4. session \in SessionRecords /\ session.state \in ActiveStates
  <2>1. FindProfessor(w, t) \in TeacherSockets
    BY <1>1, <1>2, FindProfessorLemma DEF MayStart
  <2>2. w.student[x].socket \in StudentSockets \cup {None}
    BY <1>1, <1>2 DEF Memory, StudentEntries, AbsentStudent
  <2> HIDE DEF t, x
  <2> QED BY <2>1, <2>2 DEF SessionRecords, ActiveStates
<1> HIDE DEF session
<1>5. /\ v \in Memory /\ v.request = w.request /\ v.professors = w.professors
      /\ \A q \in Requests : v.session[q] = IF q = r THEN session ELSE w.session[q]
  BY <1>1, <1>4 DEF Memory
<1> HIDE DEF v
<1>6. \A q \in Requests :
         /\ TeacherOf(v, q) = TeacherOf(w, q) /\ StudentOf(v, q) = StudentOf(w, q)
         /\ IsPending(v, q) <=> IsPending(w, q)
         /\ v.request[q].status = w.request[q].status
         /\ IsActive(v, q) => q = r \/ IsActive(w, q)
         /\ v.session[q].state # "none" => q = r \/ w.session[q].state # "none"
         /\ w.session[q].state # "none" => v.session[q].state # "none"
  BY <1>4, <1>5 DEF TeacherOf, StudentOf, IsPending, IsActive, ActiveStates
<1>7. EntriesDistinct(w) => EntriesDistinct(v)
  BY <1>5 DEF EntriesDistinct
<1>8. \A p, q \in Requests : p # q /\ IsActive(v, p) /\ IsActive(v, q) =>
          \/ IsActive(w, p) /\ IsActive(w, q)
          \/ TeacherOf(v, p) # TeacherOf(v, q) /\ StudentOf(v, p) # StudentOf(v, q)
  <2>1. \A q \in Requests : IsActive(w, q) =>
           TeacherOf(w, q) # TeacherOf(w, r) /\ StudentOf(w, q) # StudentOf(w, r)
    BY DEF MayStart, TeacherEngaged, StudentEngaged
  <2> QED BY <1>6, <2>1
<1>9. Lawful(w, v)
  BY <1>1, <1>5, <1>6, <1>7, <1>8 DEF Lawful
<1>10. Calm(v, SetAvailabilityOf(v, t, "busy"))
  BY <1>5, SetAvailabilityOfIsCalm DEF Availabilities
<1> QED BY <1>3, <1>9, <1>10, LawfulThenCalm

-----------------------------------------------------------------------------
(* Calling the next student *)

\* promoteNext, the session it starts included.
LEMMA PromoteNextIsLawful ==
    ASSUME NEW w \in Memory, Founded(w), NEW t
    PROVE  Lawful(w, PromoteNext(w, t))
<1>1. CASE CanCallNext(w, t)
  <2> DEFINE called == AcceptNext(w, t)
             r == NextReachable(w, t)
  <2>1. r \in Requests
    BY <1>1, NextReachableLemma
  <2>2. Lawful(w, called)
    BY <1>1, AcceptNextIsCalm, CalmIsLawful
  <2>3. called \in Memory /\ Founded(called)
    BY <2>2, LawfulKeepsFounded DEF Lawful
  <2>4. MayStart(called, r) => Lawful(called, CreateSession(called, r))
    BY <2>1, <2>3, CreateSessionIsLawful
  <2>5. MayStart(called, r) => Lawful(w, CreateSession(called, r))
    BY <2>2, <2>4, LawfulTransitive
  <2> QED BY <1>1, <2>2, <2>5 DEF PromoteNext
<1>2. CASE ~CanCallNext(w, t)
  <2> DEFINE left == IF AvailabilityOf(w, t) \in {"available", "busy"}
                     THEN ExpireQueue(w, t) ELSE w
  <2>1. Calm(w, left)
    BY ExpireQueueIsCalm, CalmReflexive
  <2>2. PromoteNext(w, t) = IF TeacherEngaged(left, t) THEN left
                            ELSE ReleaseIfQueueEmpty(left, t)
    BY <1>2 DEF PromoteNext
  <2> HIDE DEF left
  <2>3. Calm(left, ReleaseIfQueueEmpty(left, t))
    BY <2>1, ReleaseIsCalm DEF Calm
  <2> QED BY <2>1, <2>2, <2>3, CalmIsLawful, LawfulThenCalm
<1> QED BY <1>1, <1>2

\* promoteQueuedIfIdle, after a cancellation or an expiry.
LEMMA PromoteQueuedIfIdleIsLawful ==
    ASSUME NEW w \in Memory, Founded(w), NEW t
    PROVE  Lawful(w, PromoteQueuedIfIdle(w, t))
<1>1. Lawful(w, ReleaseIfQueueEmpty(w, t)) /\ Lawful(w, w)
  BY ReleaseIsCalm, CalmReflexive, CalmIsLawful
<1> QED BY <1>1, PromoteNextIsLawful DEF PromoteQueuedIfIdle

\* The queue's reaction to 'professor:online'.
LEMMA ResumeQueueIsLawful ==
    ASSUME NEW w \in Memory, Founded(w), NEW t
    PROVE  Lawful(w, ResumeQueue(w, t))
<1>1. Lawful(w, Synchronize(w, t))
  BY SetAvailabilityOfIsCalm, CalmReflexive, CalmIsLawful DEF Availabilities, Synchronize
<1>2. Synchronize(w, t) \in Memory /\ Founded(Synchronize(w, t))
  BY <1>1, LawfulKeepsFounded DEF Lawful
<1>3. Lawful(w, PromoteNext(Synchronize(w, t), t))
  BY <1>1, <1>2, PromoteNextIsLawful, LawfulTransitive
<1> QED BY <1>1, <1>3 DEF ResumeQueue

\* Disarming recovery timers.
LEMMA DisarmIsCalm ==
    ASSUME NEW w \in Memory, NEW r
    PROVE  Calm(w, [w EXCEPT !.recovery = @ \ {r}])
<1> DEFINE v == [w EXCEPT !.recovery = @ \ {r}]
<1>1. /\ v \in Memory /\ v.request = w.request /\ v.session = w.session
      /\ v.professors = w.professors
  BY DEF Memory
<1> HIDE DEF v
<1>2. EntriesDistinct(w) => EntriesDistinct(v)
  BY <1>1 DEF EntriesDistinct
<1> QED BY <1>1, <1>2, PresenceChangeIsCalm DEF v

\* The end of a session and the promotion that its listeners make.
LEMMA EndAndPromoteIsLawful ==
    ASSUME NEW w \in Memory, Founded(w), NEW r \in Requests, IsActive(w, r)
    PROVE  Lawful(w, EndAndPromote(w, r))
<1> DEFINE finished == FinishSession(w, r)
           promoted == PromoteNext(finished, TeacherOf(w, r))
<1>1. Lawful(w, finished)
  BY FinishSessionIsCalm, CalmIsLawful
<1>2. finished \in Memory /\ Founded(finished)
  BY <1>1, LawfulKeepsFounded DEF Lawful
<1>3. EndAndPromote(w, r) =
         IF PromotionThrows(finished, TeacherOf(w, r))
         THEN promoted ELSE [promoted EXCEPT !.recovery = @ \ {r}]
  BY DEF EndAndPromote
<1> HIDE DEF finished
<1>4. Lawful(w, promoted)
  BY <1>1, <1>2, PromoteNextIsLawful, LawfulTransitive
<1> HIDE DEF promoted
<1>5. Calm(promoted, [promoted EXCEPT !.recovery = @ \ {r}])
  BY <1>4, DisarmIsCalm DEF Lawful
<1> QED BY <1>3, <1>4, <1>5, LawfulThenCalm

\* A sound memory is one that the lemmas above speak of.
LEMMA SoundIsFounded ==
    ASSUME NEW w, Sound(w)
    PROVE  w \in Memory /\ EntriesDistinct(w) /\ Founded(w)
BY DEF Sound, SessionIsAccepted, Founded

\* createRequest keeps the memory sound, ...
LEMMA CreateRequestIsSound ==
    ASSUME NEW w, Sound(w), NEW s \in StudentSockets, NEW t \in Teachers,
           NEW r \in Requests, w.request[r].status = "none",
           MayRequest(w, s, t), NEW tick \in BOOLEAN
    PROVE  Sound(CreateRequest(w, s, t, r, tick))
BY SoundIsFounded, CreateRequestIsLawful, LawfulKeepsSound

\* ... and so do createSession ...
LEMMA CreateSessionIsSound ==
    ASSUME NEW w, Sound(w), NEW r \in Requests, MayStart(w, r)
    PROVE  Sound(CreateSession(w, r))
BY SoundIsFounded, CreateSessionIsLawful, LawfulKeepsSound

\* ... and promoteNext.
LEMMA PromoteNextIsSound ==
    ASSUME NEW w, Sound(w), NEW t
    PROVE  Sound(PromoteNext(w, t))
BY SoundIsFounded, PromoteNextIsLawful, LawfulKeepsSound

-----------------------------------------------------------------------------
(* The inductive invariant *)

Inv ==
    /\ up \in BOOLEAN
    /\ connected \subseteq Sockets
    /\ Sound(server)

\* An empty server satisfies the invariant.
LEMMA InitInv == Init => Inv
<1> SUFFICES ASSUME Init PROVE Inv
  OBVIOUS
<1>1. << >> \in Seq(TeacherSockets) /\ IsInjective(<< >>)
  <2>1. << >> \in Seq(TeacherSockets) /\ DOMAIN << >> = {}
    BY EmptySeq
  <2> QED BY <2>1 DEF IsInjective
<1>2. EntriesDistinct(server)
  BY <1>1 DEF Init, EntriesDistinct, NoProfessors
<1>3. server \in Memory
  <2>1. /\ NoProfessors \in [Teachers -> Seq(TeacherSockets)]
        /\ NoAvailability \in [Sockets -> Availabilities \cup {"offline"}]
        /\ NoStudents \in [Students -> StudentEntries]
    BY <1>1 DEF NoProfessors, NoAvailability, NoStudents, StudentEntries
  <2>2. NoRequests \in [Requests -> RequestRecords]
    BY DEF NoRequests, RequestRecords
  <2>3. NoSessions \in [Requests -> SessionRecords]
    BY DEF NoSessions, NoSession, SessionRecords
  <2> QED BY <2>1, <2>2, <2>3 DEF Init, Memory
<1>4. \A r \in Requests : /\ ~IsActive(server, r) /\ ~IsPending(server, r)
                        /\ server.session[r].state = "none"
  BY DEF Init, IsActive, IsPending, ActiveStates, NoRequests, NoRequest,
         NoSessions, NoSession
<1> QED BY <1>2, <1>3, <1>4
        DEF Init, Inv, Sound, SessionIsAccepted, Apart, OnePending

\* The two listeners of a professor's 'disconnect'.
LEMMA TeacherDisconnectsIsCalm ==
    ASSUME server \in Memory, EntriesDistinct(server),
           NEW s \in Sockets, TeacherDisconnects(s)
    PROVE  Calm(server, server')
<1>1. s \in TeacherSockets
  BY DEF TeacherDisconnects
<1> DEFINE gone == RemoveProfessor(server, s)
<1>2. Calm(server, gone)
  BY <1>1, RemoveProfessorIsCalm
<1> HIDE DEF gone
<1>3. Calm(gone, DropSocket(gone, s))
  BY <1>2, DropSocketIsCalm DEF Calm
<1> QED BY <1>2, <1>3, CalmTransitive DEF TeacherDisconnects, gone

\* The same for a student, with or without a goodbye.
LEMMA StudentDisconnectsIsCalm ==
    ASSUME server \in Memory, NEW s \in Sockets, StudentDisconnects(s)
    PROVE  Calm(server, server')
<1>1. s \in StudentSockets
  BY DEF StudentDisconnects
<1>2. ASSUME NEW gone, Calm(server, gone)
      PROVE  Calm(server, DropSocket(gone, s))
  <2>1. Calm(gone, DropSocket(gone, s))
    BY <1>2, DropSocketIsCalm DEF Calm
  <2> QED BY <1>2, <2>1, CalmTransitive
<1> QED BY <1>1, <1>2, StudentPresenceIsCalm DEF StudentDisconnects

\* Time passes for a session that waits for a participant.
LEMMA ElapseIsCalm ==
    ASSUME server \in Memory, NEW r \in Requests, Elapse(r)
    PROVE  Calm(server, server')
<1> DEFINE later == IF server.session[r].deadline = "ahead" THEN "reached" ELSE "passed"
           session == [server.session[r] EXCEPT !.deadline = later]
<1>1. /\ session \in SessionRecords
      /\ session.state = server.session[r].state
  BY DEF Memory, SessionRecords
<1>2. server.recovery \in SUBSET Requests
  BY DEF Memory
<1>3. server' = [server EXCEPT !.session[r] = session, !.recovery = server.recovery]
  BY DEF Elapse, Memory
<1> HIDE DEF session
<1> QED BY <1>1, <1>2, <1>3, SessionChangeIsCalm DEF IsActive

\* Every handler and every timer makes a lawful change.
LEMMA EventIsLawful ==
    ASSUME server \in Memory, EntriesDistinct(server), Founded(server), up \in BOOLEAN,
           connected \subseteq Sockets,
           TransportEvent \/ PresenceEvent \/ RequestEvent \/ SessionEvent
    PROVE  Lawful(server, server') /\ up' \in BOOLEAN /\ connected' \subseteq Sockets
<1> DEFINE Goal == Lawful(server, server') /\ up' \in BOOLEAN /\ connected' \subseteq Sockets
<1>0. Lawful(server, server)
  BY CalmReflexive, CalmIsLawful
<1>1. ASSUME NEW s \in Sockets, Connect(s) PROVE Goal
  BY <1>0, <1>1 DEF Connect
<1>2. ASSUME NEW s \in Sockets, TeacherDisconnects(s) PROVE Goal
  BY <1>2, TeacherDisconnectsIsCalm, CalmIsLawful DEF TeacherDisconnects
<1>3. ASSUME NEW s \in Sockets, StudentDisconnects(s) PROVE Goal
  BY <1>3, StudentDisconnectsIsCalm, CalmIsLawful DEF StudentDisconnects
<1>4. ASSUME NEW s \in Sockets, ProfessorComesOnline(s) PROVE Goal
  <2> DEFINE w == RegisterProfessor(server, s)
             t == Owner[s]
  <2>1. Lawful(server, w)
    BY <1>4, RegisterProfessorIsCalm, CalmIsLawful DEF ProfessorComesOnline
  <2>2. w \in Memory /\ Founded(w)
    BY <2>1, LawfulKeepsFounded DEF Lawful
  <2>3. Lawful(server, ResumeQueue(w, t))
    BY <2>1, <2>2, ResumeQueueIsLawful, LawfulTransitive
  <2> QED BY <1>0, <1>4, <2>3 DEF ProfessorComesOnline
<1>5. ASSUME NEW s \in Sockets, ProfessorSetsAvailability(s) PROVE Goal
  <2>1. Calm(server, server')
    BY <1>5, SetAvailabilityIsCalm DEF ProfessorSetsAvailability, Availabilities
  <2> QED BY <1>5, <2>1, CalmIsLawful DEF ProfessorSetsAvailability
<1>6. ASSUME NEW s \in Sockets, ProfessorHeartbeatExpires(s) PROVE Goal
  BY <1>6, RemoveProfessorIsCalm, CalmIsLawful DEF ProfessorHeartbeatExpires
<1>7. ASSUME NEW s \in Sockets, StudentRegisters(s) PROVE Goal
  BY <1>7, StudentPresenceIsCalm, CalmIsLawful DEF StudentRegisters
<1>8. ASSUME NEW x \in Students, StudentEntryRemoved(x) PROVE Goal
  <2>1. server.student[x].socket \in StudentSockets
    BY <1>8 DEF StudentEntryRemoved, Memory, StudentEntries
  <2> QED BY <1>8, <2>1, StudentPresenceIsCalm, CalmIsLawful DEF StudentEntryRemoved
<1>9. ASSUME NEW s \in Sockets, NEW t \in Teachers, RequestSession(s, t) PROVE Goal
  <2>1. PICK r \in Requests, tick \in BOOLEAN :
           /\ server.request[r].status = "none"
           /\ server' = CreateRequest(server, s, t, r, tick)
    BY <1>9 DEF RequestSession, Unused
  <2>2. Lawful(server, CreateRequest(server, s, t, r, tick))
    BY <1>9, <2>1, CreateRequestIsLawful DEF RequestSession
  <2> QED BY <1>9, <2>1, <2>2 DEF RequestSession
<1>10. ASSUME NEW s \in Sockets, NEW r \in Requests, Accept(s, r) PROVE Goal
  <2> DEFINE w == CompleteRequest(server, r, "accepted")
  <2>1. Lawful(server, w)
    BY <1>10, CompleteRequestIsCalm, CalmIsLawful DEF Accept, MayAnswer
  <2>2. w \in Memory /\ Founded(w)
    BY <2>1, LawfulKeepsFounded DEF Lawful
  <2>3. MayStart(w, r) => Lawful(server, CreateSession(w, r))
    BY <2>1, <2>2, CreateSessionIsLawful, LawfulTransitive
  <2> QED BY <1>10, <2>1, <2>3 DEF Accept
<1>11. ASSUME NEW s \in Sockets, NEW r \in Requests, Reject(s, r) PROVE Goal
  BY <1>11, CompleteRequestIsCalm, CalmIsLawful DEF Reject, MayAnswer
<1>12. ASSUME NEW s \in Sockets, NEW r \in Requests, Cancel(s, r) PROVE Goal
  <2> DEFINE w == TransitionWithoutActor(server, r, "cancelled")
             t == TeacherOf(server, r)
  <2>1. Lawful(server, w)
    BY <1>12, TransitionWithoutActorIsCalm, CalmIsLawful DEF Cancel
  <2>2. w \in Memory /\ Founded(w)
    BY <2>1, LawfulKeepsFounded DEF Lawful
  <2>3. Lawful(server, PromoteQueuedIfIdle(w, t))
    BY <2>1, <2>2, PromoteQueuedIfIdleIsLawful, LawfulTransitive
  <2> QED BY <1>12, <2>3 DEF Cancel
<1>13. ASSUME NEW r \in Requests, RequestExpires(r) PROVE Goal
  <2> DEFINE w == TransitionWithoutActor(server, r, "expired")
             t == TeacherOf(server, r)
  <2>1. Lawful(server, w)
    BY <1>13, TransitionWithoutActorIsCalm, CalmIsLawful DEF RequestExpires
  <2>2. w \in Memory /\ Founded(w)
    BY <2>1, LawfulKeepsFounded DEF Lawful
  <2>3. Lawful(server, PromoteQueuedIfIdle(w, t))
    BY <2>1, <2>2, PromoteQueuedIfIdleIsLawful, LawfulTransitive
  <2> QED BY <1>0, <1>13, <2>3 DEF RequestExpires
<1>14. ASSUME NEW s \in Sockets, NEW r \in Requests, EndSession(s, r) PROVE Goal
  BY <1>14, EndAndPromoteIsLawful DEF EndSession
<1>15. ASSUME NEW s \in Sockets, NEW r \in Requests, Recover(s, r) PROVE Goal
  BY <1>15, RecoverSessionIsCalm, CalmIsLawful DEF Recover
<1>16. ASSUME NEW r \in Requests, Elapse(r) PROVE Goal
  BY <1>16, ElapseIsCalm, CalmIsLawful DEF Elapse
<1>17. ASSUME NEW r \in Requests, RecoveryTimerFires(r) PROVE Goal
  BY <1>0, <1>17, EndAndPromoteIsLawful DEF RecoveryTimerFires, RecoveryIsOver
<1>18. ASSUME NEW r \in Requests, RecoveryTimerIdle(r) PROVE Goal
  BY <1>18, DisarmIsCalm, CalmIsLawful DEF RecoveryTimerIdle
<1> HIDE DEF Goal
<1>19. TransportEvent => Goal
  BY <1>1, <1>2, <1>3 DEF TransportEvent
<1>20. PresenceEvent => Goal
  BY <1>4, <1>5, <1>6, <1>7, <1>8 DEF PresenceEvent
<1>21. RequestEvent => Goal
  BY <1>9, <1>10, <1>11, <1>12, <1>13 DEF RequestEvent
<1>22. SessionEvent => Goal
  BY <1>14, <1>15, <1>16, <1>17, <1>18 DEF SessionEvent
<1>23. Goal
  BY <1>19, <1>20, <1>21, <1>22
<1> QED BY <1>23 DEF Goal

\* Every step of Next keeps the invariant.
LEMMA NextInv == Inv /\ [Next]_vars => Inv'
<1> SUFFICES ASSUME Inv, [Next]_vars PROVE Inv'
  OBVIOUS
<1>0. server \in Memory /\ EntriesDistinct(server) /\ Founded(server) /\ Sound(server)
  BY SoundIsFounded DEF Inv
<1>1. CASE TransportEvent \/ PresenceEvent \/ RequestEvent \/ SessionEvent
  <2>1. Lawful(server, server') /\ up' \in BOOLEAN /\ connected' \subseteq Sockets
    BY <1>0, <1>1, EventIsLawful DEF Inv
  <2> QED BY <1>0, <2>1, LawfulKeepsSound DEF Inv
<1>2. CASE Restart
  <2>1. Sound(server')
    BY <1>0, <1>2, RestartedIsCalm, CalmKeepsSound DEF Restart
  <2> QED BY <1>2, <2>1 DEF Restart, Inv
<1>3. CASE UNCHANGED vars
  BY <1>3 DEF vars, Inv
<1> QED BY <1>1, <1>2, <1>3 DEF Next

-----------------------------------------------------------------------------
\* The inductive invariant holds in every state of every behaviour.
THEOREM Invariance == Spec => []Inv
BY InitInv, NextInv, PTL DEF Spec

\* Type correctness: whatever the clients do and whenever timers fire or the
\* process restarts, the managers' memory keeps its shape and no socket is
\* registered twice for a professor (presence.manager.ts).
THEOREM TypeCorrect == Spec => []TypeOK
<1>1. Inv => TypeOK
  BY DEF Inv, Sound, EntriesDistinct, TypeOK
<1> QED BY <1>1, Invariance, PTL

\* Nobody is in two attendances at once (createSession's two checks).  Apart
\* alone is not inductive: the step that makes a request must not give the
\* session of an old request a new student, so the induction also carries
\* SessionIsAccepted.
THEOREM AttendanceExclusive == Spec => []OneAttendanceEach
<1>1. Inv => OneAttendanceEach
  BY DEF Inv, Sound, Apart, OneAttendanceEach
<1> QED BY <1>1, Invariance, PTL

\* A student waits for at most one professor (createRequest's check).
THEOREM PendingExclusive == Spec => []OnePendingPerStudent
<1>1. Inv => OnePendingPerStudent
  BY DEF Inv, Sound, OnePending, OnePendingPerStudent
<1> QED BY <1>1, Invariance, PTL

-----------------------------------------------------------------------------
(* The database (Durable).  Failed writes leave rows that never were in    *)
(* memory together, and a restart makes a memory of them: it need not be   *)
(* Sound, but it is Kept.                                                  *)

TeachersApart(w) ==
    \A p, q \in Requests : p # q /\ IsActive(w, p) /\ IsActive(w, q) =>
        TeacherOf(w, p) # TeacherOf(w, q)

Kept(w) == w \in Memory /\ EntriesDistinct(w) /\ Founded(w) /\ TeachersApart(w)

RowStates == {"none", "open", "FINISHED"}

Written ==
    [table : {"request"}, id : Requests, row : RequestRecords]
        \cup [table : {"session"}, id : Requests, row : RowStates]

\* A row of a request says who asked whom as memory does.
Known(w, r, row) ==
    row.status # "none" /\ row.teacher = TeacherOf(w, r) /\ row.student = StudentOf(w, r)

\* Only requests that were made, and their sessions, are written.
Truthful(w, write) ==
    /\ w.request[write.id].status # "none"
    /\ write.table = "request" => Known(w, write.id, write.row)

\* The writes that may be queued while the memory is w.
Queueable(w) == {write \in Written : Truthful(w, write)}

\* The rows keep the indexes and the foreign key, and are about the requests
\* that memory knows.
Consistent(w, db) ==
    /\ db \in [request : [Requests -> RequestRecords], session : [Requests -> RowStates]]
    /\ \A r \in Requests : db.session[r] # "none" => db.request[r].status # "none"
    /\ \A p, q \in Requests : p # q /\ db.session[p] = "open" /\ db.session[q] = "open" =>
          db.request[p].teacher # db.request[q].teacher
    /\ \A r \in Requests : db.request[r].status # "none" =>
          w.request[r].status # "none" /\ Known(w, r, db.request[r])

DurableInv ==
    /\ up \in BOOLEAN /\ connected \subseteq Sockets
    /\ Kept(server)
    /\ Consistent(server, rows)
    /\ writes \in Seq(Queueable(server))

\* A lawful change keeps the memory fit to be written down.
LEMMA LawfulKeepsKept ==
    ASSUME NEW w, NEW v, Kept(w), Lawful(w, v)
    PROVE  Kept(v)
<1>1. v \in Memory /\ EntriesDistinct(v) /\ Founded(v)
  BY LawfulKeepsFounded DEF Kept, Lawful
<1>2. ASSUME NEW p \in Requests, NEW q \in Requests, p # q, IsActive(v, p), IsActive(v, q)
      PROVE  TeacherOf(v, p) # TeacherOf(v, q)
  <2>1. CASE IsActive(w, p) /\ IsActive(w, q)
    <3>1. w.request[p].status # "none" /\ w.request[q].status # "none"
      BY <2>1 DEF Kept, Founded, IsActive, ActiveStates
    <3>2. TeacherOf(w, p) # TeacherOf(w, q)
      BY <1>2, <2>1 DEF Kept, TeachersApart
    <3> QED BY <3>1, <3>2 DEF Lawful
  <2> QED BY <1>2, <2>1 DEF Lawful
<1> QED BY <1>1, <1>2 DEF Kept, TeachersApart

\* What was queued stays true of a memory that changes lawfully, and so do the rows.
LEMMA LawfulKeepsQueueable ==
    ASSUME NEW w, NEW v, Lawful(w, v)
    PROVE  Queueable(w) \subseteq Queueable(v)
<1> SUFFICES ASSUME NEW write \in Written, Truthful(w, write)
             PROVE  Truthful(v, write)
  BY DEF Queueable
<1>1. write.id \in Requests
  BY DEF Written
<1> QED BY <1>1 DEF Truthful, Known, Lawful

LEMMA LawfulKeepsConsistent ==
    ASSUME NEW w, NEW v, Lawful(w, v), NEW db, Consistent(w, db)
    PROVE  Consistent(v, db)
<1>1. \A r \in Requests : db.request[r].status # "none" =>
         v.request[r].status # "none" /\ Known(v, r, db.request[r])
  BY DEF Consistent, Known, Lawful
<1> QED BY <1>1 DEF Consistent

\* The rows that a memory leaves behind are consistent with it.
LEMMA ImageIsConsistent ==
    ASSUME NEW w, Kept(w)
    PROVE  Consistent(w, Image(w))
<1> DEFINE db == Image(w)
<1>1. w.request \in [Requests -> RequestRecords] /\ w.session \in [Requests -> SessionRecords]
  BY DEF Kept, Memory
<1>2. \A r \in Requests : w.session[r].state \in ActiveStates \cup {"none", "FINISHED"}
  BY <1>1 DEF SessionRecords
<1>3. /\ db.request = w.request
      /\ db.session = [r \in Requests |-> RowOf(w.session[r])]
      /\ db \in [request : {db.request}, session : {db.session}]
  BY DEF Image
<1> HIDE DEF db
<1>4. \A r \in Requests : /\ db.session[r] \in RowStates
                          /\ db.session[r] = "open" <=> IsActive(w, r)
                          /\ db.session[r] # "none" => w.session[r].state # "none"
  BY <1>2, <1>3 DEF RowOf, RowStates, IsActive, ActiveStates
<1>5. db \in [request : [Requests -> RequestRecords], session : [Requests -> RowStates]]
  BY <1>1, <1>3, <1>4
<1>6. Consistent(w, db)
  BY <1>3, <1>4, <1>5 DEF Consistent, Kept, Founded, TeachersApart, Known,
                                   TeacherOf, StudentOf
<1> QED BY <1>6 DEF db

\* The indexes and the foreign key hold after any write that is not refused.
LEMMA AppliedKeepsConsistent ==
    ASSUME NEW w, NEW db, Consistent(w, db), NEW write \in Queueable(w),
           ~Refused(db, write)
    PROVE  Consistent(w, Applied(db, write))
<1> DEFINE new == Applied(db, write)
           r == write.id
<1>0. /\ db \in [request : [Requests -> RequestRecords], session : [Requests -> RowStates]]
      /\ write \in Written /\ Truthful(w, write)
  BY DEF Consistent, Queueable
<1>1. CASE write \in [table : {"request"}, id : Requests, row : RequestRecords]
  <2>1. /\ r \in Requests /\ write.row \in RequestRecords /\ write.table = "request"
        /\ Known(w, r, write.row) /\ w.request[r].status # "none"
    BY <1>0, <1>1 DEF Truthful
  <2>2. new = [db EXCEPT !.request[r] = write.row]
    BY <2>1 DEF Applied
  <2>3. /\ new \in [request : [Requests -> RequestRecords], session : [Requests -> RowStates]]
        /\ new.session = db.session /\ new.request[r] = write.row
        /\ \A q \in Requests \ {r} : new.request[q] = db.request[q]
    BY <1>0, <2>1, <2>2
  <2> HIDE DEF new, r
  <2>4. \A q \in Requests : db.request[q].status # "none" =>
           /\ new.request[q].status # "none"
           /\ new.request[q].teacher = db.request[q].teacher
    BY <2>1, <2>3 DEF Consistent, Known
  <2>5. \A q \in Requests : new.session[q] # "none" =>
           db.request[q].status # "none" /\ new.request[q].status # "none"
    BY <2>3, <2>4 DEF Consistent
  <2>6. \A p, q \in Requests : p # q /\ new.session[p] = "open" /\ new.session[q] = "open" =>
           new.request[p].teacher # new.request[q].teacher
    BY <2>3, <2>4, <2>5 DEF Consistent
  <2>7. \A q \in Requests : new.request[q].status # "none" =>
           w.request[q].status # "none" /\ Known(w, q, new.request[q])
    BY <2>1, <2>3 DEF Consistent
  <2>8. Consistent(w, new)
    BY <2>3, <2>5, <2>6, <2>7 DEF Consistent
  <2> QED BY <2>8 DEF new
<1>2. CASE write \in [table : {"session"}, id : Requests, row : RowStates]
  <2>1. r \in Requests /\ write.row \in RowStates /\ write.table = "session"
    BY <1>2
  <2>2. new = [db EXCEPT !.session[r] = write.row]
    BY <2>1 DEF Applied
  <2>3. /\ db.request[r].status # "none"
        /\ write.row = "open" => \A q \in Requests \ {r} :
              db.session[q] = "open" => db.request[q].teacher # db.request[r].teacher
    BY <2>1 DEF Refused
  <2>4. /\ new \in [request : [Requests -> RequestRecords], session : [Requests -> RowStates]]
        /\ new.request = db.request /\ new.session[r] = write.row
        /\ \A q \in Requests \ {r} : new.session[q] = db.session[q]
    BY <1>0, <2>1, <2>2
  <2> HIDE DEF new, r
  <2>5. \A q \in Requests : new.session[q] # "none" => new.request[q].status # "none"
    BY <2>3, <2>4 DEF Consistent
  <2>6. \A p, q \in Requests : p # q /\ new.session[p] = "open" /\ new.session[q] = "open" =>
           new.request[p].teacher # new.request[q].teacher
    BY <2>3, <2>4 DEF Consistent
  <2>7. Consistent(w, new)
    BY <2>4, <2>5, <2>6 DEF Consistent
  <2> QED BY <2>7 DEF new
<1> QED BY <1>0, <1>1, <1>2 DEF Written

\* A new process finds a memory that is fit to be written down.
LEMMA RestartedIsKept ==
    ASSUME Kept(server), NEW db, Consistent(server, db)
    PROVE  Kept(Restarted(Loaded(db)))
<1> DEFINE w == Loaded(db)
           session == [r \in Requests |->
                [NoSession EXCEPT !.state = IF db.session[r] = "open" THEN "RECOVERING"
                                            ELSE db.session[r]]]
<1>1. db.request \in [Requests -> RequestRecords] /\ db.session \in [Requests -> RowStates]
  BY DEF Consistent
<1>2. w = [server EXCEPT !.request = db.request, !.session = session]
  BY DEF Loaded
<1>3. \A r \in Requests : /\ session[r] \in SessionRecords
                          /\ session[r].state \in ActiveStates <=> db.session[r] = "open"
                          /\ session[r].state # "none" => db.session[r] # "none"
  BY <1>1 DEF NoSession, SessionRecords, ActiveStates, RowStates
<1>4. session \in [Requests -> SessionRecords]
  BY <1>3
<1> HIDE DEF session
<1>5. w \in Memory /\ w.request = db.request /\ w.session = session
        /\ w.professors = server.professors
  BY <1>1, <1>2, <1>4 DEF Kept, Memory
<1> HIDE DEF w
<1>6. Kept(w)
  BY <1>3, <1>5 DEF Kept, Consistent, EntriesDistinct, Founded, TeachersApart, IsActive,
                    TeacherOf
<1>7. Kept(Restarted(w))
  BY <1>5, <1>6, RestartedIsCalm, CalmIsLawful, LawfulKeepsKept
<1> QED BY <1>7 DEF w

\* SetToSeq lists the elements of a finite set.
LEMMA SetToSeqLemma ==
    ASSUME NEW S, IsFiniteSet(S)
    PROVE  /\ SetToSeq(S) \in Seq(S)
           /\ \A x \in S : \E i \in 1..Len(SetToSeq(S)) : SetToSeq(S)[i] = x
<1> DEFINE n == Cardinality(S)
           all == SetToSeq(S)
<1>1. n \in Nat /\ ExistsBijection(1..n, S)
  BY FS_CardinalityType
<1>2. \E f \in [1..n -> S] : IsInjective(f)
  BY <1>1 DEF ExistsBijection, Bijection, Injection
<1>3. all \in Injection(1..n, S)
  BY <1>2 DEF SetToSeq, Injection
<1>4. all \in [1..n -> S]
  BY <1>3 DEF Injection
<1>5. IsFiniteSet(1..n) /\ Cardinality(1..n) = n
  BY <1>1, FS_Interval
<1>6. all \in Surjection(1..n, S)
  BY <1>3, <1>5, FS_Injection
<1> HIDE DEF all
<1>7. \A x \in S : \E i \in 1..n : all[i] = x
  BY <1>6 DEF Surjection
<1>8. all \in Seq(S) /\ Len(all) = n
  BY <1>1, <1>4, SeqDef
<1> QED BY <1>7, <1>8 DEF all

\* The writes of some requests: one of each, and no other.
LEMMA RequestWritesElements ==
    ASSUME NEW v, NEW ids \in SUBSET Requests
    PROVE  /\ RequestWrites(v, ids) \in Seq({RequestWrite(v, r) : r \in ids})
           /\ \A r \in ids : \E i \in 1..Len(RequestWrites(v, ids)) :
                 RequestWrites(v, ids)[i] = RequestWrite(v, r)
<1> DEFINE all == {RequestWrite(v, r) : r \in ids}
           f == [r \in ids |-> RequestWrite(v, r)]
<1>1. f \in Surjection(ids, all)
  BY DEF Surjection
<1>2. IsFiniteSet(ids)
  BY DurableAssumption, FS_Subset
<1>3. IsFiniteSet(all)
  BY <1>1, <1>2, FS_Surjection
<1>4. \A r \in ids : RequestWrite(v, r) \in all
  OBVIOUS
<1>5. RequestWrites(v, ids) = SetToSeq(all)
  BY DEF RequestWrites
<1> HIDE DEF all
<1>6. SetToSeq(all) \in Seq(all)
  BY <1>3, SetToSeqLemma
<1>7. \A r \in ids : \E i \in 1..Len(SetToSeq(all)) : SetToSeq(all)[i] = RequestWrite(v, r)
  BY <1>3, <1>4, SetToSeqLemma
<1> QED BY <1>5, <1>6, <1>7 DEF all

\* The same for their sessions.
LEMMA SessionWritesElements ==
    ASSUME NEW v, NEW ids \in SUBSET Requests
    PROVE  /\ SessionWrites(v, ids) \in Seq({SessionWrite(v, r) : r \in ids})
           /\ \A r \in ids : \E i \in 1..Len(SessionWrites(v, ids)) :
                 SessionWrites(v, ids)[i] = SessionWrite(v, r)
<1> DEFINE all == {SessionWrite(v, r) : r \in ids}
           f == [r \in ids |-> SessionWrite(v, r)]
<1>1. f \in Surjection(ids, all)
  BY DEF Surjection
<1>2. IsFiniteSet(ids)
  BY DurableAssumption, FS_Subset
<1>3. IsFiniteSet(all)
  BY <1>1, <1>2, FS_Surjection
<1>4. \A r \in ids : SessionWrite(v, r) \in all
  OBVIOUS
<1>5. SessionWrites(v, ids) = SetToSeq(all)
  BY DEF SessionWrites
<1> HIDE DEF all
<1>6. SetToSeq(all) \in Seq(all)
  BY <1>3, SetToSeqLemma
<1>7. \A r \in ids : \E i \in 1..Len(SetToSeq(all)) : SetToSeq(all)[i] = SessionWrite(v, r)
  BY <1>3, <1>4, SetToSeqLemma
<1> QED BY <1>5, <1>6, <1>7 DEF all

LEMMA RequestWritesLemma ==
    ASSUME NEW v \in Memory, NEW ids \in SUBSET Requests,
           \A r \in ids : v.request[r].status # "none"
    PROVE  RequestWrites(v, ids) \in Seq(Queueable(v))
<1> DEFINE all == {RequestWrite(v, r) : r \in ids}
<1>1. ASSUME NEW r \in ids PROVE RequestWrite(v, r) \in Queueable(v)
  <2>1. r \in Requests /\ v.request[r] \in RequestRecords
    BY DEF Memory
  <2> QED BY <2>1 DEF RequestWrite, Queueable, Written, Truthful, Known, TeacherOf, StudentOf
<1>2. all \subseteq Queueable(v)
  BY <1>1
<1>3. RequestWrites(v, ids) \in Seq(all)
  BY RequestWritesElements
<1> HIDE DEF all
<1> QED BY <1>2, <1>3, SeqMonotonic

LEMMA SessionWritesLemma ==
    ASSUME NEW v \in Memory, NEW ids \in SUBSET Requests,
           \A r \in ids : v.request[r].status # "none"
    PROVE  SessionWrites(v, ids) \in Seq(Queueable(v))
<1> DEFINE all == {SessionWrite(v, r) : r \in ids}
<1>1. ASSUME NEW r \in ids PROVE SessionWrite(v, r) \in Queueable(v)
  <2>1. r \in Requests /\ v.session[r] \in SessionRecords
    BY DEF Memory
  <2>2. RowOf(v.session[r]) \in RowStates
    BY <2>1 DEF RowOf, RowStates, SessionRecords
  <2> QED BY <2>1, <2>2 DEF SessionWrite, Queueable, Written, Truthful
<1>2. all \subseteq Queueable(v)
  BY <1>1
<1>3. SessionWrites(v, ids) \in Seq(all)
  BY SessionWritesElements
<1> HIDE DEF all
<1> QED BY <1>2, <1>3, SeqMonotonic

\* Whatever a handler writes is true of the memory it leaves.
LEMMA WritesOfParts ==
    ASSUME NEW w, NEW v \in Memory, Founded(v)
    PROVE  /\ \A row \in {"open", "FINISHED"} :
                 SessionWrites(v, Moved(w, v, row)) \in Seq(Queueable(v))
           /\ \A statuses : "none" \notin statuses =>
                 RequestWrites(v, Changed(w, v, statuses)) \in Seq(Queueable(v))
<1>1. ASSUME NEW row \in {"open", "FINISHED"}
      PROVE  SessionWrites(v, Moved(w, v, row)) \in Seq(Queueable(v))
  <2>1. /\ Moved(w, v, row) \in SUBSET Requests
        /\ \A r \in Moved(w, v, row) : v.request[r].status # "none"
    BY DEF Moved, RowOf, ActiveStates, Founded
  <2> QED BY <2>1, SessionWritesLemma
<1>2. ASSUME NEW statuses, "none" \notin statuses
      PROVE  RequestWrites(v, Changed(w, v, statuses)) \in Seq(Queueable(v))
  <2>1. /\ Changed(w, v, statuses) \in SUBSET Requests
        /\ \A r \in Changed(w, v, statuses) : v.request[r].status # "none"
    BY <1>2 DEF Changed
  <2> QED BY <2>1, RequestWritesLemma
<1> QED BY <1>1, <1>2

LEMMA WritesOfLemma ==
    ASSUME NEW w, NEW v \in Memory, Founded(v)
    PROVE  WritesOf(w, v) \in Seq(Queueable(v))
<1> DEFINE ended == SessionWrites(v, Moved(w, v, "FINISHED"))
           withdrawn == RequestWrites(v, Changed(w, v, {"cancelled", "expired"}))
           answered == RequestWrites(v, Changed(w, v, {"pending", "accepted", "rejected"}))
           begun == SessionWrites(v, Moved(w, v, "open"))
<1>1. /\ ended \in Seq(Queueable(v)) /\ begun \in Seq(Queueable(v))
      /\ withdrawn \in Seq(Queueable(v)) /\ answered \in Seq(Queueable(v))
  BY WritesOfParts
<1>2. WritesOf(w, v) = ended \o withdrawn \o answered \o begun
  BY DEF WritesOf
<1> HIDE DEF ended, withdrawn, answered, begun
<1>3. ended \o withdrawn \in Seq(Queueable(v))
  BY <1>1, ConcatProperties
<1>4. ended \o withdrawn \o answered \in Seq(Queueable(v))
  BY <1>1, <1>3, ConcatProperties
<1> QED BY <1>1, <1>2, <1>4, ConcatProperties

\* The first process starts with an empty database that agrees with its memory.
LEMMA DurableInitInv == DurableInit => DurableInv
<1> SUFFICES ASSUME DurableInit PROVE DurableInv
  OBVIOUS
<1>1. Inv
  BY InitInv DEF DurableInit
<1>2. Kept(server)
  BY <1>1, SoundIsFounded DEF Inv, Sound, Apart, Kept, TeachersApart
<1>3. Consistent(server, rows)
  BY <1>2, ImageIsConsistent DEF DurableInit
<1>4. writes \in Seq(Queueable(server))
  BY EmptySeq DEF DurableInit
<1> QED BY <1>1, <1>2, <1>3, <1>4 DEF DurableInv, Inv

\* Every step of the server, its queue or a new process keeps the invariant.
LEMMA DurableNextInv == DurableInv /\ [DurableNext]_durableVars => DurableInv'
<1> SUFFICES ASSUME DurableInv, [DurableNext]_durableVars PROVE DurableInv'
  OBVIOUS
<1>0. /\ up \in BOOLEAN /\ connected \subseteq Sockets
      /\ Kept(server) /\ Consistent(server, rows) /\ writes \in Seq(Queueable(server))
  BY DEF DurableInv
<1>1. CASE Handle
  <2>1. Lawful(server, server') /\ up' \in BOOLEAN /\ connected' \subseteq Sockets
    BY <1>0, <1>1, EventIsLawful DEF Handle, Kept
  <2>2. Kept(server')
    BY <1>0, <2>1, LawfulKeepsKept
  <2>3. Consistent(server', rows')
    <3>1. rows' = rows
      BY <1>1 DEF Handle
    <3> QED BY <1>0, <2>1, <3>1, LawfulKeepsConsistent
  <2>4. writes' \in Seq(Queueable(server'))
    <3>1. writes \in Seq(Queueable(server'))
      BY <1>0, <2>1, LawfulKeepsQueueable, SeqMonotonic
    <3>2. WritesOf(server, server') \in Seq(Queueable(server'))
      BY <2>2, WritesOfLemma DEF Kept
    <3> QED BY <1>1, <3>1, <3>2, ConcatProperties DEF Handle
  <2> QED BY <2>1, <2>2, <2>3, <2>4 DEF DurableInv
<1>2. ASSUME writes # <<>>
      PROVE  Head(writes) \in Queueable(server) /\ Tail(writes) \in Seq(Queueable(server))
  BY <1>0, <1>2, HeadTailProperties
<1>3. CASE Store
  <2>1. /\ server' = server /\ connected' = connected /\ up' = up
        /\ rows' = Applied(rows, Head(writes)) /\ writes' = Tail(writes)
    BY <1>3 DEF Store
  <2>2. Consistent(server, Applied(rows, Head(writes)))
    BY <1>0, <1>2, <1>3, AppliedKeepsConsistent DEF Store
  <2>3. Tail(writes) \in Seq(Queueable(server))
    BY <1>2, <1>3 DEF Store
  <2> QED BY <1>0, <2>1, <2>2, <2>3 DEF DurableInv
<1>4. CASE StoreFails
  <2>1. /\ server' = server /\ connected' = connected /\ up' = up
        /\ rows' = rows /\ writes' = Tail(writes)
    BY <1>4 DEF StoreFails
  <2>2. Tail(writes) \in Seq(Queueable(server))
    BY <1>2, <1>4 DEF StoreFails
  <2> QED BY <1>0, <2>1, <2>2 DEF DurableInv
<1>5. CASE RestartFromRows
  <2>1. Kept(server')
    BY <1>0, <1>5, RestartedIsKept DEF RestartFromRows
  <2>2. Consistent(server', rows')
    BY <1>5, <2>1, ImageIsConsistent DEF RestartFromRows
  <2>3. writes' \in Seq(Queueable(server'))
    BY <1>5, EmptySeq DEF RestartFromRows
  <2>4. up' \in BOOLEAN /\ connected' \subseteq Sockets
    BY <1>5 DEF RestartFromRows
  <2> QED BY <2>1, <2>2, <2>3, <2>4 DEF DurableInv
<1>6. CASE UNCHANGED durableVars
  BY <1>0, <1>6 DEF durableVars, DurableInv
<1> QED BY <1>1, <1>3, <1>4, <1>5, <1>6 DEF DurableNext

\* No professor is in two attendances, whatever writes fail and wherever the process
\* ends between two of them (createSession, and the partial unique index
\* attendance_sessions_one_active_per_professor_idx).  A restart reads rows that
\* were never in memory together, so the induction carries what every set of rows
\* keeps (Consistent), and that the writes still queued say what the memory knows.
THEOREM ExclusiveForProfessors == DurableSpec => []ProfessorExclusive
<1>1. DurableInv => ProfessorExclusive
  BY DEF DurableInv, Kept, TeachersApart, ProfessorExclusive
<1> QED BY <1>1, DurableInitInv, DurableNextInv, PTL DEF DurableSpec

-----------------------------------------------------------------------------
(* Students, as long as no write fails.  The database has no index that    *)
(* keeps a student's sessions apart: the order of the writes must do it.   *)

StudentsApart(w) ==
    \A p, q \in Requests : p # q /\ IsActive(w, p) /\ IsActive(w, q) =>
        StudentOf(w, p) # StudentOf(w, q)

Opens(write, r) == write.table = "session" /\ write.id = r /\ write.row = "open"
Ends(write, r) == write.table = "session" /\ write.id = r /\ write.row = "FINISHED"

\* When the i-th write of the queue runs, the row of session r is not open.
ClosedAt(db, queue, r, i) ==
    /\ db.session[r] = "open" => \E k \in 1..(i-1) : Ends(queue[k], r)
    /\ \A j \in 1..(i-1) : Opens(queue[j], r) => \E k \in (j+1)..(i-1) : Ends(queue[k], r)

\* No student has two open rows; whenever a row is opened those of the student's
\* other sessions are closed; and what is over in memory ends up closed.
Ordered(w, db, queue) ==
    /\ \A p, q \in Requests : p # q /\ db.session[p] = "open" /\ db.session[q] = "open" =>
          StudentOf(w, p) # StudentOf(w, q)
    /\ \A i \in 1..Len(queue) : \A p, q \in Requests :
          p # q /\ Opens(queue[i], p) /\ StudentOf(w, p) = StudentOf(w, q) =>
              ClosedAt(db, queue, q, i)
    /\ \A q \in Requests : ~IsActive(w, q) => ClosedAt(db, queue, q, Len(queue) + 1)

StudentInv == DurableInv /\ StudentsApart(server) /\ Ordered(server, rows, writes)

\* A lawful change keeps students in one session each.
LEMMA LawfulKeepsStudentsApart ==
    ASSUME NEW w, NEW v, Founded(w), StudentsApart(w), Lawful(w, v)
    PROVE  StudentsApart(v)
<1> SUFFICES ASSUME NEW p \in Requests, NEW q \in Requests,
                    p # q, IsActive(v, p), IsActive(v, q)
             PROVE  StudentOf(v, p) # StudentOf(v, q)
  BY DEF StudentsApart
<1>1. CASE IsActive(w, p) /\ IsActive(w, q)
  <2>1. w.request[p].status # "none" /\ w.request[q].status # "none"
    BY <1>1 DEF Founded, IsActive, ActiveStates
  <2>2. StudentOf(w, p) # StudentOf(w, q)
    BY <1>1 DEF StudentsApart
  <2> QED BY <2>1, <2>2 DEF Lawful
<1> QED BY <1>1 DEF Lawful

\* The rows of a memory, with nothing queued, are in order.
LEMMA ImageIsOrdered ==
    ASSUME NEW w \in Memory, StudentsApart(w)
    PROVE  Ordered(w, Image(w), << >>)
<1>1. \A r \in Requests : Image(w).session[r] = "open" <=> IsActive(w, r)
  BY DEF Memory, SessionRecords, Image, RowOf, IsActive, ActiveStates
<1>2. Len(<< >>) = 0
  BY EmptySeq
<1> QED BY <1>1, <1>2 DEF Ordered, ClosedAt, StudentsApart

\* A write that runs leaves the rest of the queue in order.
LEMMA StoreKeepsOrdered ==
    ASSUME NEW w, NEW db, Consistent(w, db), NEW queue \in Seq(Queueable(w)),
           queue # << >>, ~Refused(db, Head(queue)), Ordered(w, db, queue)
    PROVE  Ordered(w, Applied(db, Head(queue)), Tail(queue))
<1> DEFINE new == Applied(db, Head(queue))
           rest == Tail(queue)
           head == queue[1]
<1>1. /\ Len(queue) \in Nat \ {0} /\ Len(rest) = Len(queue) - 1
      /\ \A i \in 1..Len(rest) : rest[i] = queue[i + 1]
      /\ Head(queue) = head
      /\ head \in Written
  BY HeadTailProperties, ElementOfSeq DEF Queueable
<1>2. \A r \in Requests : new.session[r] = "open" =>
         Opens(head, r) \/ (db.session[r] = "open" /\ ~Ends(head, r))
  <2>1. db.session \in [Requests -> RowStates]
    BY DEF Consistent
  <2>2. CASE head.table = "request"
    <3>1. new.session = db.session
      BY <1>1, <2>2 DEF Applied
    <3> QED BY <2>2, <3>1 DEF Ends
  <2>3. CASE head.table = "session"
    <3>1. new = [db EXCEPT !.session[head.id] = head.row]
      BY <1>1, <2>3 DEF Applied
    <3>2. \A r \in Requests :
             new.session[r] = IF r = head.id THEN head.row ELSE db.session[r]
      BY <2>1, <3>1 DEF Consistent
    <3> QED BY <2>3, <3>2 DEF Opens, Ends
  <2> QED BY <1>1, <2>2, <2>3 DEF Written
<1> HIDE DEF new, rest, head
<1>3. ASSUME NEW r \in Requests, NEW i \in 1..(Len(rest) + 1), ClosedAt(db, queue, r, i + 1)
      PROVE  ClosedAt(new, rest, r, i)
  <2>1. ASSUME NEW j \in Nat, NEW k \in (j+1)..i, Ends(queue[k], r), k # 1
        PROVE  \E m \in j..(i-1) : m \in 1..(i-1) /\ Ends(rest[m], r)
    <3>1. k - 1 \in j..(i-1) /\ k - 1 \in 1..(i-1) /\ k - 1 \in 1..Len(rest)
      BY <2>1, <1>1
    <3>2. rest[k - 1] = queue[k]
      BY <1>1, <3>1
    <3> QED BY <2>1, <3>1, <3>2
  <2>2. ASSUME new.session[r] = "open"
        PROVE  \E k \in 1..(i-1) : Ends(rest[k], r)
    <3>1. CASE Opens(head, r)
      <4>1. \E k \in 2..i : Ends(queue[k], r)
        BY <1>3, <3>1 DEF ClosedAt, head
      <4>2. PICK k \in 2..i : Ends(queue[k], r)
        BY <4>1
      <4> QED BY <4>2, <2>1
    <3>2. CASE db.session[r] = "open" /\ ~Ends(head, r)
      <4>1. PICK k \in 1..i : Ends(queue[k], r)
        BY <1>3, <3>2 DEF ClosedAt
      <4>2. k # 1
        BY <3>2, <4>1 DEF head
      <4> QED BY <4>1, <4>2, <2>1
    <3> QED BY <1>2, <2>2, <3>1, <3>2
  <2>3. ASSUME NEW j \in 1..(i-1), Opens(rest[j], r)
        PROVE  \E k \in (j+1)..(i-1) : Ends(rest[k], r)
    <3>1. j \in 1..Len(rest) /\ j + 1 \in 1..i
      BY <1>1
    <3>2. Opens(queue[j + 1], r)
      BY <1>1, <2>3, <3>1
    <3>3. PICK k \in (j+1+1)..i : Ends(queue[k], r)
      BY <1>3, <3>1, <3>2 DEF ClosedAt
    <3>4. k # 1 /\ j + 1 \in Nat /\ k \in (j+1+1)..i
      OBVIOUS
    <3> QED BY <3>3, <3>4, <2>1
  <2> QED BY <2>2, <2>3 DEF ClosedAt
<1>4. ASSUME NEW p \in Requests, NEW q \in Requests, p # q,
             new.session[p] = "open", new.session[q] = "open"
      PROVE  StudentOf(w, p) # StudentOf(w, q)
  <2>1. ASSUME NEW a \in Requests, NEW b \in Requests, a # b, Opens(head, a),
               new.session[b] = "open", StudentOf(w, a) = StudentOf(w, b)
        PROVE  FALSE
    <3>1. ClosedAt(db, queue, b, 1)
      BY <1>1, <2>1 DEF Ordered, head
    <3>2. db.session[b] # "open"
      BY <3>1 DEF ClosedAt
    <3>3. ~Opens(head, b)
      BY <2>1 DEF Opens
    <3> QED BY <1>2, <2>1, <3>2, <3>3
  <2>2. CASE Opens(head, p) \/ Opens(head, q)
    BY <1>4, <2>1, <2>2
  <2>3. CASE db.session[p] = "open" /\ db.session[q] = "open"
    BY <1>4, <2>3 DEF Ordered
  <2> QED BY <1>2, <1>4, <2>2, <2>3
<1>5. ASSUME NEW i \in 1..Len(rest), NEW p \in Requests, NEW q \in Requests, p # q,
             Opens(rest[i], p), StudentOf(w, p) = StudentOf(w, q)
      PROVE  ClosedAt(new, rest, q, i)
  <2>1. i + 1 \in 1..Len(queue) /\ i \in 1..(Len(rest) + 1) /\ Opens(queue[i + 1], p)
    BY <1>1, <1>5
  <2>2. ClosedAt(db, queue, q, i + 1)
    BY <1>5, <2>1 DEF Ordered
  <2> QED BY <1>3, <2>1, <2>2
<1>6. ASSUME NEW q \in Requests, ~IsActive(w, q)
      PROVE  ClosedAt(new, rest, q, Len(rest) + 1)
  <2>1. Len(rest) + 1 \in 1..(Len(rest) + 1) /\ Len(queue) + 1 = (Len(rest) + 1) + 1
    BY <1>1
  <2>2. ClosedAt(db, queue, q, Len(queue) + 1)
    BY <1>6 DEF Ordered
  <2> QED BY <1>3, <2>1, <2>2
<1>7. Ordered(w, new, rest)
  BY <1>4, <1>5, <1>6 DEF Ordered
<1> QED BY <1>7 DEF new, rest

\* What WritesOf queues: first the ends of all the sessions that are over, and the
\* row of a session is opened only when memory has started it.
LEMMA WritesOfOrder ==
    ASSUME NEW w \in Memory, NEW v \in Memory, Founded(v), Lawful(w, v)
    PROVE  LET added == WritesOf(w, v)
           IN  /\ \A i \in 1..Len(added), p \in Requests : Opens(added[i], p) =>
                     IsActive(v, p) /\ ~IsActive(w, p)
               /\ \A q \in Requests : IsActive(w, q) /\ ~IsActive(v, q) =>
                     \E k \in 1..Len(added) :
                        /\ Ends(added[k], q)
                        /\ \A i \in 1..Len(added), p \in Requests :
                              Opens(added[i], p) => k < i
<1> DEFINE ended == SessionWrites(v, Moved(w, v, "FINISHED"))
           withdrawn == RequestWrites(v, Changed(w, v, {"cancelled", "expired"}))
           answered == RequestWrites(v, Changed(w, v, {"pending", "accepted", "rejected"}))
           begun == SessionWrites(v, Moved(w, v, "open"))
           first == ended \o withdrawn
           second == first \o answered
           added == WritesOf(w, v)
           All == Queueable(v)
<1>1. /\ ended \in Seq(All) /\ begun \in Seq(All)
      /\ withdrawn \in Seq(All) /\ answered \in Seq(All)
  BY WritesOfParts
<1>2. ASSUME NEW row
      PROVE  LET all == SessionWrites(v, Moved(w, v, row))
             IN  /\ \A i \in 1..Len(all) : all[i] \in {SessionWrite(v, r) : r \in Moved(w, v, row)}
                 /\ \A r \in Moved(w, v, row) : \E i \in 1..Len(all) : all[i] = SessionWrite(v, r)
  <2>1. Moved(w, v, row) \in SUBSET Requests
    BY DEF Moved
  <2> QED BY <2>1, SessionWritesElements, ElementOfSeq
<1>3. /\ \A i \in 1..Len(ended) : ended[i].row = "FINISHED"
      /\ \A q \in Moved(w, v, "FINISHED") : \E i \in 1..Len(ended) : Ends(ended[i], q)
  <2>1. \A r \in Moved(w, v, "FINISHED") :
           SessionWrite(v, r).row = "FINISHED" /\ Ends(SessionWrite(v, r), r)
    BY DEF Moved, SessionWrite, Ends
  <2>2. \A i \in 1..Len(ended) : ended[i].row = "FINISHED"
    BY <1>2, <2>1
  <2>3. \A q \in Moved(w, v, "FINISHED") :
           \E i \in 1..Len(ended) : ended[i] = SessionWrite(v, q)
    BY <1>2
  <2> HIDE DEF ended
  <2> QED BY <2>1, <2>2, <2>3
<1>4. \A i \in 1..Len(begun) : begun[i].id \in Moved(w, v, "open")
  <2>1. \A r : SessionWrite(v, r).id = r
    BY DEF SessionWrite
  <2> QED BY <1>2, <2>1
<1>5. ASSUME NEW statuses
      PROVE  \A i \in 1..Len(RequestWrites(v, Changed(w, v, statuses))) :
                RequestWrites(v, Changed(w, v, statuses))[i].table = "request"
  <2> DEFINE all == {RequestWrite(v, r) : r \in Changed(w, v, statuses)}
  <2>1. Changed(w, v, statuses) \in SUBSET Requests
    BY DEF Changed
  <2>2. \A write \in all : write.table = "request"
    BY DEF RequestWrite
  <2>3. RequestWrites(v, Changed(w, v, statuses)) \in Seq(all)
    BY <2>1, RequestWritesElements
  <2> HIDE DEF all
  <2> QED BY <2>2, <2>3, ElementOfSeq
<1>6. /\ \A i \in 1..Len(withdrawn) : withdrawn[i].table = "request"
      /\ \A i \in 1..Len(answered) : answered[i].table = "request"
  BY <1>5
<1>7. first \in Seq(All) /\ second \in Seq(All) /\ added = second \o begun
  <2>1. first \in Seq(All)
    BY <1>1, ConcatProperties
  <2>2. second \in Seq(All)
    BY <1>1, <2>1, ConcatProperties
  <2> QED BY <2>1, <2>2 DEF WritesOf
<1>8. /\ Len(first) = Len(ended) + Len(withdrawn)
      /\ \A i \in 1..Len(first) : first[i] =
            IF i <= Len(ended) THEN ended[i] ELSE withdrawn[i - Len(ended)]
      /\ Len(second) = Len(first) + Len(answered)
      /\ \A i \in 1..Len(second) : second[i] =
            IF i <= Len(first) THEN first[i] ELSE answered[i - Len(first)]
  <2> HIDE DEF ended, withdrawn, answered, All
  <2>1. /\ Len(first) = Len(ended) + Len(withdrawn)
        /\ \A i \in 1..Len(ended) + Len(withdrawn) : first[i] =
              IF i <= Len(ended) THEN ended[i] ELSE withdrawn[i - Len(ended)]
    BY <1>1, ConcatProperties
  <2>2. second = first \o answered
    OBVIOUS
  <2> HIDE DEF first, second
  <2>3. /\ Len(second) = Len(first) + Len(answered)
        /\ \A i \in 1..Len(first) + Len(answered) : second[i] =
              IF i <= Len(first) THEN first[i] ELSE answered[i - Len(first)]
    BY <1>1, <1>7, <2>2, ConcatProperties
  <2> QED BY <2>1, <2>3
<1> HIDE DEF ended, withdrawn, answered, begun, added, first, second, All
<1>9. /\ Len(added) = Len(second) + Len(begun)
      /\ \A i \in 1..Len(added) : added[i] =
            IF i <= Len(second) THEN second[i] ELSE begun[i - Len(second)]
  BY <1>1, <1>7, ConcatProperties
<1>10. /\ Len(ended) \in Nat /\ Len(withdrawn) \in Nat /\ Len(answered) \in Nat
       /\ Len(begun) \in Nat /\ Len(first) \in Nat /\ Len(second) \in Nat
  BY <1>1, <1>7, LenProperties
<1>11. \A i \in 1..Len(ended) : i \in 1..Len(added) /\ added[i] = ended[i]
  BY <1>8, <1>9, <1>10
<1>12. ASSUME NEW i \in 1..Len(added), NEW p \in Requests, Opens(added[i], p)
       PROVE  Len(ended) < i /\ p \in Moved(w, v, "open")
  <2>1. CASE i <= Len(ended)
    BY <1>3, <1>11, <1>12, <2>1, <1>10 DEF Opens
  <2>2. CASE Len(ended) < i /\ i <= Len(first)
    <3>1. i \in 1..Len(first) /\ i \in 1..Len(second) /\ i - Len(ended) \in 1..Len(withdrawn)
      BY <1>8, <1>9, <1>10, <2>2
    <3>2. added[i] = withdrawn[i - Len(ended)]
      BY <1>8, <1>9, <1>10, <2>2, <3>1
    <3> QED BY <1>6, <1>12, <3>1, <3>2 DEF Opens
  <2>3. CASE Len(first) < i /\ i <= Len(second)
    <3>1. i \in 1..Len(second) /\ i - Len(first) \in 1..Len(answered)
      BY <1>8, <1>9, <1>10, <2>3
    <3>2. added[i] = answered[i - Len(first)]
      BY <1>8, <1>9, <1>10, <2>3, <3>1
    <3> QED BY <1>6, <1>12, <3>1, <3>2 DEF Opens
  <2>4. CASE Len(second) < i
    <3>1. i - Len(second) \in 1..Len(begun)
      BY <1>9, <1>10, <2>4
    <3>2. added[i] = begun[i - Len(second)]
      BY <1>9, <1>10, <2>4
    <3>3. Len(ended) < i
      BY <1>8, <1>10, <2>4
    <3> QED BY <1>4, <1>12, <3>1, <3>2, <3>3 DEF Opens
  <2> QED BY <1>8, <1>10, <2>1, <2>2, <2>3, <2>4
<1>13. \A p \in Moved(w, v, "open") : IsActive(v, p) /\ ~IsActive(w, p)
  BY DEF Moved, RowOf, IsActive, ActiveStates, Memory, SessionRecords
<1>14. \A q \in Requests : IsActive(w, q) /\ ~IsActive(v, q) => q \in Moved(w, v, "FINISHED")
  BY DEF Lawful, Moved, RowOf, IsActive, ActiveStates, Memory, SessionRecords
<1>15. ASSUME NEW q \in Requests, IsActive(w, q), ~IsActive(v, q)
       PROVE  \E k \in 1..Len(added) :
                 /\ Ends(added[k], q)
                 /\ \A i \in 1..Len(added), p \in Requests : Opens(added[i], p) => k < i
  <2>1. PICK k \in 1..Len(ended) : Ends(ended[k], q)
    BY <1>3, <1>14, <1>15
  <2>2. k \in 1..Len(added) /\ added[k] = ended[k]
    BY <1>11
  <2>3. \A i \in 1..Len(added), p \in Requests : Opens(added[i], p) => k < i
    BY <1>12, <1>10
  <2> QED BY <2>1, <2>2, <2>3
<1> QED BY <1>12, <1>13, <1>15 DEF added

\* A handler leaves the queue in order.
LEMMA HandleKeepsOrdered ==
    ASSUME NEW w, NEW v, Kept(w), Lawful(w, v), Founded(v), StudentsApart(v),
           NEW db, Consistent(w, db),
           NEW queue \in Seq(Queueable(w)), Ordered(w, db, queue)
    PROVE  Ordered(v, db, queue \o WritesOf(w, v))
<1> DEFINE added == WritesOf(w, v)
           new == queue \o added
           m == Len(queue)
<1>1. w \in Memory /\ v \in Memory
  BY DEF Kept, Lawful
<1>2. /\ \A i \in 1..Len(added), p \in Requests : Opens(added[i], p) =>
            IsActive(v, p) /\ ~IsActive(w, p)
      /\ \A q \in Requests : IsActive(w, q) /\ ~IsActive(v, q) =>
            \E k \in 1..Len(added) :
               /\ Ends(added[k], q)
               /\ \A i \in 1..Len(added), p \in Requests : Opens(added[i], p) => k < i
  BY <1>1, WritesOfOrder
<1>3. added \in Seq(Queueable(v)) /\ queue \in Seq(Queueable(v))
  BY <1>1, WritesOfLemma, LawfulKeepsQueueable, SeqMonotonic
<1> HIDE DEF added
<1>4. /\ Len(new) = m + Len(added) /\ m \in Nat /\ Len(added) \in Nat
      /\ \A i \in 1..m : new[i] = queue[i]
      /\ \A i \in 1..Len(added) : new[m + i] = added[i]
  <2>1. /\ Len(new) = m + Len(added) /\ m \in Nat /\ Len(added) \in Nat
        /\ \A i \in 1..m + Len(added) : new[i] = IF i <= m THEN queue[i] ELSE added[i - m]
    BY <1>3, ConcatProperties, LenProperties
  <2> HIDE DEF new, m
  <2>2. \A i \in 1..Len(added) : m + i \in 1..m + Len(added) /\ ~(m + i <= m) /\ (m + i) - m = i
    BY <2>1
  <2>3. \A i \in 1..m : i \in 1..m + Len(added) /\ i <= m
    BY <2>1
  <2> QED BY <2>1, <2>2, <2>3
<1> HIDE DEF new, m
<1>5. ASSUME NEW i \in (m+1)..Len(new)
      PROVE  i - m \in 1..Len(added) /\ new[i] = added[i - m]
  <2>1. i - m \in 1..Len(added) /\ m + (i - m) = i
    BY <1>4
  <2>2. new[m + (i - m)] = added[i - m]
    BY <1>4, <2>1
  <2> QED BY <2>1, <2>2
<1>6. ASSUME NEW q \in Requests, ~IsActive(v, q), NEW i \in (m+1)..(Len(new)+1),
             IsActive(w, q) => \E k \in (m+1)..(i-1) : Ends(new[k], q)
      PROVE  ClosedAt(db, new, q, i)
  <2>1. ASSUME NEW j \in 1..(i-1), Opens(new[j], q)
        PROVE  j \in 1..m /\ Opens(queue[j], q)
    <3>1. CASE j \in 1..m
      BY <1>4, <2>1, <3>1
    <3>2. CASE j \notin 1..m
      <4>1. j \in (m+1)..Len(new)
        BY <1>4, <3>2
      <4>2. j - m \in 1..Len(added) /\ Opens(added[j - m], q)
        BY <1>5, <2>1, <4>1
      <4> QED BY <1>2, <1>6, <4>2
    <3> QED BY <3>1, <3>2
  <2>2. CASE IsActive(w, q)
    <3>1. PICK k \in (m+1)..(i-1) : Ends(new[k], q)
      BY <1>6, <2>2
    <3>2. k \in 1..(i-1) /\ \A j \in 1..m : k \in (j+1)..(i-1)
      BY <1>4
    <3>3. \A j \in 1..(i-1) : Opens(new[j], q) => \E l \in (j+1)..(i-1) : Ends(new[l], q)
      BY <2>1, <3>1, <3>2
    <3> QED BY <3>1, <3>2, <3>3 DEF ClosedAt
  <2>3. CASE ~IsActive(w, q)
    <3>1. ClosedAt(db, queue, q, m + 1)
      BY <2>3 DEF Ordered, m
    <3>2. ASSUME NEW k \in 1..m, Ends(queue[k], q)
          PROVE  k \in 1..(i-1) /\ Ends(new[k], q)
      BY <1>4, <3>2
    <3>3. (m + 1) - 1 = m
      BY <1>4
    <3>4. db.session[q] = "open" => \E k \in 1..(i-1) : Ends(new[k], q)
      BY <3>1, <3>2, <3>3 DEF ClosedAt
    <3>5. ASSUME NEW j \in 1..(i-1), Opens(new[j], q)
          PROVE  \E k \in (j+1)..(i-1) : Ends(new[k], q)
      <4>1. PICK k \in (j+1)..m : Ends(queue[k], q)
        BY <2>1, <3>1, <3>3, <3>5 DEF ClosedAt
      <4>2. k \in 1..m /\ k \in (j+1)..(i-1)
        BY <1>4
      <4> QED BY <3>2, <4>1, <4>2
    <3> QED BY <3>4, <3>5 DEF ClosedAt
  <2> QED BY <2>2, <2>3
<1>7. ASSUME NEW q \in Requests, ~IsActive(v, q)
      PROVE  ClosedAt(db, new, q, Len(new) + 1)
  <2>1. ASSUME IsActive(w, q)
        PROVE  \E k \in (m+1)..Len(new) : Ends(new[k], q)
    <3>1. PICK k \in 1..Len(added) : Ends(added[k], q)
      BY <1>2, <1>7, <2>1
    <3>2. m + k \in (m+1)..Len(new)
      BY <1>4
    <3> QED BY <1>4, <3>1, <3>2
  <2>2. Len(new) + 1 \in (m+1)..(Len(new)+1) /\ (Len(new) + 1) - 1 = Len(new)
    BY <1>4
  <2> QED BY <1>6, <1>7, <2>1, <2>2
<1>8. ASSUME NEW p \in Requests, NEW q \in Requests, StudentOf(v, p) = StudentOf(v, q),
             w.request[p].status # "none", w.request[q].status # "none"
      PROVE  StudentOf(w, p) = StudentOf(w, q)
  BY <1>8 DEF Lawful
<1>9. ASSUME NEW p \in Requests, NEW q \in Requests, p # q,
             db.session[p] = "open", db.session[q] = "open"
      PROVE  StudentOf(v, p) # StudentOf(v, q)
  <2>1. w.request[p].status # "none" /\ w.request[q].status # "none"
    BY <1>9 DEF Consistent
  <2> QED BY <1>8, <1>9, <2>1 DEF Ordered
<1>10. ASSUME NEW i \in 1..Len(new), NEW p \in Requests, NEW q \in Requests, p # q,
              Opens(new[i], p), StudentOf(v, p) = StudentOf(v, q)
       PROVE  ClosedAt(db, new, q, i)
  <2>1. CASE i \in 1..m
    <3>1. \A j \in 1..m, r \in Requests :
             Opens(new[j], r) => Opens(queue[j], r) /\ w.request[r].status # "none"
      <4>1. \A j \in 1..m : queue[j] \in Queueable(w)
        BY ElementOfSeq DEF m
      <4> QED BY <1>4, <4>1 DEF Opens, Queueable, Truthful
    <3>2. \A j \in 1..(i-1) : j \in 1..m /\ new[j] = queue[j]
      BY <1>4, <2>1
    <3>3. CASE w.request[q].status = "none"
      <4>1. db.session[q] # "open"
        BY <3>3 DEF Consistent
      <4> QED BY <3>1, <3>2, <3>3, <4>1 DEF ClosedAt
    <3>4. CASE w.request[q].status # "none"
      <4>1. StudentOf(w, p) = StudentOf(w, q) /\ Opens(queue[i], p)
        BY <1>8, <1>10, <2>1, <3>1, <3>4
      <4>2. ClosedAt(db, queue, q, i)
        BY <1>10, <2>1, <4>1 DEF Ordered, m
      <4>3. \A j \in 1..(i-1) : \A k \in (j+1)..(i-1) : k \in 1..(i-1)
        OBVIOUS
      <4> QED BY <3>2, <4>2, <4>3 DEF ClosedAt
    <3> QED BY <3>3, <3>4
  <2>2. CASE i \notin 1..m
    <3>1. i \in (m+1)..Len(new)
      BY <1>4, <2>2
    <3>2. i - m \in 1..Len(added) /\ Opens(added[i - m], p)
      BY <1>5, <1>10, <3>1
    <3>3. IsActive(v, p)
      BY <1>2, <3>2
    <3>4. ~IsActive(v, q)
      BY <1>10, <3>3 DEF StudentsApart
    <3>5. ASSUME IsActive(w, q)
          PROVE  \E k \in (m+1)..(i-1) : Ends(new[k], q)
      <4>1. PICK k \in 1..Len(added) :
               /\ Ends(added[k], q)
               /\ \A l \in 1..Len(added), r \in Requests : Opens(added[l], r) => k < l
        BY <1>2, <3>4, <3>5
      <4>2. k < i - m
        BY <3>2, <4>1
      <4>3. k \in Int /\ i \in Int /\ m \in Int /\ 1 <= k
        BY <1>4, <3>1
      <4>4. m + k \in (m+1)..(i-1)
        BY <4>2, <4>3
      <4> QED BY <1>4, <4>1, <4>4
    <3>6. i \in (m+1)..(Len(new)+1)
      BY <1>4, <3>1
    <3> QED BY <1>6, <3>4, <3>5, <3>6
  <2> QED BY <2>1, <2>2
<1>11. Ordered(v, db, new)
  BY <1>7, <1>9, <1>10 DEF Ordered
<1> QED BY <1>11 DEF new, added

\* A new process that reads rows in order has students in one session each.
LEMMA RestartKeepsStudentsApart ==
    ASSUME Kept(server), NEW db, Consistent(server, db), NEW queue,
           Ordered(server, db, queue)
    PROVE  StudentsApart(Restarted(Loaded(db)))
<1> DEFINE w == Loaded(db)
<1>1. w \in Memory /\ Founded(w) /\ StudentsApart(w)
  <2> DEFINE session == [r \in Requests |->
                [NoSession EXCEPT !.state = IF db.session[r] = "open" THEN "RECOVERING"
                                            ELSE db.session[r]]]
  <2>1. db.request \in [Requests -> RequestRecords] /\ db.session \in [Requests -> RowStates]
    BY DEF Consistent
  <2>2. w = [server EXCEPT !.request = db.request, !.session = session]
    BY DEF Loaded
  <2>3. \A r \in Requests : /\ session[r] \in SessionRecords
                            /\ session[r].state \in ActiveStates <=> db.session[r] = "open"
                            /\ session[r].state # "none" => db.session[r] # "none"
    BY <2>1 DEF NoSession, SessionRecords, ActiveStates, RowStates
  <2>4. session \in [Requests -> SessionRecords]
    BY <2>3
  <2> HIDE DEF session
  <2>5. w \in Memory /\ w.request = db.request /\ w.session = session
    BY <2>1, <2>2, <2>4 DEF Kept, Memory
  <2> HIDE DEF w
  <2>6. Founded(w)
    BY <2>3, <2>5 DEF Consistent, Founded
  <2>7. \A r \in Requests : IsActive(w, r) =>
           db.session[r] = "open" /\ StudentOf(w, r) = StudentOf(server, r)
    BY <2>3, <2>5 DEF Consistent, Known, IsActive, StudentOf
  <2>8. StudentsApart(w)
    BY <2>7 DEF Ordered, StudentsApart
  <2> QED BY <2>5, <2>6, <2>8
<1> HIDE DEF w
<1>2. Lawful(w, Restarted(w))
  BY <1>1, RestartedIsCalm, CalmIsLawful
<1>3. StudentsApart(Restarted(w))
  BY <1>1, <1>2, LawfulKeepsStudentsApart
<1> QED BY <1>3 DEF w

\* At first nobody is in a session.
LEMMA StudentInitInv == DurableInit => StudentInv
<1> SUFFICES ASSUME DurableInit PROVE StudentInv
  OBVIOUS
<1>1. DurableInv /\ StudentsApart(server)
  BY DurableInitInv, InitInv DEF DurableInit, Inv, Sound, Apart, StudentsApart
<1>2. Ordered(server, rows, writes)
  BY <1>1, ImageIsOrdered DEF DurableInit, DurableInv, Kept
<1> QED BY <1>1, <1>2 DEF StudentInv

\* Every step after which no write has failed keeps the invariant.
LEMMA StudentNextInv ==
    StudentInv /\ failures' = {} /\ [DurableNext]_durableVars => StudentInv'
<1> SUFFICES ASSUME StudentInv, failures' = {}, [DurableNext]_durableVars
             PROVE  StudentInv'
  OBVIOUS
<1>0. /\ DurableInv /\ DurableInv'
      /\ Kept(server) /\ Consistent(server, rows) /\ writes \in Seq(Queueable(server))
      /\ StudentsApart(server) /\ Ordered(server, rows, writes)
      /\ Kept(server')
  BY DurableNextInv DEF StudentInv, DurableInv
<1>1. CASE Handle
  <2>1. Lawful(server, server') /\ Founded(server')
    BY <1>0, <1>1, EventIsLawful DEF Handle, Kept, DurableInv
  <2>2. StudentsApart(server')
    BY <1>0, <2>1, LawfulKeepsStudentsApart DEF Kept
  <2>3. Ordered(server', rows, writes \o WritesOf(server, server'))
    BY <1>0, <2>1, <2>2, HandleKeepsOrdered
  <2>4. rows' = rows /\ writes' = writes \o WritesOf(server, server')
    BY <1>1 DEF Handle
  <2> QED BY <1>0, <2>2, <2>3, <2>4 DEF StudentInv
<1>2. CASE Store
  <2>1. /\ server' = server /\ rows' = Applied(rows, Head(writes)) /\ writes' = Tail(writes)
        /\ writes # << >> /\ ~Refused(rows, Head(writes))
    BY <1>2 DEF Store
  <2>2. Ordered(server, Applied(rows, Head(writes)), Tail(writes))
    BY <1>0, <2>1, StoreKeepsOrdered
  <2> QED BY <1>0, <2>1, <2>2 DEF StudentInv
<1>3. CASE StoreFails
  BY <1>3 DEF StoreFails
<1>4. CASE RestartFromRows
  <2>1. server' = Restarted(Loaded(rows)) /\ rows' = Image(server') /\ writes' = << >>
    BY <1>4 DEF RestartFromRows
  <2>2. StudentsApart(server')
    BY <1>0, <2>1, RestartKeepsStudentsApart
  <2>3. Ordered(server', Image(server'), << >>)
    BY <1>0, <2>2, ImageIsOrdered DEF Kept
  <2> QED BY <1>0, <2>1, <2>2, <2>3 DEF StudentInv
<1>5. CASE UNCHANGED durableVars
  BY <1>0, <1>5 DEF durableVars, StudentInv
<1> QED BY <1>1, <1>2, <1>3, <1>4, <1>5 DEF DurableNext

\* Whatever suffix of the queue crashes take, students stay in one attendance each as
\* long as no write fails: no index of the database sees to it, only the order in
\* which handlers save (finishSession before its listeners, accept before createSession)
\* and the serialization of PersistenceQueue.
THEOREM CrashesSpareStudents == DurableSpec => CrashKeepsStudentsExclusive
<1>1. StudentInv => StudentExclusive
  BY DEF StudentInv, StudentsApart, StudentExclusive
<1>2. StudentInv /\ failures = {} /\ (failures = {})' /\ [DurableNext]_durableVars
         => StudentInv'
  BY StudentNextInv
<1> QED BY <1>1, <1>2, StudentInitInv, PTL DEF DurableSpec, CrashKeepsStudentsExclusive

=============================================================================
