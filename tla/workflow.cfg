\* Five casts of teachers, a student, sockets and requests.
SPECIFICATION FairSpec
CONSTANTS
    t1 = t1
    t2 = t2
    s1 = s1
    a1 = a1
    a2 = a2
    b1 = b1
    c1 = c1
    c2 = c2
    m1 = m1
    r1 = r1
    r2 = r2
    None = None
    Teachers = {t1, t2}
    Students = {s1}
    Connections = {a1, a2, b1, c1, c2}
    Owner <- OwnerOf
    Rooms = {m1}
    Requests = {r1, r2}
    Statuses = {"AVAILABLE"}
    Casts <- AnyCast
INVARIANTS
    ShownIsWatched
    AcceptedHasCall
    SignalsReachTheOther
PROPERTIES
    GivenUpByAll
    GoneAreGivenUp
    PendingIsSettled
CHECK_DEADLOCK FALSE
