\* A crash that loses a suffix of the write queue.
SPECIFICATION CrowdedDurableSpec
CONSTANTS
    carlos = carlos
    dora = dora
    ana = ana
    bia = bia
    c1 = c1
    c2 = c2
    d1 = d1
    a1 = a1
    a2 = a2
    b1 = b1
    None = None
    Teachers = {carlos, dora}
    Students = {ana}
    Sockets = {c1, d1, a1}
    Requests = {1, 2}
    Steady = {c1, d1, a1}
    EarlyTimers = FALSE
    SameMillisecond = FALSE
    MaxWrites = 8
    Owner <- OwnerOf
CONSTRAINT UntilReturn
INVARIANTS
    QueueCatchesUp
    ProfessorExclusive
PROPERTY
    CrashKeepsStudentsExclusive
