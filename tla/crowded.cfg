\* Two professors and two students, all present, up to the first restart: the
\* queue and its handover.
SPECIFICATION CrowdedSpec
CONSTANTS
    carlos = carlos
    dora = dora
    ana = ana
    bia = bia
    c1 = c1
    c2 = c2
    d1 = d1
    a1 = a1
    a2 = a2
    b1 = b1
    None = None
    Teachers = {carlos, dora}
    Students = {ana, bia}
    Sockets = {c1, d1, a1, b1}
    Requests = {1, 2, 3}
    Steady = {d1, a1, b1}
    EarlyTimers = FALSE
    SameMillisecond = FALSE
    Owner <- OwnerOf
SYMMETRY TwoStudentsSymmetry
CONSTRAINT UntilRestart
INVARIANTS
    OneAttendanceEach
    BusyHasReason
    OnePendingPerStudent
PROPERTIES
    EndHandsOver
    ServedInOrder
