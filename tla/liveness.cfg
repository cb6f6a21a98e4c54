\* Timers under fairness.
SPECIFICATION FairSpec
CONSTANTS
    carlos = carlos
    dora = dora
    ana = ana
    bia = bia
    c1 = c1
    c2 = c2
    d1 = d1
    a1 = a1
    a2 = a2
    b1 = b1
    None = None
    Teachers = {carlos}
    Students = {ana}
    Sockets = {c1, a1}
    Requests = {1, 2}
    Steady = {}
    EarlyTimers = FALSE
    SameMillisecond = FALSE
    Owner <- OwnerOf
PROPERTIES
    InterruptedResolves
    DirectRequestResolves
