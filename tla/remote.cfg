\* Remote control from both ends, with timeouts, lost connections and restarts.
SPECIFICATION FairSpec
CONSTANTS
    Sockets <- Connections3
    Keys = {k1}
    None = None
    Limits <- AnyTrouble
INVARIANTS
    StudentDecides
    SeatedCanRecover
    ControlsAgree
    HeldIsPressed
PROPERTY
    OverIsForgotten
CHECK_DEADLOCK FALSE
