\* Two updates, or one with attendances, failures and new settings.
SPECIFICATION Spec
CONSTANTS
    v1 = v1
    v2 = v2
    v3 = v3
    None = None
    Versions = {v1, v2, v3}
    Limits <- AnyHistory
SYMMETRY Renamings
INVARIANT
    QuitSparesAttendance
PROPERTY
    RollbackIsHealthy
