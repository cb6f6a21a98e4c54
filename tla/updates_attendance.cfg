\* An attendance that begins while install awaits.
SPECIFICATION Spec
CONSTANTS
    v1 = v1
    v2 = v2
    v3 = v3
    None = None
    Versions = {v1, v2}
    Limits <- OneAttendance
PROPERTY
    InstallSparesAttendance
