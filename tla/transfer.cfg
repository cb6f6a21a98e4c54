\* One file over a channel that may be lost, with restarts, disk faults, edits
\* and clicks; on a channel that stays, also how every transfer ends.
SPECIFICATION FairSpec
CONSTANTS
    Sizes = {0, 3}
    Window = 2
    Pumps <- Places
    AutoReceive = {TRUE, FALSE}
    Limits <- Together
INVARIANTS
    SentMeansDelivered
    AcknowledgedIsOnDisk
    CancelledLeavesNothing
PROPERTIES
    OutcomesAgree
    TransferResolves
CHECK_DEADLOCK FALSE
