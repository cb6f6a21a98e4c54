SPECIFICATION FairSpec
CONSTANTS
    None = None
    Limits <- AnyTrouble
INVARIANTS
    FailureIsPursued
    EndedStaysClosed
PROPERTIES
    NoOfferWaits
    MediaRecovers
CHECK_DEADLOCK FALSE
