\* Two windows of one account and one of another, with one or two things that go wrong.
SPECIFICATION FairSpec
CONSTANTS
    w1 = w1
    w2 = w2
    w3 = w3
    ana = ana
    bia = bia
    None = None
    Windows = {w1, w2, w3}
    Attempts = {1, 2, 3, 4, 5}
    Account <- AccountOf
    Limits <- FewEvents
INVARIANT
    LoginHasAccount
PROPERTIES
    SetUpOnce
    EveryoneArrives
