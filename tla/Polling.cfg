\* Three: half of the capacity is not all of it, nor nothing, and the queue can overflow,
\* recover and overflow again before the last snapshot.
SPECIFICATION MCSpec
CONSTANTS
    Sources = {quick, slow}
    Slow = {slow}
    Callers = {screen, closing}
    Capacity = 3
    Last = 12
INVARIANTS
    InFlightExact
    NoLostWakeup
    NothingReadIsLost
    FailuresAgree
    SecondPutFits
    DropsAreTold
    NewestIsKept
PROPERTIES
    QuickKeepsReporting
    StopReturns
    ScreenIsFed
