\* The collector's thread and two handler threads, ten readings of the clock,
\* a two-unit interval and sleepers resumed up to one unit late.
CONSTANTS
    Callers = {collector, handler1, handler2}
    MinInterval = 2
    MaxLag = 1
    MaxClock = 9
SPECIFICATION FairSpec
INVARIANTS
    TypeOK
    SlotsApart
    CompletionsApart
    RateLaw
    QueueBound
    NoIdleSlot
PROPERTIES
    AcquireReturns
    PacedSpec
