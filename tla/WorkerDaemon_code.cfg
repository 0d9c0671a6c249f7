SPECIFICATION FairSpec
CONSTANTS
    MaxDispatches = 2
    MaxRedrives = 1
    MaxFaults = 1
    MaxPauses = 1
    MaxLoose = 1
    MaxTroubles = 2
    DesignWorker = TRUE
CONSTRAINT Bounded
INVARIANTS ReportedIsFinished FreshContext StopsOnlyTheGone
PROPERTIES StepsEnd
CHECK_DEADLOCK FALSE
