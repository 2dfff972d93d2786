CONSTANTS
    SECS = 2
    MINS = 2
    DAY = 8
    DAYS = 2
    MONTHS = 2
    GRANULE = 4
    SBUFF = 4
    Garbage = {0, 1, 2}
    T_ACQ = 4
    Start = 30
    Scenes <- Environments
SPECIFICATION Spec
INVARIANTS LossContained FixSetsClock TracksGps NoOverwrite MessageWhole
PROPERTY SentenceOnce
CHECK_DEADLOCK FALSE
