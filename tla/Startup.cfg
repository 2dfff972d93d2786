CONSTANTS
    Orders <- AllOrders
    Faults <- AllFaults
    HangsIn = {"loop"}
    Patient = FALSE
    MaxFaults = 2
    MaxHangs = 2
SPECIFICATION Spec
INVARIANTS TypeOK LinkedWhenRunning
PROPERTY LinksComeUp
CHECK_DEADLOCK FALSE
