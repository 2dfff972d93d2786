\* One reading thread, as main.c uses each device.
CONSTANT Readers = {r1}
SPECIFICATION FairSpec
INVARIANTS TypeOK NoLostWakeup
PROPERTIES EventReported LatchSpec
