SPECIFICATION Spec
CONSTANTS
    a = a
    b = b
    PolicyWorkers <- MCWorkers
    HomeOf <- MCHome
    Slots <- MCSlots
    Producers = {p1, p2}
    MaxItems = 2
INVARIANTS
    NoLostHomeWakeup
PROPERTIES
    ImplementsWorkQueue
    EveryItemTaken
CHECK_DEADLOCK FALSE
