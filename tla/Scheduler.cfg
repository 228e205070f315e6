SPECIFICATION FairSchedulerSpec
CONSTANTS
    Quarter = 4
    Minute = 2
    MaxClock = 17
    MaxSetBacks = 1
INVARIANTS
    NoSlotIsSleptThrough
    NoOtherUpdateIsAnnounced
PROPERTIES
    OneCyclePerSlot
    SlotsAreServed
