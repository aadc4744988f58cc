SPECIFICATION FairSpec
CONSTANTS
  SlotCount = 4
  Active = {0, 1, 2}
  QueueCapacity = 2
  InboxCapacity = 1
  MaxLate = 2
INVARIANTS TypeOK
PROPERTIES SlotsInTurn EverySlotServed
