SPECIFICATION FairSpec
CONSTANTS
  a = a
  b = b
  None = None
  Games <- MCGames
  Stateful <- MCStateful
  Slots <- MCSlots
  SlotOf <- MCSlotOf
  OldSaves <- MCOldSaves
  OldAuto <- MCOldAuto
  MenuSlots <- MCMenuSlots
  MaxProgress = 1
INVARIANTS
  SavesSurvive
  ResumesQueuedSlot
PROPERTIES
  QuitReturns
