CONSTANTS
  v1 = v1
  v2 = v2
  none = none
  Values <- MCValues
  Capacity = 4
  NoValue = none
SPECIFICATION Spec
INVARIANTS
  NoSlotRace
  IndInv
PROPERTY
  ImplementsFifo
