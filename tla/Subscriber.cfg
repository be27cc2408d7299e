CONSTANTS
  Capacity = 3
  MaxBytes = 6
  RecoveryMark = 1
  Sizes = {1, 3}
  OwnSize = 1
  MaxPuts = 6
SPECIFICATION Spec
INVARIANTS QueueSound
PROPERTIES ImplementsChannel EveryFullEventSettles
CHECK_DEADLOCK FALSE
