SPECIFICATION Spec
CONSTANTS
  Request = {r1, r2, r3, r4, r5}
  Max = 2
  MaxHung = 1
INVARIANTS AtMostMax NoIdleSlot
PROPERTIES NoOvertaking WaitersAreServed
