SPECIFICATION Spec
CONSTANTS
  SeqMod = 17
  reorderSize = 2
  MAX_DIFF = 5
INVARIANT HeldBriefly
INVARIANT NeverExits
PROPERTY InOrder
PROPERTY NothingLost
