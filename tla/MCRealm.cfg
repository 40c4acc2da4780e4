SPECIFICATION Spec
CONSTANTS
  Object = {root, a, b, c}
  Root = root
  Nil = Nil
  NSlots = 2
  MaxWrites = 3
  MaxCalls = 1
  SharesAcrossTx = FALSE
  DropsReattached = FALSE
SYMMETRY Symmetry
INVARIANTS
    SavedIsReachable
    SharingIsRecorded
