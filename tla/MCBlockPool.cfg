SPECIFICATION Spec
CONSTANTS
  Honest = {g}
  Faulty = {f}
  Nobody = Nobody
  N = 3
  Reports = {4}
  MaxTotalRequesters = 2
  MaxPendingRequests = 4
  MaxPendingRequestsPerPeer = 1
  FaultyBlocks = {"junk"}
  MaxConnects = 1
CHECK_DEADLOCK FALSE
INVARIANTS
    AppliesTheChain
    

    
