SPECIFICATION FairSpec
CONSTANTS
  c1 = c1  c2 = c2  c3 = c3  pA = pA  pB = pB  n1 = n1  n2 = n2
  Callers <- ThreeCallers
  Providers <- TwoProviders
  Nodes <- TwoNodes
  Rotation <- RotationPQ
  Limit <- LimitPQ
  Chain <- ChainPQ
  Retries = 0
INVARIANTS
  PermitsConserved
  LoneCallSeesEveryNode
PROPERTY EveryCallSettles
CHECK_DEADLOCK FALSE
