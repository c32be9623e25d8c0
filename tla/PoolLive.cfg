CONSTANTS
  c1 = c1
  c2 = c2
  k1 = k1
  k2 = k2
  k3 = k3
  Workers = {w1}
  Clients = {c1, c2}
  Tasks = {k1, k2}
  Null = Null
  Forces <- EachItsOwn
SPECIFICATION FairSpec
PROPERTIES WorkersEnd QueuedTaskStarts ForceReturns
