CONSTANTS
  c1 = c1
  c2 = c2
  k1 = k1
  k2 = k2
  k3 = k3
  Workers = {w1, w2}
  Clients = {c1}
  Tasks = {k1, k2, k3}
  Null = Null
  Forces <- OwnTasks
SYMMETRY WorkerSymmetry
SPECIFICATION Spec
INVARIANTS QueueWellFormed SomeWorkerAwake FinishDrains
PROPERTIES ImplementsTaskQueue
