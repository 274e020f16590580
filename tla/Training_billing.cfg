SPECIFICATION TrainingSpec
CONSTANTS
  k1 = k1
  k2 = k2
  j1 = j1
  j2 = j2
  Trainings = {k1, k2}
  Trajectories = {j1, j2}
  MinBatch = 1
  Deployed = 1
CHECK_DEADLOCK FALSE
INVARIANTS ErrorsEndTheBilling
