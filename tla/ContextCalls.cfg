SPECIFICATION Spec
CONSTANTS
  u1 = u1
  u2 = u2
  u3 = u3
  Updater = {u1, u2, u3}
  Activator = {a1}
  Workloads <- MixedWorkloads
  Directories <- MixedDirectories
  Timeout = 2
  MaxTroubles = 1
  NoOne = NoOne
  NoValue = NoValue
  Comment = Comment
  Malformed = Malformed
  A = A
  B = B
  on = on
  off = off
INVARIANTS
  LockSound
  NoLostUpdate
  AnswersHonest
  ActivationFresh
PROPERTY EveryCallReturns
CHECK_DEADLOCK FALSE
