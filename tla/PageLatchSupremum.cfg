\* A page created with is_high_fence_supremum set, locked and unlocked once.
CONSTANTS
  Writers = {w1}
  Readers = {r1}
  NoThread = NoThread
  InitialBody = InitialBody
  NoResult = NoResult
  MaxCS = 1
  MaxMutations = 1
  MaxReads = 1
  CounterStart <- MC_FreshCounters
  CreateFlags = {TRUE}
  LayerValues = {0}
  KeyCountArgs = {3}
SPECIFICATION Spec
PROPERTY SupremumImmutable
