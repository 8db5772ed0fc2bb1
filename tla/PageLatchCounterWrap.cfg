\* A page whose split counter is one split from wrapping.
CONSTANTS
  Writers = {w1}
  Readers = {r1}
  NoThread = NoThread
  InitialBody = InitialBody
  NoResult = NoResult
  MaxCS = 1
  MaxMutations = 2
  MaxReads = 1
  CounterStart <- MC_SplitWrapStart
  CreateFlags = {FALSE}
  LayerValues = {0}
  KeyCountArgs = {3}
SPECIFICATION Spec
INVARIANT CountersCountCriticalSections
