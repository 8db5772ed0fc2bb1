\* A page created without is_high_fence_supremum whose insertion counter is
\* one inserting section from wrapping.
CONSTANTS
  Writers = {w1}
  Readers = {r1}
  NoThread = NoThread
  InitialBody = InitialBody
  NoResult = NoResult
  MaxCS = 1
  MaxMutations = 1
  MaxReads = 1
  CounterStart <- MC_InsertWrapStart
  CreateFlags = {FALSE}
  LayerValues = {0}
  KeyCountArgs = {3}
SPECIFICATION Spec
PROPERTY SupremumImmutable
