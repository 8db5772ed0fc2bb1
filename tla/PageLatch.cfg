\* Two writers and one optimistic reader on one page; counters fresh or about to wrap.
CONSTANTS
  Writers = {w1, w2}
  Readers = {r1}
  NoThread = NoThread
  InitialBody = InitialBody
  NoResult = NoResult
  MaxCS = 1
  MaxMutations = 2
  MaxReads = 2
  CounterStart <- MC_CounterStart
  CreateFlags = {FALSE}
  LayerValues = {0}
  KeyCountArgs = {300}
SPECIFICATION Spec
INVARIANT TypeOK
INVARIANT MutualExclusion
PROPERTY PageRefinesAbstract
PROPERTY AllWorkCompletes
