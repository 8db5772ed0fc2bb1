\* One writer whose critical section calls only the key-count and foster
\* mutators, and one optimistic reader; fresh counters.
CONSTANTS
  Writers = {w1}
  Readers = {r1}
  NoThread = NoThread
  InitialBody = InitialBody
  NoResult = NoResult
  MaxCS = 1
  MaxMutations = 1
  MaxReads = 1
  CounterStart <- MC_FreshCounters
  CreateFlags = {FALSE}
  LayerValues = {0}
  KeyCountArgs = {3}
SPECIFICATION Spec
PROPERTY AcceptedWordUnchanged
