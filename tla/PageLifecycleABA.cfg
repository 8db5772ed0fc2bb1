\* One frame, one life, one reader whose single read overlaps 64 writer
\* critical sections: a full cycle of the 6-bit insertion counter.
CONSTANTS
  Pages = {p1}
  Initializers <- MC_Initializers
  Readers = {r1}
  MaxLives = 1
  MaxWrites = 64
  MaxReads = 1
  NoPage = NoPage
SPECIFICATION Spec
INVARIANT AcceptedReadsAreConsistent
CHECK_DEADLOCK FALSE
