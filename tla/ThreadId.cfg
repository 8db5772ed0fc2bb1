\* Every (node, ordinal) pair of the two uint8_t domains.
CONSTANTS
  Nodes <- MC_Nodes
SPECIFICATION Spec
INVARIANT ComposeRoundTrip
