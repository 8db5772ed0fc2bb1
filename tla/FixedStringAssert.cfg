\* char strings; copying a full FixedString into another.
CONSTANTS
  MAXLEN = 2
  MAXLEN2 = 3
  Chars = {65, 195}
  CharBytes = 1
SPECIFICATION Spec
INVARIANT AssertionsHold
