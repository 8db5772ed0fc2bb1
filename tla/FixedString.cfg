\* char strings of capacity 2 and 3 over an ASCII and a high (>= 0x80) byte.
CONSTANTS
  MAXLEN = 2
  MAXLEN2 = 3
  Chars = {65, 195}
  CharBytes = 1
SPECIFICATION Spec
INVARIANT TypeOK
INVARIANT EqualMatchesContent
INVARIANT LessMatchesLexicographic
