\* wchar_t strings (4 little-endian bytes) over A (0x41) and a character above 0xFF (0x100).
CONSTANTS
  MAXLEN = 2
  MAXLEN2 = 3
  Chars = {65, 256}
  CharBytes = 4
SPECIFICATION Spec
INVARIANT LessMatchesLexicographic
