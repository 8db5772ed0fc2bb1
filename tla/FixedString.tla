---------------------------- MODULE FixedString ----------------------------
(***************************************************************************)
(* foedus/assorted/fixed_string.hpp: FixedString<MAXLEN, CHAR>, a string   *)
(* of at most MAXLEN characters stored inline as (length_, data_).  Two    *)
(* objects are modelled, str 1 of capacity MAXLEN and str 2 of capacity    *)
(* MAXLEN2, so that the templated cross-capacity assign, == and < are      *)
(* exercised.  A character is a number; memcmp sees each character as its  *)
(* CharBytes bytes in little-endian order (1 for char, 4 for a Linux       *)
(* wchar_t on x86-64).  data_ past length_ keeps whatever it held before   *)
(* ("We don't bother clear them"), initially any characters.               *)
(***************************************************************************)
EXTENDS Naturals, Sequences, SequencesExt, FiniteSetsExt

CONSTANTS
  MAXLEN,     \* capacity of str 1
  MAXLEN2,    \* capacity of str 2
  Chars,      \* character values used
  CharBytes   \* sizeof(CHAR)

ASSUME MAXLEN \in Nat \ {0} /\ MAXLEN2 \in Nat \ {0} /\ CharBytes \in {1, 2, 4}

Cap == <<MAXLEN, MAXLEN2>>
Objects == {1, 2}

\* Inputs of assign(std::string) / assign(const CHAR*, len): one char past
\* the larger capacity, so both objects truncate.
Inputs == BoundedSeq(Chars, Max({MAXLEN, MAXLEN2}) + 1)

\* The characters a FixedString denotes: data_[0 .. length_).
Content(fs) == [i \in 1..fs.length_ |-> fs.data_[i]]

\* The bytes memcmp reads for the first n characters of data.
Bytes(data, n) ==
  FlattenSeq([i \in 1..n |-> [b \in 1..CharBytes |-> (data[i] \div 256^(b - 1)) % 256]])

\* memcmp(x, y, n * sizeof(CHAR)): the sign of the first differing byte.
Memcmp(x, y, n) ==
  LET bx == Bytes(x, n)
      by == Bytes(y, n)
      diff == {k \in 1..(n * CharBytes) : bx[k] # by[k]}
  IN  IF diff = {} THEN 0
      ELSE IF bx[Min(diff)] < by[Min(diff)] THEN -1 ELSE 1

\* Mutant of Truncated: one character past the capacity is kept.
TruncatedOffByOne(len, cap) == IF len > cap + 1 THEN cap + 1 ELSE len

\* length_ = len > MAXLEN ? MAXLEN : len
Truncated(len, cap) == IF len > cap THEN cap ELSE len

\* assign(const CHAR* str, uint32_t len) and assign(const std::basic_string&):
\* truncate, then memcpy length_ characters over data_.
AssignChars(fs, cap, chars) ==
  LET n == Truncated(Len(chars), cap)
  IN  [length_ |-> n,
       data_ |-> [i \in 1..cap |-> IF i <= n THEN chars[i] ELSE fs.data_[i]]]

\* template assign(const FixedString<MAXLEN2>& other): the same with other's data.
AssignFixed(fs, cap, other) ==
  LET n == Truncated(other.length_, cap)
  IN  [length_ |-> n,
       data_ |-> [i \in 1..cap |-> IF i <= n THEN other.data_[i] ELSE fs.data_[i]]]

\* ASSERT_ND(other.length() < MAXLEN2) at the top of assign(FixedString).
AssignAssertion(other, otherCap) == other.length_ < otherCap

\* Mutant of Equal: the length test is dropped.
EqualIgnoringLength(a, b) ==
  IF a.length_ = 0 THEN b.length_ = 0
  ELSE Memcmp(a.data_, b.data_, a.length_) = 0

\* operator==(const FixedString<MAXLEN2>&)
Equal(a, b) ==
  IF a.length_ = 0 THEN b.length_ = 0
  ELSE a.length_ = b.length_ /\ Memcmp(a.data_, b.data_, a.length_) = 0

\* Mutant of Less: a common prefix is never less.
LessWithoutTieBreak(a, b) ==
  LET minLen == Min({a.length_, b.length_})
  IN  IF minLen = 0 THEN a.length_ < b.length_
      ELSE Memcmp(a.data_, b.data_, minLen) < 0

\* operator<(const FixedString<MAXLEN2>&)
Less(a, b) ==
  LET minLen == Min({a.length_, b.length_})
      result == Memcmp(a.data_, b.data_, minLen)
  IN  IF minLen = 0 THEN a.length_ < b.length_
      ELSE IF result # 0 THEN result < 0
      ELSE a.length_ < b.length_

-----------------------------------------------------------------------------

VARIABLES
  str,            \* str[1] : FixedString<MAXLEN>, str[2] : FixedString<MAXLEN2>
  assert_failed   \* an ASSERT_ND of assign has failed (debug builds abort)

vars == <<str, assert_failed>>

\* Default constructor: length_(0); data_ uninitialised.
Init ==
  /\ \E d1 \in [1..MAXLEN -> Chars], d2 \in [1..MAXLEN2 -> Chars] :
       str = <<[length_ |-> 0, data_ |-> d1], [length_ |-> 0, data_ |-> d2]>>
  /\ assert_failed = FALSE

AssignString(o, chars) ==
  /\ str' = [str EXCEPT ![o] = AssignChars(@, Cap[o], chars)]
  /\ UNCHANGED assert_failed

\* str[o] = str[src] (operator= / copy constructor / assign of a FixedString).
AssignFrom(o, src) ==
  /\ str' = [str EXCEPT ![o] = AssignFixed(@, Cap[o], str[src])]
  /\ assert_failed' = (assert_failed \/ ~AssignAssertion(str[src], Cap[src]))

\* clear(): length_ = 0.
Clear(o) ==
  /\ str' = [str EXCEPT ![o].length_ = 0]
  /\ UNCHANGED assert_failed

Next ==
  \/ \E o \in Objects, chars \in Inputs : AssignString(o, chars)
  \/ \E o, src \in Objects : o # src /\ AssignFrom(o, src)
  \/ \E o \in Objects : Clear(o)

Spec == Init /\ [][Next]_vars

-----------------------------------------------------------------------------
(* Reference definitions *)

\* Lexicographic order of character sequences, the order of std::basic_string.
LexLess(s, t) ==
  \/ IsStrictPrefix(s, t)
  \/ \E i \in 1..Min({Len(s), Len(t)}) :
       /\ SubSeq(s, 1, i - 1) = SubSeq(t, 1, i - 1)
       /\ s[i] < t[i]

TypeOK ==
  /\ \A o \in Objects : /\ str[o].length_ \in 0..Cap[o]
                        /\ str[o].data_ \in [1..Cap[o] -> Chars]
  /\ assert_failed \in BOOLEAN

(***************************************************************************)
(* operator== of two FixedStrings, in either order and across capacities,  *)
(* holds exactly when they denote the same characters, whatever stale      *)
(* characters lie past length_.                                            *)
(***************************************************************************)
EqualMatchesContent ==
  \A a, b \in Objects : Equal(str[a], str[b]) <=> Content(str[a]) = Content(str[b])

(***************************************************************************)
(* operator< agrees with the lexicographic order of the characters, the    *)
(* order std::basic_string<CHAR> uses ("behaves like std::string").        *)
(***************************************************************************)
LessMatchesLexicographic ==
  \A a, b \in Objects : Less(str[a], str[b]) <=> LexLess(Content(str[a]), Content(str[b]))

(***************************************************************************)
(* No ASSERT_ND of assign fails on FixedStrings the class itself produced  *)
(* ("too-long strings are truncated": any length up to MAXLEN is legal).   *)
(***************************************************************************)
AssertionsHold == ~assert_failed
=============================================================================
