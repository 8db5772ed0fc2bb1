---------------------------- MODULE PageVersion ----------------------------
(***************************************************************************)
(* The 64-bit PageVersion word of foedus/storage/page.hpp, as a record     *)
(* with one field per bit field of the word.  Every operator below is one  *)
(* member function of struct PageVersion; the arithmetic of the word that  *)
(* can move a value from one field into another (the carries of the two    *)
(* counters at unlock) is modelled by what it does to the fields.          *)
(*                                                                         *)
(* Bits not represented: bit 32 and bits 0..7 (unused).  The only write    *)
(* that reaches bit 32 is increment_key_count at key count 0xFFFF; no      *)
(* operation reads bit 32 and unlock_version drops it.                     *)
(***************************************************************************)
EXTENDS Naturals, Bitwise

\* Field widths, from the masks kPageVersion*Mask / *Shifts.
InsertCounterBits == 6    \* 0x01F8000000000000, shift 51: bits 51..56
SplitCounterBits  == 18   \* 0x0007FFFE00000000, shift 33: bits 33..50
KeyCountBits      == 16   \* 0xFFFF0000, shift 16
LayerBits         == 8    \* 0x0000FF00, shift 8

InsertCounterMod == 2^InsertCounterBits
SplitCounterMod  == 2^SplitCounterBits
KeyCountMod      == 2^KeyCountBits

Versions ==
  [locked : BOOLEAN, inserting : BOOLEAN, splitting : BOOLEAN,
   deleted : BOOLEAN, has_foster_child : BOOLEAN, is_border : BOOLEAN,
   is_high_fence_supremum : BOOLEAN,
   insert_counter : 0..(InsertCounterMod - 1),
   split_counter : 0..(SplitCounterMod - 1),
   key_count : 0..(KeyCountMod - 1),
   layer : 0..(2^LayerBits - 1)]

\* PageVersion::initialize: all counters and the key count start at 0.
Initialize(locked, has_foster_child, is_border, is_high_fence_supremum, layer) ==
  [locked |-> locked, inserting |-> FALSE, splitting |-> FALSE,
   deleted |-> FALSE, has_foster_child |-> has_foster_child,
   is_border |-> is_border, is_high_fence_supremum |-> is_high_fence_supremum,
   insert_counter |-> 0, split_counter |-> 0, key_count |-> 0, layer |-> layer]

\* set_inserting / set_splitting: plain writes by the lock holder.
SetInserting(v) == [v EXCEPT !.inserting = TRUE]
SetSplitting(v) == [v EXCEPT !.splitting = TRUE]

\* increment_key_count: data_ += 1 << 16.  At 0xFFFF the carry leaves the
\* field (into the unmodelled bit 32) and the key count reads 0.
IncrementKeyCount(v) == [v EXCEPT !.key_count = (@ + 1) % KeyCountMod]

\* set_key_count takes a uint8_t: the argument is truncated to 8 bits
\* before it is shifted into the 16-bit field.
SetKeyCount(v, key_count) == [v EXCEPT !.key_count = key_count % 256]

SetHasFosterChild(v, has) == [v EXCEPT !.has_foster_child = has]

\* The exit condition of the spin loop of stable_version.
IsStable(v) == ~v.inserting /\ ~v.splitting

\* The successful compare-and-swap of lock_version: ver | kPageVersionLockedBit.
LockedVersion(v) == [v EXCEPT !.locked = TRUE]

\* Mutants of UnlockedVersion, each a plausible slip in unlock_version:
\* the counters are copied without the bump,
UnlockedVersionWithoutBump(v) ==
  [v EXCEPT !.locked = FALSE, !.inserting = FALSE, !.splitting = FALSE,
            !.deleted = FALSE, !.is_high_fence_supremum = FALSE]

\* the inserting / splitting bits are kept in the unlock mask,
UnlockedVersionKeepingBits(v) ==
  [v EXCEPT !.locked = FALSE, !.deleted = FALSE, !.is_high_fence_supremum = FALSE,
            !.insert_counter = IF v.inserting THEN (@ + 1) % InsertCounterMod ELSE @,
            !.split_counter = IF v.splitting THEN (@ + 1) % SplitCounterMod ELSE @]

\* the bumped insertion counter is stored without its mask.
UnlockedVersionUnmasked(v) ==
  [v EXCEPT !.locked = FALSE, !.inserting = FALSE, !.splitting = FALSE,
            !.deleted = FALSE, !.is_high_fence_supremum = FALSE,
            !.insert_counter = IF v.inserting THEN @ + 1 ELSE @,
            !.split_counter = IF v.splitting THEN (@ + 1) % SplitCounterMod ELSE @]

(***************************************************************************)
(* unlock_version: base = data & kPageVersionUnlockMask keeps only         *)
(* has_foster_child, is_border, key_count and layer.  Each counter is      *)
(* taken with its own mask and bumped by adding 1 at its shift, with no    *)
(* wrap-around: a full insertion counter (63) becomes 1 << 57, which is    *)
(* the is_high_fence_supremum bit; a full split counter becomes 1 << 51,   *)
(* the lowest bit of the insertion counter.  The three parts are OR-ed.    *)
(* ASSERT_ND((insertion_counter & split_counter) == 0) is compiled out of  *)
(* release builds and is not a guard here.                                 *)
(***************************************************************************)
UnlockedVersion(v) ==
  LET ic == IF v.inserting THEN v.insert_counter + 1 ELSE v.insert_counter
      sc == IF v.splitting THEN v.split_counter + 1 ELSE v.split_counter
      icField == IF sc = SplitCounterMod THEN (ic % InsertCounterMod) | 1
                                         ELSE ic % InsertCounterMod
  IN  [locked |-> FALSE, inserting |-> FALSE, splitting |-> FALSE,
       deleted |-> FALSE, has_foster_child |-> v.has_foster_child,
       is_border |-> v.is_border,
       is_high_fence_supremum |-> ic = InsertCounterMod,
       insert_counter |-> icField,
       split_counter |-> sc % SplitCounterMod,
       key_count |-> v.key_count, layer |-> v.layer]
=============================================================================
