-------------------------------- MODULE Text --------------------------------
(***************************************************************************)
(* A value of a Jule program that is text: a str (api/str.hpp), its runes  *)
(* as a []rune, or its UTF-16 units as a []u16.  The program edits the     *)
(* value and converts it from one form to another; an index that is out of *)
(* range ends the program with a message (api/error.hpp, api/panic.hpp).   *)
(***************************************************************************)
EXTENDS Runes, SequencesExt

CONSTANTS RunesUsed,  \* the runes the program writes, valid or not
          BytesUsed,  \* the bytes it writes
          UnitsUsed,  \* the UTF-16 units it writes
          Indexes,    \* the indexes it uses
          MIN_INT,    \* the smallest Int
          MaxBytes, MaxRunes, MaxUnits  \* the lengths it edits up to

ASSUME TextAssumption ==
  /\ RunesUsed \subseteq Int /\ BytesUsed \subseteq Byte /\ UnitsUsed \subseteq Unit
  /\ MIN_INT \in Int /\ MIN_INT < 0
  /\ Indexes \subseteq Int /\ \A i \in Indexes : MIN_INT <= i

VARIABLES form,   \* "str", "runes" or "units", or "ended" after a panic
          value,  \* the bytes, the runes or the units
          panic   \* the indexes in the message of the panic, each with its text

textVars == <<form, value, panic>>

-----------------------------------------------------------------------------
(* Operations of Str that compute a string or compare two. *)

OutOfRange(s, start, end) == start < 0 \/ end < 0 \/ start > end \/ end > Len(s)

slice(s, start, end) == IF start = end THEN <<>> ELSE SubSeq(s, start + 1, end)

(* Wrong: the end is still counted from the old beginning. *)
mut_sliceOldEnd(s, start, end) ==
  LET erased == SubSeq(s, start + 1, Len(s))
  IN  IF start = end THEN <<>> ELSE SubSeq(erased, 1, end)

(* The same in place, for s = s[start:end]: the beginning is erased first. *)
mut_slice(s, start, end) ==
  LET erased == SubSeq(s, start + 1, Len(s))
  IN  IF start = end THEN <<>> ELSE SubSeq(erased, 1, end - start)

(* The order of two strings is that of their runes, equality that of their *)
(* bytes.                                                                  *)
Smaller(x, y) ==
  LET differ == {i \in DOMAIN x \cap DOMAIN y : x[i] # y[i]}
  IN  IF differ = {} THEN Len(x) < Len(y) ELSE x[Min(differ)] < y[Min(differ)]

(* Wrong: a common prefix decides nothing. *)
lessPrefix(s, t) ==
  LET x == utf8_to_runes(s)  y == utf8_to_runes(t)
      differ == {i \in DOMAIN x \cap DOMAIN y : x[i] # y[i]}
  IN  differ # {} /\ x[Min(differ)] < y[Min(differ)]

less(s, t) == Smaller(utf8_to_runes(s), utf8_to_runes(t))
greater(s, t) == Smaller(utf8_to_runes(t), utf8_to_runes(s))
lessEq(s, t) == s = t \/ less(s, t)
greaterEq(s, t) == s = t \/ greater(s, t)

(* The digits of a number in a message, with its sign.  Zero has no digit, *)
(* and neither has the smallest Int, whose negation is itself.             *)
__jule_push_int_to_str(i) ==
  LET n == IF i < 0 /\ i # MIN_INT THEN -i ELSE i
      left == IF n < 0 THEN 0 ELSE n
      digits[k \in 0 .. left] == IF k = 0 THEN <<>> ELSE Append(digits[k \div 10], k % 10)
  IN  [minus |-> i < 0, digits |-> digits[left]]

-----------------------------------------------------------------------------
TextInit == form = "str" /\ value = <<>> /\ panic = <<>>

Becomes(f, v) == form' = f /\ value' = v /\ UNCHANGED panic

(* The program ends, and its values with it. *)
Panic(indexes) ==
  /\ panic' = [k \in DOMAIN indexes |-> <<indexes[k], __jule_push_int_to_str(indexes[k])>>]
  /\ form' = "ended" /\ value' = <<>>

(* Edits of a str: a rune or a byte is appended, the string is put in      *)
(* front of itself, a byte is replaced, a part is taken.                   *)
AppendRune(r) == form = "str" /\ Len(value) < MaxBytes
                 /\ Becomes("str", value \o utf8_push_rune_bytes(r))

AppendByte(b) == form = "str" /\ Len(value) < MaxBytes /\ Becomes("str", Append(value, b))

Double == form = "str" /\ 2 * Len(value) <= MaxBytes /\ Becomes("str", value \o value)

(* With a length and a capacity; a length alone is its own capacity.  This *)
(* message names no number.                                                *)
Alloc(len, cap) == form = "str"
  /\ IF len < 0 \/ cap < 0 \/ len > cap THEN Panic(<<>>)
     ELSE len <= MaxBytes /\ Becomes("str", [i \in 1 .. len |-> 0])

At(i, b) == /\ form = "str" /\ Len(value) <= MaxBytes
            /\ IF value = <<>> \/ i < 0 \/ Len(value) <= i
               THEN Panic(<<i>>)
               ELSE Becomes("str", [value EXCEPT ![i + 1] = b])

Slice(i, j) == form = "str" /\ IF OutOfRange(value, i, j) THEN Panic(<<i, j>>)
                               ELSE Becomes("str", slice(value, i, j))

MutSlice(i, j) == form = "str" /\ IF OutOfRange(value, i, j) THEN Panic(<<i, j>>)
                                  ELSE Becomes("str", mut_slice(value, i, j))

(* Edits of the runes and of the units, in the program. *)
PushRune(r) == form = "runes" /\ Len(value) < MaxRunes /\ Becomes("runes", Append(value, r))
PushUnit(u) == form = "units" /\ Len(value) < MaxUnits /\ Becomes("units", Append(value, u))
DropUnit == form = "units" /\ value # <<>> /\ Becomes("units", Front(value))

(* Conversions. *)
ToRunes == form = "str" /\ Becomes("runes", utf8_to_runes(value))
FromRunes == form = "runes" /\ Becomes("str", runes_to_utf8(value))
ToUnits == form = "str" /\ Becomes("units", utf16_from_str(value))
Encode == form = "runes" /\ Becomes("units", utf16_encode(value))
Decode == form = "units" /\ Becomes("runes", utf16_decode(value))
FromUnits == form = "units" /\ Becomes("str", utf16_to_utf8_str(value))

TextNext ==
  \/ \E r \in RunesUsed : AppendRune(r) \/ PushRune(r)
  \/ \E b \in BytesUsed : AppendByte(b)
  \/ \E u \in UnitsUsed : PushUnit(u)
  \/ Double \/ DropUnit
  \/ \E i \in Indexes, b \in BytesUsed : At(i, b)
  \/ \E i, j \in Indexes : Alloc(i, j) \/ Slice(i, j) \/ MutSlice(i, j)
  \/ ToRunes \/ FromRunes \/ ToUnits \/ Encode \/ Decode \/ FromUnits

TextSpec == TextInit /\ [][TextNext]_textVars

-----------------------------------------------------------------------------
(* Every form holds what it may hold, whatever is converted into it.       *)
TextOK ==
  /\ form \in {"str", "runes", "units", "ended"}
  /\ value \in Seq(CASE form = "str" -> Byte [] form = "runes" -> Int [] OTHER -> Unit)

(* The positions between the runes of s, as the decoder steps through it. *)
Boundaries(s) ==
  LET from[i \in 0 .. Len(s)] ==
        IF i = Len(s) THEN {i}
        ELSE {i} \cup from[i + utf8_decode_rune_str(s, i + 1)[2]]
  IN  from[0]

(* What a reader gets for a rune written to a str: itself, unless it is no *)
(* code point; U+07FF is written in three bytes and a number that is too   *)
(* large in four, which the decoder takes for as many errors.              *)
Reads(r) ==
  CASE r = 2047 -> <<RUNE_ERROR, RUNE_ERROR, RUNE_ERROR>>
    [] r # 2047 /\ IsValid(r) -> <<r>>
    [] r \in Surrogates -> <<RUNE_ERROR>>
    [] OTHER -> <<RUNE_ERROR, RUNE_ERROR, RUNE_ERROR, RUNE_ERROR>>

ReadsAll(s) ==
  LET upto[n \in 0 .. Len(s)] == IF n = 0 THEN <<>> ELSE upto[n - 1] \o Reads(s[n])
  IN  upto[Len(s)]

(* And for one written as UTF-16: in every second plane from the third on  *)
(* the bit of SURR_SELF is lost.                                           *)
ReadsWide(r) ==
  CASE IsValid(r) /\ (r < 131072 \/ (r \div 65536) % 2 = 1) -> r
    [] IsValid(r) /\ r >= 131072 /\ (r \div 65536) % 2 = 0 -> r - 65536
    [] OTHER -> RUNE_ERROR

(* The runes written to a str are read back one by one: no encoding runs   *)
(* into the next, and no more is lost than Reads says.                     *)
RunesReadBack == form = "runes" => utf8_to_runes(runes_to_utf8(value)) = ReadsAll(value)

(* A str without damaged bytes and without U+07FF survives the way through *)
(* []rune unchanged.                                                       *)
WellFormed(s) == LET b == Boundaries(s) IN
  \A i \in 1 .. Len(s) : (i - 1 \in b /\ i \in b) => s[i] < 128

TextReadsBack == form = "str" /\ WellFormed(value) =>
  LET runes == utf8_to_runes(value)
  IN  2047 \notin Range(runes) => runes_to_utf8(runes) = value

(* Wherever a str is cut, every rune that the cut does not go through      *)
(* stays: the decoder falls back into step at the next boundary.           *)
Resynchronises == form = "str" =>
  LET b == Boundaries(value) IN
  \A k \in 0 .. Len(value) :
    /\ {i \in b : i <= k} \subseteq Boundaries(slice(value, 0, k))
    /\ {i - k : i \in {i \in b : i >= k}} \subseteq Boundaries(slice(value, k, Len(value)))

(* Taking a part in place gives the same string as taking it by copy, the  *)
(* form the optimiser replaces.                                            *)
MutSliceIsSlice == form = "str" =>
  \A i, j \in 0 .. Len(value) : i <= j => mut_slice(value, i, j) = slice(value, i, j)

(* The comparisons of strings agree with each other.  Strings without      *)
(* damaged bytes are ordered as their bytes are; two different strings may *)
(* be neither smaller nor larger only if one of them is damaged.           *)
OrderAgrees == form = "str" =>
  \A k \in 0 .. Len(value) :
    LET x == slice(value, 0, k)  y == slice(value, k, Len(value)) IN
    /\ less(x, y) <=> greater(y, x)
    /\ ~(less(x, y) /\ less(y, x))
    /\ lessEq(x, y) \/ lessEq(y, x) \/ ~WellFormed(x) \/ ~WellFormed(y)
    /\ WellFormed(x) /\ WellFormed(y) => (less(x, y) <=> Smaller(x, y))

(* The runes written as UTF-16 are read back one by one; the array made    *)
(* for them is long enough.                                                *)
WideReadsBack == form = "runes" =>
  utf16_decode(utf16_encode(value)) = [i \in DOMAIN value |-> ReadsWide(value[i])]

(* The units of a str for the system end with the only zero among them and *)
(* hold the runes in front of the first zero of the string.                *)
UnitsEndOnce == form = "str" =>
  LET w == utf16_from_str(value)
      runes == utf8_to_runes(value)
      before == Min({i \in 1 .. (Len(runes) + 1) : (runes \o <<0>>)[i] = 0}) - 1
  IN  /\ {i \in DOMAIN w : w[i] = 0} = {Len(w)}
      /\ utf16_decode(Front(w)) = [i \in 1 .. before |-> ReadsWide(runes[i])]

(* Units that come from the system give a str without surrogates, even if  *)
(* a pair was cut in two.                                                  *)
UnitsReadBack == form = "units" =>
  /\ utf8_to_runes(utf16_to_utf8_str(value)) = ReadsAll(utf16_decode(value))
  /\ \A r \in Range(utf16_decode(value)) : IsValid(r)

(* The number that digits stand for.                                       *)
Number(digits) ==
  LET upto[n \in 0 .. Len(digits)] == IF n = 0 THEN 0 ELSE 10 * upto[n - 1] + digits[n]
  IN  upto[Len(digits)]

(* A message names the index that was out of range; the only indexes it    *)
(* leaves without a digit are zero and the smallest Int.                   *)
MessageNamesIndex == \A k \in DOMAIN panic :
  LET index == panic[k][1]  said == panic[k][2]
      size == IF index < 0 THEN -index ELSE index
  IN  /\ said.minus <=> index < 0
      /\ IF index \in {0, MIN_INT} THEN said.digits = <<>>
         ELSE Number(said.digits) = size

(* As UTF-16, to and from the operating system.                            *)
WideAgrees == WideReadsBack /\ UnitsEndOnce /\ UnitsReadBack

(* A text says the same as bytes, as runes and as UTF-16, whole, cut and    *)
(* joined, with no loss but those that Reads and ReadsWide list; and so     *)
(* does the index in a message.                                             *)
FormsAgree ==
  /\ TextOK
  /\ RunesReadBack /\ TextReadsBack /\ Resynchronises /\ MutSliceIsSlice
  /\ WideAgrees /\ MessageNamesIndex
=============================================================================
