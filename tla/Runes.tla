------------------------------- MODULE Runes -------------------------------
(***************************************************************************)
(* The conversions of the run-time library between runes (code points),    *)
(* UTF-8 bytes and UTF-16 units: api/utf8.hpp and api/utf16.hpp.           *)
(*                                                                         *)
(* Shifts by n and masks of the n low bits of a number that is not         *)
(* negative are \div 2^n and % 2^n; an | of operands without a common bit  *)
(* is +.  The one | whose operands do share a bit, in utf16_decode_rune,   *)
(* is written out.                                                         *)
(***************************************************************************)
EXTENDS Integers, Sequences, FiniteSets

Byte == 0 .. 255

RUNE3_MAX == 65535
RUNE_ERROR == 65533
MAX_RUNE == 1114111
LOCB == 128
HICB == 191
AS == 240
XX == 241
SURR1 == 55296
SURR2 == 56320
SURR3 == 57344
SURR_SELF == 65536

Unit == 0 .. (SURR_SELF - 1)

Surrogates == SURR1 .. (SURR3 - 1)

(* The code points that text may hold. *)
IsValid(r) == r \in 0 .. MAX_RUNE /\ r \notin Surrogates

-----------------------------------------------------------------------------
(* UTF-8 *)

(* What a first byte announces: the low digit (base 16) is the length of   *)
(* the sequence, the high digit the range of its second byte, or 15 for a  *)
(* byte that stands alone.                                                 *)
utf8_first(b) ==
  CASE b \in 0 .. 127 -> AS
    [] b \in 194 .. 223 -> 2
    [] b = 224 -> 19
    [] b \in (225 .. 236) \cup {238, 239} -> 3
    [] b = 237 -> 35
    [] b = 240 -> 52
    [] b \in 241 .. 243 -> 4
    [] b = 244 -> 68
    [] OTHER -> XX

utf8_accept_ranges(k) ==
  CASE k = 0 -> LOCB .. HICB
    [] k = 1 -> 160 .. HICB
    [] k = 2 -> LOCB .. 159
    [] k = 3 -> 144 .. HICB
    [] k = 4 -> LOCB .. 143

(* The rune at byte i of s and the number of bytes it takes.               *)
utf8_decode_rune_str(s, i) ==
  LET x == utf8_first(s[i])
      size == x % 8
      complete == /\ i + size - 1 <= Len(s)
                  /\ s[i + 1] \in utf8_accept_ranges(x \div 16)
                  /\ \A k \in 2 .. size - 1 : s[i + k] \in LOCB .. HICB
      low(k) == s[i + k] % 64
  IN  IF i > Len(s) THEN <<RUNE_ERROR, 0>>
      ELSE IF x = AS THEN <<s[i], 1>>
      ELSE IF x = XX \/ ~complete THEN <<RUNE_ERROR, 1>>
      ELSE <<CASE size = 2 -> (s[i] % 32) * 64 + low(1)
               [] size = 3 -> (s[i] % 16) * 4096 + low(1) * 64 + low(2)
               [] size = 4 -> (s[i] % 8) * 262144 + low(1) * 4096 + low(2) * 64 + low(3),
             size>>

(* The bytes written for a rune.  Seen as an unsigned number a negative    *)
(* rune is above every bound; one that is too large is replaced after the  *)
(* choice of the length, which still looks at the rune given.              *)
utf8_push_rune_bytes(r) ==
  LET q == IF r \notin 0 .. MAX_RUNE \/ r \in Surrogates THEN RUNE_ERROR ELSE r
      Low(n) == LOCB + ((q \div n) % 64)
  IN  CASE r \in 0 .. 127 -> <<r>>
        [] r \in 128 .. 2046 -> <<192 + r \div 64, LOCB + (r % 64)>>
        [] r \in 2047 .. RUNE3_MAX -> <<224 + q \div 4096, Low(64), Low(1)>>
        [] OTHER -> <<240 + q \div 262144, Low(4096), Low(64), Low(1)>>

runes_to_utf8(s) ==
  LET upto[n \in 0 .. Len(s)] ==
        IF n = 0 THEN <<>> ELSE upto[n - 1] \o utf8_push_rune_bytes(s[n])
  IN  upto[Len(s)]

(* The runes of s from byte i on, and those of the whole string. *)
utf8_to_runes(s) ==
  LET from[i \in 1 .. (Len(s) + 1)] ==
        IF i > Len(s) THEN <<>>
        ELSE LET d == utf8_decode_rune_str(s, i)
             IN  <<d[1]>> \o from[i + d[2]]
  IN  from[1]

-----------------------------------------------------------------------------
(* UTF-16 *)

(* The rune of a surrogate pair: (r1 - SURR1) << 10 | ((r2 - SURR2) +      *)
(* SURR_SELF).  The right operand has the bit of SURR_SELF set; where the  *)
(* left one has it too, the two bits are one.                              *)
utf16_decode_rune(r1, r2) ==
  IF r1 \in SURR1 .. (SURR2 - 1) /\ r2 \in SURR2 .. (SURR3 - 1)
  THEN LET high == r1 - SURR1
           both == (high \div 64) % 2 = 1
       IN  high * 1024 + (r2 - SURR2) + (IF both THEN 0 ELSE SURR_SELF)
  ELSE RUNE_ERROR

utf16_decode(s) ==
  LET pairAt(i) == /\ s[i] \in SURR1 .. (SURR2 - 1)
                   /\ i < Len(s)
                   /\ s[i + 1] \in SURR2 .. (SURR3 - 1)
      from[i \in 1 .. (Len(s) + 1)] ==
        IF i > Len(s) THEN <<>>
        ELSE IF pairAt(i) THEN <<utf16_decode_rune(s[i], s[i + 1])>> \o from[i + 2]
        ELSE <<IF s[i] \in Surrogates THEN RUNE_ERROR ELSE s[i]>> \o from[i + 1]
  IN  from[1]

utf16_encode_rune(r) ==
  IF r \in SURR_SELF .. MAX_RUNE
  THEN <<SURR1 + (((r - SURR_SELF) \div 1024) % 1024), SURR2 + ((r - SURR_SELF) % 1024)>>
  ELSE <<RUNE_ERROR, RUNE_ERROR>>

utf16_append_rune(a, r) ==
  CASE r \in 0 .. (SURR_SELF - 1) /\ r \notin Surrogates -> Append(a, r)
    [] r \in SURR_SELF .. MAX_RUNE -> a \o utf16_encode_rune(r)
    [] OTHER -> Append(a, RUNE_ERROR)

(* The units of some runes, one rune appended after the other.             *)
utf16_append_runes(runes) ==
  LET upto[n \in 0 .. Len(runes)] ==
        IF n = 0 THEN <<>> ELSE utf16_append_rune(upto[n - 1], runes[n])
  IN  upto[Len(runes)]

(* The array is made before it is filled: two units for each rune from     *)
(* SURR_SELF on.  A unit written past it would be lost.                    *)
utf16_encode(runes) ==
  LET room == Len(runes) + Cardinality({i \in DOMAIN runes : runes[i] >= SURR_SELF})
      units == utf16_append_runes(runes)
  IN  SubSeq(units, 1, IF Len(units) < room THEN Len(units) ELSE room)

(* The units of a string up to its first zero, and a zero. *)
utf16_from_str(s) ==
  LET runes == utf8_to_runes(s)
      ends == {i \in DOMAIN runes : runes[i] = 0}
      upto == IF ends = {} THEN Len(runes)
              ELSE (CHOOSE i \in ends : \A j \in ends : i <= j) - 1
  IN  utf16_append_rune(utf16_append_runes(SubSeq(runes, 1, upto)), 0)

utf16_to_utf8_str(w) == runes_to_utf8(utf16_decode(w))
=============================================================================
