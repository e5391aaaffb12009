------------------------------ MODULE MC_Text ------------------------------
(* The ends of the ranges that the conversions tell apart. *)
EXTENDS Text
MCRunes == {-1, 0, 65, 127, 128, 2046, 2047, 2048, 55295, 55296, 56320, 57343, 57344,
            65533, 65535, 65536, 131071, 131072, 196608, 1114111, 1114112}
MCBytes == {0, 65, 128, 143, 144, 159, 160, 191, 192, 194, 223, 224, 237, 239, 240, 244, 245}
MCUnits == {0, 65, 55295, 55296, 55360, 56319, 56320, 57343, 57344, 65535}
MCIndexes == {-32768, -12, 0, 1, 2, 3, 10}
MCMinInt == -32768
=============================================================================
