------------------------- MODULE MC_SizeFormatting -------------------------
(* Sizes around every boundary the formatter has for base 1000 and 1024   *)
(* up to the second prefix: zero, one, the dividers and their neighbours, *)
(* remainders that round up into the next unit, and a negative (unknown)  *)
(* size.                                                                   *)
EXTENDS SizeFormatting

MCSizes == {0, 1, 2, 999, 1000, 1001, 1023, 1024, 1025, 1536, 9999, 10239,
            10240, 999999, 1000000, 1000001, 1000500, 1023999, 1048575,
            1048576, 1048577, 1049088, 1572864, 1999999, 2000000, -1}
\* No separator (the C locale), one character, and one longer than five.
MCLocaleSeparators == {<<>>, <<"sep">>, [i \in 1..6 |-> "sep"]}
=============================================================================
