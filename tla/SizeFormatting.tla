--------------------------- MODULE SizeFormatting ---------------------------
(***************************************************************************)
(* SizeFormatter (src/src/engine/sizeformatting.cpp): a byte count shown   *)
(* as a number with a thousands separator, or scaled to a unit prefix      *)
(* (K, M, G, ... with base 1024 or 1000) with up to three decimal places,  *)
(* always rounded up.                                                      *)
(*                                                                         *)
(* A string is a sequence of symbols: digits "0".."9", the token "sep"   *)
(* (a character of the thousands separator), "-" and the unit letters.  *)
(* result of Format is a record of its parts: the number, the decimals     *)
(* after the radix separator, and the unit symbol or the "bytes" word.     *)
(*                                                                         *)
(* Each call of the formatter is one step from the idle state, and the    *)
(* caller's use of the result a step back to it; the properties compare   *)
(* the result with a reference                                             *)
(* definition of the value shown.  TLC's integers are 32-bit, so sizes are *)
(* kept below 2^31 / 1000.                                                 *)
(***************************************************************************)
EXTENDS Integers, Sequences, FiniteSets

CONSTANTS
    Sizes,          \* byte counts to format
    DecimalOptions, \* values of OPTION_SIZE_DECIMALPLACES
    LocaleSeparators  \* what the locale gives as thousands separator, as
                      \* token sequences (the C locale gives none)

ASSUME Sizes \subseteq Int /\ DecimalOptions \subseteq Int

VARIABLES call, out, locale

vars == <<call, out, locale>>

\* SizeFormat, and the unit prefixes (lines 19-20).
SizeFormats == {"bytes", "iec", "si1024", "si1000"}
Prefixes == <<"K", "M", "G", "T", "P", "E">>
PrefixCount == 7
NoPrefix == -1

DigitChar == <<"0", "1", "2", "3", "4", "5", "6", "7", "8", "9">>
Dig(n) == DigitChar[n + 1]

\* GetThousandsSeparator (lines 23-47): the locale's separator, computed
\* once and cut to five characters.
GetThousandsSeparator ==
    IF Len(locale) > 5 THEN SubSeq(locale, 1, 5) ELSE locale

\* ToString (lines 48-86): digits from the last, a separator before each
\* group of three when more digits follow, if the separator is not empty.
\* Mutant: the group counter compared one too late.
RECURSIVE ToStringLoop_LateGroup(_, _, _, _)
ToStringLoop_LateGroup(n, d, acc, sep) ==
    IF n = 0 THEN acc
    ELSE LET acc1 == <<Dig(n % 10)>> \o acc
             n1   == n \div 10
             grp  == sep # <<>> /\ n1 # 0 /\ d + 1 = 4
         IN ToStringLoop_LateGroup(n1, IF sep # <<>> /\ n1 # 0 THEN (IF grp THEN 0 ELSE d + 1) ELSE d,
                         IF grp THEN sep \o acc1 ELSE acc1, sep)

RECURSIVE ToStringLoop(_, _, _, _)
ToStringLoop(n, d, acc, sep) ==
    IF n = 0 THEN acc
    ELSE LET acc1 == <<Dig(n % 10)>> \o acc
             n1   == n \div 10
             grp  == sep # <<>> /\ n1 # 0 /\ d + 1 = 3
         IN ToStringLoop(n1, IF sep # <<>> /\ n1 # 0 THEN (IF grp THEN 0 ELSE d + 1) ELSE d,
                         IF grp THEN sep \o acc1 ELSE acc1, sep)

ToString(n, thousands_separator) ==
    LET sep == IF thousands_separator THEN GetThousandsSeparator ELSE <<>> IN
    CASE n = 0 -> <<"0">>
      [] n < 0 -> <<"-">> \o ToStringLoop(-n, 0, <<>>, sep)
      [] OTHER -> ToStringLoop(n, 0, <<>>, sep)

\* AppendUnitSymbol (lines 126-141).
UnitSymbol(format, p) ==
    (IF p > 0 THEN <<Prefixes[p]>> \o (IF format = "iec" THEN <<"i">> ELSE <<>>)
     ELSE <<>>) \o <<"B">>

\* The scaling loop (lines 172-186).  The condition parses as
\* (p < prefix_count && forced_prefix) ? p != *forced_prefix : r > divider.
\* Mutant: the loop divides while r >= divider.
RECURSIVE Scale_GreaterEqual(_, _, _, _, _, _)
Scale_GreaterEqual(r, p, rem, clipped, divider, forced) ==
    IF IF p < PrefixCount /\ forced # NoPrefix THEN p # forced ELSE r >= divider
    THEN Scale_GreaterEqual(r \div divider, p + 1, r - (r \div divider) * divider,
               clipped \/ rem # 0, divider, forced)
    ELSE [r |-> r, p |-> p, rem |-> rem, clipped |-> clipped]

RECURSIVE Scale(_, _, _, _, _, _)
Scale(r, p, rem, clipped, divider, forced) ==
    IF IF p < PrefixCount /\ forced # NoPrefix THEN p # forced ELSE r > divider
    THEN Scale(r \div divider, p + 1, r - (r \div divider) * divider,
               clipped \/ rem # 0, divider, forced)
    ELSE [r |-> r, p |-> p, rem |-> rem, clipped |-> clipped]

CeilDiv(a, b) == a \div b + (IF a % b = 0 THEN 0 ELSE 1)

\* sprintf("%0<k>d", v) for 0 <= v < 10^k.
PadDigits(v, k) == [i \in 1..k |-> Dig((v \div (10 ^ (k - i))) % 10)]

\* Mutant: the binary rescale forgets the clipped lower remainders.
Round_DropClipped(s, format, places, divider) ==
    IF places = 0
    THEN [r |-> s.r + (IF s.rem # 0 \/ s.clipped THEN 1 ELSE 0), frac |-> <<>>]
    ELSE IF s.p = 0 THEN [r |-> s.r, frac |-> <<>>]
    ELSE LET bin  == format # "si1000"
             rem1 == IF bin THEN CeilDiv(s.rem * 1000, 1024)
                    ELSE s.rem
             clp1 == s.clipped /\ ~bin
             k    == IF places \in {1, 2, 3} THEN places ELSE 1
             mx   == 10 ^ k - 1
             dv   == IF k = 1 THEN 100 ELSE 10
             clp2 == clp1 \/ (k # 3 /\ rem1 % dv # 0)
             rem2 == IF k # 3 THEN rem1 \div dv ELSE rem1
             rem3 == IF clp2 THEN rem2 + 1 ELSE rem2
         IN IF rem3 > mx THEN [r |-> s.r + 1, frac |-> PadDigits(0, k)]
            ELSE [r |-> s.r, frac |-> PadDigits(rem3, k)]

Round(s, format, places, divider) ==
    IF places = 0
    THEN [r |-> s.r + (IF s.rem # 0 \/ s.clipped THEN 1 ELSE 0), frac |-> <<>>]
    ELSE IF s.p = 0 THEN [r |-> s.r, frac |-> <<>>]
    ELSE LET bin  == format # "si1000"
             rem1 == IF bin THEN CeilDiv((s.rem + (IF s.clipped THEN 1 ELSE 0)) * 1000, 1024)
                    ELSE s.rem
             clp1 == s.clipped /\ ~bin
             k    == IF places \in {1, 2, 3} THEN places ELSE 1
             mx   == 10 ^ k - 1
             dv   == IF k = 1 THEN 100 ELSE 10
             clp2 == clp1 \/ (k # 3 /\ rem1 % dv # 0)
             rem2 == IF k # 3 THEN rem1 \div dv ELSE rem1
             rem3 == IF clp2 THEN rem2 + 1 ELSE rem2
         IN IF rem3 > mx THEN [r |-> s.r + 1, frac |-> PadDigits(0, k)]
            ELSE [r |-> s.r, frac |-> PadDigits(rem3, k)]

\* The static Format (lines 144-253).
Format(size, suffix, format, sep, places, forced) ==
    CASE size < 0 -> [kind |-> "unknown"]
      [] format = "bytes" ->
           [kind |-> "bytes", num |-> ToString(size, sep),
            word |-> IF ~suffix THEN "none" ELSE IF size = 1 THEN "byte" ELSE "bytes"]
      [] OTHER ->
           LET divider == IF format = "si1000" THEN 1000 ELSE 1024
               s == Scale(size, 0, 0, FALSE, divider, forced)
               v == Round(s, format, places, divider)
           IN [kind |-> "unit", num |-> ToString(v.r, sep), frac |-> v.frac,
               unit |-> UnitSymbol(format, s.p), p |-> s.p, base |-> divider]

\* Format by purpose (lines 255-265), from the size options.
FormatPurpose(size, purpose, fmtOpt, sepOpt, placesOpt) ==
    LET f == IF purpose = "shortened" /\ fmtOpt = "bytes" THEN "iec" ELSE fmtOpt
    IN Format(size, purpose = "in_line", f, sepOpt, placesOpt, NoPrefix)

\* Format to a given prefix (lines 267-283).
FormatForced(size, prefix, base, fmtOpt, sepOpt, placesOpt) ==
    LET f == CASE base = 1000 -> "si1000"
               [] fmtOpt = "si1024" -> "si1024"
               [] OTHER -> "iec"
    IN Format(size, TRUE, f, sepOpt, placesOpt, prefix)

\* GetUnitSymbol (lines 285-302).
GetUnitSymbol(prefix, base, fmtOpt) ==
    LET f == CASE base = 1000 -> "si1000"
               [] fmtOpt = "si1024" -> "si1024"
               [] OTHER -> "iec"
    IN UnitSymbol(f, IF prefix > PrefixCount - 1 THEN PrefixCount - 1 ELSE prefix)

-----------------------------------------------------------------------------
(* The calls                                                               *)

Init == call = [entry |-> "none"] /\ out = [kind |-> "none"]
        /\ locale \in LocaleSeparators

\* A view formats a size under the user's size options.
CallFormatPurpose ==
    /\ call.entry = "none"
    /\ \E size \in Sizes, purpose \in {"normal", "in_line", "shortened"},
       fmt \in SizeFormats, sep \in BOOLEAN, places \in DecimalOptions :
        /\ call' = [entry |-> "purpose", size |-> size, format |-> fmt,
                    sep |-> sep, places |-> places, forced |-> NoPrefix]
        /\ out' = FormatPurpose(size, purpose, fmt, sep, places)
        /\ UNCHANGED locale

\* A rate or size display forces a prefix.
CallFormatForced ==
    /\ call.entry = "none"
    /\ \E size \in Sizes, prefix \in 0..3, base \in {1000, 1024},
       fmt \in SizeFormats, sep \in BOOLEAN, places \in DecimalOptions :
        /\ call' = [entry |-> "forced", size |-> size, format |-> fmt,
                    sep |-> sep, places |-> places, forced |-> prefix]
        /\ out' = FormatForced(size, prefix, base, fmt, sep, places)
        /\ UNCHANGED locale

\* A unit label.
CallGetUnitSymbol ==
    /\ call.entry = "none"
    /\ \E prefix \in 0..PrefixCount, base \in {1000, 1024}, fmt \in SizeFormats :
        /\ call' = [entry |-> "unit", prefix |-> prefix, base |-> base, format |-> fmt]
        /\ out' = [kind |-> "symbol", unit |-> GetUnitSymbol(prefix, base, fmt)]
        /\ UNCHANGED locale

\* The caller takes the string; the formatter keeps no state.
Return ==
    /\ call.entry # "none"
    /\ call' = [entry |-> "none"] /\ out' = [kind |-> "none"]
    /\ UNCHANGED locale

Next == CallFormatPurpose \/ CallFormatForced \/ CallGetUnitSymbol \/ Return

Spec == Init /\ [][Next]_vars

-----------------------------------------------------------------------------
(* Reference definitions and properties                                    *)

\* The number a sequence of digits and separators reads as.
RECURSIVE NumVal(_)
NumVal(sq) ==
    IF sq = <<>> THEN 0
    ELSE LET t == sq[Len(sq)] IN
         IF t \in {"sep", "-"} THEN NumVal(SubSeq(sq, 1, Len(sq) - 1))
         ELSE NumVal(SubSeq(sq, 1, Len(sq) - 1)) * 10
              + (CHOOSE v \in 0..9 : Dig(v) = t)

\* The decimal digits of n >= 0, and the same digits with a separator
\* before every group of three counted from the right.
RECURSIVE Digits(_)
Digits(n) == IF n < 10 THEN <<Dig(n)>> ELSE Digits(n \div 10) \o <<Dig(n % 10)>>

RECURSIVE Grouped(_, _)
Grouped(ds, sep) ==
    IF sep # <<>> /\ Len(ds) > 3
    THEN Grouped(SubSeq(ds, 1, Len(ds) - 3), sep) \o sep \o SubSeq(ds, Len(ds) - 2, Len(ds))
    ELSE ds

\* The value shown for a size scaled to prefix p with k decimals, in units
\* of 10^-k of the prefix, and the exact value rounded up.
Shown(o) == NumVal(o.num) * 10 ^ Len(o.frac) + NumVal(o.frac)
Exact(size, o) == CeilDiv(size * 10 ^ Len(o.frac), o.base ^ o.p)

TypeOK ==
    /\ out.kind \in {"none", "unknown", "bytes", "unit", "symbol"}
    /\ out.kind = "unit" => out.p \in 0..PrefixCount - 1 /\ Len(out.frac) \in 0..3
    /\ out.kind = "symbol" => Len(out.unit) \in 1..3
    /\ locale \in LocaleSeparators

\* Format without a unit (SizeFormat::bytes) shows the size exactly, its
\* digits grouped by three with the locale's separator when the option is
\* on (ToString's counter d, lines 67-77).
BytesShowExactly ==
    out.kind = "bytes" =>
        out.num = Grouped(Digits(call.size),
                          IF call.sep THEN GetThousandsSeparator ELSE <<>>)

\* A size scaled to a unit is rounded up, never down, and by less than one
\* unit of the last decimal shown: the remainders dropped by the scaling
\* loop (clipped) and the conversion of a binary remainder to decimals
\* (lines 192-234) each may only raise the value.
RoundsUp ==
    out.kind = "unit" =>
        LET e == Exact(call.size, out) IN Shown(out) >= e /\ Shown(out) <= e + 1

\* Without a forced prefix the loop picks the unit in which the number is
\* at most one divider, and a prefix only when the size exceeds it
\* (the r > divider condition of line 178).
ScaleFits ==
    out.kind = "unit" /\ call.forced = NoPrefix =>
        /\ out.p = 0 \/ call.size > out.base ^ out.p
        /\ call.size \div (out.base ^ out.p) <= out.base

=============================================================================
