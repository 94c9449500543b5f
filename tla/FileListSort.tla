---------------------------- MODULE FileListSort ----------------------------
(***************************************************************************)
(* The comparison objects with which the file lists are sorted by          *)
(* std::sort (src/src/interface/filelistctrl.h lines 30-505): the name     *)
(* comparisons CmpCase, CmpNoCase and CmpNatural, the directory placement  *)
(* CmpDir, the per-column chains of CMP / CMP_LESS, and CReverseSort.      *)
(*                                                                         *)
(* A name is a sequence of character codes.  The state is the listing     *)
(* shown and the comparison object in use; a step builds a new comparison *)
(* object (column, direction, directory and name sort mode) or shows a     *)
(* new listing.  std::sort requires its comparison to be a strict weak     *)
(* ordering of the listing; that is the property checked.                 *)
(***************************************************************************)
EXTENDS Integers, Sequences, FiniteSets

LOCAL INSTANCE Relation

CONSTANTS
    Entries,      \* directory entries: [name, dir, size, time, perm, owner, type, path]
    MaxListing    \* the most entries a listing has

VARIABLES listing, sorter

vars == <<listing, sorter>>

Columns   == {"name", "size", "type", "time", "perm", "owner", "path", "namepath"}
DirModes  == {"ontop", "onbottom", "inline"}
NameModes == {"case_insensitive", "case_sensitive", "natural"}

NPos == -1   \* size_t(-1)

Sign(x) == IF x < 0 THEN -1 ELSE IF x > 0 THEN 1 ELSE 0

IsDigit(c) == c >= 48 /\ c <= 57          \* '0' .. '9'
Lower(c)   == IF c >= 65 /\ c <= 90 THEN c + 32 ELSE c

\* std::wstring_view::substr(0, p), with p = npos for the rest.
Prefix(s, p) == IF p = NPos \/ p >= Len(s) THEN s ELSE SubSeq(s, 1, p)
\* remove_prefix(k).
Drop(s, k) == SubSeq(s, k + 1, Len(s))

\* Lexicographic comparison of two code sequences, the codes lowered when
\* fold holds: the first position where they differ decides, else the
\* shorter is less.
Key(c, fold) == IF fold THEN Lower(c) ELSE c

FirstOf(S) == CHOOSE i \in S : \A j \in S : i <= j

LexCmp(s, t, fold) ==
    LET D == {i \in 1..Len(s) : i <= Len(t) /\ Key(s[i], fold) # Key(t[i], fold)}
    IN IF D = {} THEN Sign(Len(s) - Len(t))
       ELSE Sign(Key(s[FirstOf(D)], fold) - Key(t[FirstOf(D)], fold))

\* fz::stricmp (libfilezilla), also as CmpStringNoCase (lines 276-279):
\* compares the lowered characters.
Stricmp(s, t) == LexCmp(s, t, TRUE)

\* CmpCase (lines 65-68): wstring_view::compare.
CmpCase(s, t) == LexCmp(s, t, FALSE)

\* CmpNoCase (lines 70-77): case-insensitive, ties broken by case.
CmpNoCase(s, t) ==
    IF Stricmp(s, t) # 0 THEN Stricmp(s, t) ELSE CmpCase(s, t)

\* first_digit and first_nondigit (lines 79-97): a 0-based index, or npos.
FirstWhere(s, digit) ==
    LET I == {i \in 1..Len(s) : IsDigit(s[i]) = digit}
    IN IF I = {} THEN NPos ELSE FirstOf(I) - 1
FirstDigit(s)    == FirstWhere(s, TRUE)
FirstNondigit(s) == FirstWhere(s, FALSE)

\* The leading-zeros loops (lines 127-142): the zeros skipped, at most all
\* digits but the last.
ZerosSkipped(n) ==
    LET NZ == {i \in 1..Len(n) - 1 : n[i] # 48}
    IN IF NZ = {} THEN Len(n) - 1 ELSE FirstOf(NZ) - 1

\* The digit loop (lines 150-155) over numbers of equal length: the
\* difference of the first differing digits.
DigitCmp(a, b) ==
    LET D == {i \in 1..Len(a) : a[i] # b[i]}
    IN IF D = {} THEN 0 ELSE a[FirstOf(D)] - b[FirstOf(D)]

\* CmpNatural (lines 99-162): alternately the text before the next number,
\* case-insensitively, and the number by value; equal numbers with more
\* leading zeros sort later.  Without a number left in one of the names
\* the rest is compared case-insensitively.  Step[k] is one turn of the
\* while loop with k[1] and k[2] characters already removed from s1 and
\* s2; note that str2 loses the length of str1's text (line 115).
CmpNatural(s1, s2) ==
    LET Step[k \in (0..Len(s1)) \X (0..Len(s2))] ==
          LET str1 == Drop(s1, k[1])
              str2 == Drop(s2, k[2])
              p1 == FirstDigit(str1)
              p2 == FirstDigit(str2)
              t1 == Drop(str1, p1)
              t2 == Drop(str2, p1)
              n1 == Prefix(t1, FirstNondigit(t1))
              n2 == Prefix(t2, FirstNondigit(t2))
              i  == ZerosSkipped(n1)
              j  == ZerosSkipped(n2)
              leading_zeros == i - j
          IN CASE p1 = NPos \/ p2 = NPos -> Stricmp(str1, str2)
               [] Stricmp(Prefix(str1, p1), Prefix(str2, p2)) # 0 ->
                    Stricmp(Prefix(str1, p1), Prefix(str2, p2))
               [] Len(n1) - i > Len(n2) - j -> 1
               [] Len(n1) - i < Len(n2) - j -> -1
               [] DigitCmp(Drop(n1, i), Drop(n2, j)) # 0 ->
                    DigitCmp(Drop(n1, i), Drop(n2, j))
               [] leading_zeros # 0 -> leading_zeros
               [] OTHER -> Step[<<k[1] + p1 + Len(n1), k[2] + p1 + Len(n2)>>]
    IN Step[<<0, 0>>]

\* DoCmpName (lines 183-198).
DoCmpName(mode, n1, n2) ==
    CASE mode = "case_sensitive" -> CmpCase(n1, n2)
      [] mode = "natural"        -> CmpNatural(n1, n2)
      [] OTHER                   -> CmpNoCase(n1, n2)

\* CmpName (lines 256-260).
CmpName(mode, x, y) == DoCmpName(mode, x.name, y.name)

\* CmpDir (lines 212-255).
CmpDir(mode, x, y) ==
    CASE mode = "inline" \/ x.dir = y.dir -> 0
      [] mode = "ontop"                   -> IF x.dir THEN -1 ELSE 1
      [] OTHER                            -> IF x.dir THEN 1 ELSE -1

\* CmpSize and CmpTime (lines 262-293).
CmpSize(x, y) == Sign(x.size - y.size)
CmpTime(x, y) == Sign(x.time - y.time)

\* data1.path.compare_case(data2.path) of CFileListCtrlSortPath and
\* CFileListCtrlSortNamePath (lines 460-505).
CmpPath(x, y) == CmpCase(x.path, y.path)

\* The first decisive comparison of a CMP chain, 0 when all tie.
RECURSIVE Chain(_)
Chain(cs) == IF cs = <<>> THEN 0 ELSE IF Head(cs) # 0 THEN Head(cs) ELSE Chain(Tail(cs))

\* operator() of CFileListCtrlSortName ... CFileListCtrlSortNamePath
\* (lines 317-505): the column's chain of CMP, ending in CMP_LESS.  The
\* path columns begin with the path (CFileListCtrlSortPath) or end with it
\* (CFileListCtrlSortNamePath); the others begin with CmpDir and may
\* compare a column key before the name.
Less(s, x, y) ==
    LET first == IF s.column = "path" THEN CmpPath(x, y)
                 ELSE CmpDir(s.dirMode, x, y)
        key   == CASE s.column = "size"  -> CmpSize(x, y)
                   [] s.column = "type"  -> Stricmp(x.type, y.type)
                   [] s.column = "time"  -> CmpTime(x, y)
                   [] s.column = "perm"  -> Stricmp(x.perm, y.perm)
                   [] s.column = "owner" -> Stricmp(x.owner, y.owner)
                   [] OTHER              -> 0
        last  == IF s.column = "namepath" THEN CmpPath(x, y) ELSE 0
    IN Chain(<<first, key, CmpName(s.nameMode, x, y), last>>) < 0

\* CReverseSort (lines 303-315) swaps the arguments.
SortLess(s, x, y) ==
    Less(s, IF s.reverse THEN y ELSE x, IF s.reverse THEN x ELSE y)

Sorters == [column : Columns, dirMode : DirModes, nameMode : NameModes,
            reverse : BOOLEAN]


Init ==
    /\ listing = {}
    /\ sorter = [column |-> "name", dirMode |-> "ontop",
                 nameMode |-> "case_insensitive", reverse |-> FALSE]

\* A comparison object is built (the CFileListCtrlSort constructor, lines
\* 201-211, wrapped in CReverseSort for a descending sort).
BuildSorter ==
    \E s \in Sorters : s # sorter /\ sorter' = s /\ UNCHANGED listing

\* A new listing is shown.
ShowListing ==
    \E l \in SUBSET Entries :
        Cardinality(l) <= MaxListing /\ l # listing /\ listing' = l
        /\ UNCHANGED sorter

Next == BuildSorter \/ ShowListing

Spec == Init /\ [][Next]_vars

-----------------------------------------------------------------------------
TypeOK ==
    /\ listing \subseteq Entries /\ Cardinality(listing) <= MaxListing
    /\ sorter \in Sorters

\* std::sort is given a strict weak ordering of the listing: no entry
\* precedes itself, precedence is transitive, and so is being tied.
\* Otherwise the sort's result, and its memory accesses, are undefined.
SortIsStrictWeakOrder ==
    LET Lt  == [p \in listing \X listing |-> SortLess(sorter, p[1], p[2])]
        Tie == [p \in listing \X listing |-> ~Lt[p] /\ ~Lt[p[2], p[1]]]
    IN /\ IsIrreflexive(Lt, listing)
       /\ IsTransitive(Lt, listing)
       /\ IsTransitive(Tie, listing)

=============================================================================
