----------------------------- MODULE ServerPath -----------------------------
(***************************************************************************)
(* Remote server paths as used by the FTP engine (CServerPath).  The class *)
(* itself is not part of the sources here; its operations are modelled     *)
(* from the way mkd.cpp uses them.  A path is the sequence of its          *)
(* segments, the root "/" is the empty sequence, and the empty (unknown)   *)
(* CServerPath is the model value NoPath.                                  *)
(***************************************************************************)
EXTENDS Naturals, Sequences, SequencesExt

CONSTANTS
    Segs,       \* segment names (model values)
    MaxDepth,   \* longest path considered
    NoPath      \* the empty CServerPath (current directory unknown)

ASSUME MaxDepth \in Nat \ {0}

Root == <<>>

Paths == BoundedSeq(Segs, MaxDepth)

HasParent(p) == Len(p) > 0

GetParent(p) == Front(p)

GetLastSegment(p) == Last(p)

AddSegment(p, s) == Append(p, s)

\* p lies strictly below q
IsSubdirOf(p, q) == IsStrictPrefix(q, p)

\* p lies strictly above q
IsParentOf(p, q) == IsStrictPrefix(p, q)

GetCommonParent(p, q) == LongestCommonPrefix({p, q})

\* The path and all its ancestors.
Chain(p) == Prefixes(p)

=============================================================================
