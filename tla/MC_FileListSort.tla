--------------------------- MODULE MC_FileListSort ---------------------------
EXTENDS FileListSort

\* Character codes of the names below.
ChA == 97   ChDot == 46   ChT == 116   ChX == 120   ChSpace == 32
ChOpen == 40   ChClose == 41   ChOne == 49   ChTwo == 50   ChZero == 48
ChCapA == 65

\* "a.txt", "a1.txt", "a (1).txt": a download, and the names browsers give
\* its second and third copy; "A10", "a01" and "a2" for the numeric cases.
Txt == <<ChDot, ChT, ChX, ChT>>
MCNames == {<<ChA>> \o Txt, <<ChA, ChOne>> \o Txt,
            <<ChA, ChSpace, ChOpen, ChOne, ChClose>> \o Txt,
            <<ChCapA, ChOne, ChZero>>, <<ChA, ChZero, ChOne>>, <<ChA, ChTwo>>}

MCEntries ==
    {[name |-> n, dir |-> (n = <<ChA, ChTwo>>), size |-> Len(n), time |-> 1,
      perm |-> <<ChX>>, owner |-> <<ChA>>, type |-> <<ChT>>, path |-> <<ChA>>] :
     n \in MCNames}
==============================================================================
