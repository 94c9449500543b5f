---------------------------- MODULE MC_FtpMkdir ----------------------------
(***************************************************************************)
(* Model of FtpMkdir: two connections, names a and b, paths up to depth 2. *)
(* Name b contains "already exists" and b/b may not be created, so a       *)
(* server that echoes the path in its permission error gives a reply that  *)
(* contains the phrase.  a/b is a plain file, and a exists but may not be  *)
(* entered, so the walk up, the CWD into a created name and the MKD of     *)
(* the full path all fail or succeed in some behaviour.                    *)
(***************************************************************************)
EXTENDS FtpMkdir, TLC

CONSTANTS a, b, c1, c2

MC_Segs == {a, b}
MC_Conns == {c1, c2}
MC_InitDirs == {<<>>, <<a>>}
MC_Files == {<<a, b>>}
MC_NoEnter == {<<a>>}
MC_NoCreate == {<<b, b>>}
MC_Phrases == {"already exists", "file exists", "directory exists"}
MC_SegPhrases == [s \in MC_Segs |-> IF s = b THEN {"already exists"} ELSE {}]

\* "550 Directory already exists", "550 a: File exists",
\* "550 Create directory operation failed."
MC_ExistsReplies ==
    { [ok |-> FALSE, exact |-> TRUE, phrases |-> {"already exists"}],
      [ok |-> FALSE, exact |-> FALSE, phrases |-> {"file exists"}],
      [ok |-> FALSE, exact |-> FALSE, phrases |-> {}] }

MC_Symmetry == Permutations(MC_Conns)
=============================================================================
