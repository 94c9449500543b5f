------------------------------ MODULE MC_Bookmarks ------------------------------
(* Bookmarks with two processes and trees of up to two bookmarks.  The    *)
(* user's names include "a" and "A", equal ignoring case, and "New        *)
(* bookmark", which makes the dialog pick "New bookmark 2".               *)
EXTENDS Bookmarks

MCLower(w) == IF w = "A" THEN "a" ELSE IF w = "New bookmark" THEN "new bookmark" ELSE w

MCUserNames == {<<"a">>, <<"A">>}

MCInitFile == <<[name |-> <<"a">>, local |-> "", remote |-> "R", sync |-> FALSE]>>

=============================================================================
