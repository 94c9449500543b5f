------------------------------- MODULE Bookmarks -------------------------------
(***************************************************************************)
(* The global bookmarks of FileZilla (src/src/interface/bookmarks_dialog.cpp) *)
(* as several FileZilla processes (Procs) edit them.  The bookmarks file  *)
(* is shared; every read and write of it holds the interprocess mutex     *)
(* MUTEX_GLOBALBOOKMARKS, so each is one step.  A process either runs the *)
(* bookmarks dialog (CBookmarksDialog: a tree of the bookmarks it loaded, *)
(* the selected item and the editor fields beside the tree) or adds one   *)
(* bookmark with the "New bookmark" dialog (CNewBookmarkDialog).  Both are *)
(* modal, so a process does one at a time.                                 *)
(*                                                                         *)
(* A name is a sequence of words; CmpNoCase is equality after Lower is    *)
(* applied to every word.  The names the code generates, "New bookmark",  *)
(* "New bookmark 2", "Copy of X", "Copy (2) of X", are built from words   *)
(* the same way.  A remote directory is a model value; "bad" is a text    *)
(* that CServerPath::SetPath cannot parse.  The order of the tree         *)
(* (SortChildren) and of the file is left out: no property depends on it. *)
(* Site-specific bookmarks are kept by CSiteManager, which is not in src/, *)
(* and are left out.                                                       *)
(***************************************************************************)
EXTENDS Integers, Sequences, SequencesExt, TLC

CONSTANTS
    Procs,      \* FileZilla processes
    UserNames,  \* names the user types for a bookmark
    Lower(_),   \* case folding of a word
    Locals,     \* local directories, "" for none
    Remotes,    \* remote directory texts, "" for none
    InitFile,   \* the bookmarks file at the start
    MaxItems,   \* bound on the bookmarks of a tree
    MaxWords    \* bound on the words of a name ("Copy of Copy of ...")

VARIABLES
    file,   \* the <Bookmark> elements of the bookmarks file
    dlg,    \* the bookmarks dialog of each process
    known   \* ghost: the folded names each open dialog loaded

vars == <<file, dlg, known>>

Editor == [local : Locals, remote : Remotes, sync : BOOLEAN]
EmptyEditor == [local |-> "", remote |-> "", sync |-> FALSE]
Closed == [open |-> FALSE, tree |-> <<>>, sel |-> 0, editor |-> EmptyEditor]

Fold(nm) == [i \in DOMAIN nm |-> Lower(nm[i])]
SameName(a, b) == Fold(a) = Fold(b)
NameTaken(seq, nm) == \E i \in DOMAIN seq : SameName(seq[i].name, nm)

\* The first name of the series Gen(1), Gen(2), ... that no entry of seq has
\* (the "for (;;)" loops of OnNewBookmark and OnCopy).
FirstFree(seq, Gen(_)) ==
    Gen(CHOOSE k \in 1..Len(seq) + 1 :
          ~NameTaken(seq, Gen(k)) /\ \A j \in 1..k - 1 : NameTaken(seq, Gen(j)))

NewName(k) == IF k = 1 THEN <<"New bookmark">>
              ELSE <<"New bookmark", ToString(k)>>
CopyName(old, k) ==
    IF k = 1 THEN <<"Copy of">> \o old ELSE <<"Copy (", ToString(k), ") of">> \o old

ParsesRemote(r) == r # "bad"

-----------------------------------------------------------------------------
(* The dialog's helpers                                                    *)

\* LoadGlobalBookmarks (lines 228-277): skip a bookmark without a name,
\* with an unparsable remote directory or with neither directory; sync
\* browsing only with both.
LoadGlobalBookmarks(f) ==
    LET keep(e) == e.name # <<>> /\ ParsesRemote(e.remote)
                   /\ (e.local # "" \/ e.remote # "")
        load(e) == [e EXCEPT !.sync = e.sync /\ e.local # "" /\ e.remote # ""]
    IN [i \in 1..Len(SelectSeq(f, keep)) |-> load(SelectSeq(f, keep)[i])]

\* Verify (lines 512-572): with a bookmark selected, the editor's remote
\* directory must parse, one directory must be given, and sync browsing
\* needs both.
Verify(d) ==
    \/ d.sel = 0
    \/ /\ ParsesRemote(d.editor.remote)
       /\ d.editor.remote # "" \/ d.editor.local # ""
       /\ d.editor.sync => d.editor.local # "" /\ d.editor.remote # ""

\* UpdateBookmark (lines 574-606): the editor into the selected bookmark;
\* an empty remote field leaves m_remote_dir as it was.
UpdateBookmark(d) ==
    IF d.sel = 0 THEN d.tree
    ELSE [d.tree EXCEPT ![d.sel] =
            [@ EXCEPT !.local = d.editor.local, !.sync = d.editor.sync,
                      !.remote = IF d.editor.remote = "" THEN @
                                 ELSE d.editor.remote]]

\* DisplayBookmark (lines 608-642): the bookmark into the editor; the
\* folder item clears the two paths and leaves the check box alone.
DisplayBookmark(tree, i, editor) ==
    IF i = 0 THEN [editor EXCEPT !.local = "", !.remote = ""]
    ELSE [local |-> tree[i].local, remote |-> tree[i].remote,
          sync |-> tree[i].sync]

\* Selecting item i: OnSelChanging (lines 493-505) vetoes unless Verify
\* holds, then UpdateBookmark; OnSelChanged displays the new selection.
SelectIn(d, tree, i) ==
    [d EXCEPT !.tree = tree, !.sel = i,
              !.editor = DisplayBookmark(tree, i, d.editor)]

-----------------------------------------------------------------------------
(* Steps                                                                   *)

Init ==
    /\ file = InitFile
    /\ dlg = [p \in Procs |-> Closed]
    /\ known = [p \in Procs |-> {}]

\* Run (lines 300-387): load the global bookmarks and select the folder.
Open(p) ==
    /\ ~dlg[p].open
    /\ LET tree == LoadGlobalBookmarks(file)
       IN /\ dlg' = [dlg EXCEPT ![p] = [open |-> TRUE, tree |-> tree, sel |-> 0,
                                        editor |-> EmptyEditor]]
          /\ known' = [known EXCEPT ![p] = {Fold(tree[i].name) : i \in DOMAIN tree}]
    /\ UNCHANGED file

\* The user types into the editor, enabled only with a bookmark selected.
Edit(p) ==
    /\ dlg[p].open /\ dlg[p].sel # 0
    /\ \E e \in Editor : dlg' = [dlg EXCEPT ![p].editor = e]
    /\ UNCHANGED <<file, known>>

Select(p) ==
    /\ dlg[p].open /\ Verify(dlg[p])
    /\ \E i \in 0..Len(dlg[p].tree) \ {dlg[p].sel} :
         dlg' = [dlg EXCEPT ![p] = SelectIn(@, UpdateBookmark(@), i)]
    /\ UNCHANGED <<file, known>>

\* OnNewBookmark (lines 644-708): Verify, UpdateBookmark, append an empty
\* bookmark under the first free "New bookmark" name and select it.
NewBookmark(p) ==
    /\ dlg[p].open /\ Len(dlg[p].tree) < MaxItems /\ Verify(dlg[p])
    /\ LET t1 == UpdateBookmark(dlg[p])
           t2 == Append(t1, [name |-> FirstFree(t1, NewName), local |-> "",
                             remote |-> "", sync |-> FALSE])
       IN dlg' = [dlg EXCEPT ![p] = SelectIn(@, t2, Len(t2))]
    /\ UNCHANGED <<file, known>>

\* OnBeginLabelEdit and OnEndLabelEdit (lines 788-844): renaming another
\* item than the selected one needs Verify; a name another bookmark has,
\* ignoring case, is refused.
Rename(p) ==
    /\ dlg[p].open
    /\ \E i \in DOMAIN dlg[p].tree, nm \in UserNames :
         /\ i # dlg[p].sel => Verify(dlg[p])
         /\ ~\E j \in DOMAIN dlg[p].tree \ {i} : SameName(dlg[p].tree[j].name, nm)
         /\ dlg' = [dlg EXCEPT ![p].tree[i].name = nm]
    /\ UNCHANGED <<file, known>>

\* OnDelete (lines 720-733): m_is_deleting skips Verify and UpdateBookmark;
\* the folder is selected and displayed.
Delete(p) ==
    /\ dlg[p].open /\ dlg[p].sel # 0
    /\ dlg' = [dlg EXCEPT ![p] = SelectIn(@, RemoveAt(@.tree, @.sel), 0)]
    /\ UNCHANGED <<file, known>>

\* OnCopy (lines 735-786): Verify, UpdateBookmark, append a copy under the
\* first free "Copy of" name and select it.
Copy(p) ==
    /\ dlg[p].open /\ dlg[p].sel # 0 /\ Len(dlg[p].tree) < MaxItems
    /\ Len(dlg[p].tree[dlg[p].sel].name) < MaxWords
    /\ Verify(dlg[p])
    /\ LET t1 == UpdateBookmark(dlg[p])
           old == t1[dlg[p].sel]
           t2 == Append(t1, [old EXCEPT !.name = FirstFree(t1, LAMBDA k : CopyName(old.name, k))])
       IN dlg' = [dlg EXCEPT ![p] = SelectIn(@, t2, Len(t2))]
    /\ UNCHANGED <<file, known>>

\* OnOK (lines 460-471): Verify, UpdateBookmark, and SaveGlobalBookmarks
\* (lines 389-437), which removes every <Bookmark> of the file and writes
\* the tree.
OK(p) ==
    /\ dlg[p].open /\ Verify(dlg[p])
    /\ file' = UpdateBookmark(dlg[p])
    /\ dlg' = [dlg EXCEPT ![p] = Closed]
    /\ known' = [known EXCEPT ![p] = {}]

Cancel(p) ==
    /\ dlg[p].open
    /\ dlg' = [dlg EXCEPT ![p] = Closed]
    /\ known' = [known EXCEPT ![p] = {}]
    /\ UNCHANGED file

\* CNewBookmarkDialog::OnOK (lines 116-191) for a global bookmark: a name,
\* a parsable remote directory, one directory, and sync only with both.
NewBookmarkInput(nm, e) ==
    /\ nm # <<>>
    /\ ParsesRemote(e.remote)
    /\ e.local # "" \/ e.remote # ""
    /\ e.sync => e.local # "" /\ e.remote # ""

\* CBookmarksDialog::AddBookmark (lines 931-996), called by that OnOK: the
\* same checks again, and no bookmark of the file with the same name
\* ignoring case; the bookmark is inserted into the file.
AddBookmark(p) ==
    /\ ~dlg[p].open
    /\ \E nm \in UserNames, e \in Editor :
         /\ NewBookmarkInput(nm, e)
         /\ ~NameTaken(file, nm)
         /\ Len(file) < MaxItems
         /\ file' = Append(file, [name |-> nm, local |-> e.local,
                                  remote |-> e.remote, sync |-> e.sync])
    /\ UNCHANGED <<dlg, known>>

Next ==
    \E p \in Procs :
        \/ Open(p) \/ Edit(p) \/ Select(p) \/ NewBookmark(p) \/ Rename(p)
        \/ Delete(p) \/ Copy(p) \/ OK(p) \/ Cancel(p) \/ AddBookmark(p)

Spec == Init /\ [][Next]_vars

-----------------------------------------------------------------------------
(* Properties                                                              *)

Entry == [name : Seq(STRING), local : Locals, remote : Remotes, sync : BOOLEAN]

TypeOK ==
    /\ file \in Seq(Entry)
    /\ \A p \in Procs :
         /\ dlg[p].tree \in Seq(Entry) /\ dlg[p].sel \in 0..Len(dlg[p].tree)
         /\ dlg[p].editor \in Editor

Valid(e) ==
    /\ ParsesRemote(e.remote)
    /\ e.local # "" \/ e.remote # ""
    /\ e.sync => e.local # "" /\ e.remote # ""

\* No two bookmarks of a dialog's tree, nor of the file, have the same name
\* ignoring case: the rename check, the "New bookmark" and "Copy of" loops
\* and AddBookmark's scan of the file keep names apart, also as dialogs of
\* several processes load and save the file in turn.
NamesDistinct ==
    LET distinct(seq) == \A i, j \in DOMAIN seq :
                            i # j => ~SameName(seq[i].name, seq[j].name)
    IN distinct(file) /\ \A p \in Procs : distinct(dlg[p].tree)

\* Only the selected bookmark may be incomplete (an empty new bookmark, or
\* one being edited): every other bookmark of a tree, and every bookmark
\* of the file, has a directory, a parsable remote directory, and sync
\* browsing only with both.  Verify guards every step that leaves the
\* selection or writes the file.
OthersValid ==
    /\ \A i \in DOMAIN file : Valid(file[i])
    /\ \A p \in Procs : \A i \in DOMAIN dlg[p].tree \ {dlg[p].sel} :
         Valid(dlg[p].tree[i])

\* OK saves the selected bookmark as the editor shows it.
SavedAsShown ==
    [][\A p \in Procs :
         OK(p) /\ dlg[p].sel # 0 =>
           LET e == file'[dlg[p].sel] IN
             /\ e.local = dlg[p].editor.local
             /\ e.remote = dlg[p].editor.remote
             /\ e.sync = dlg[p].editor.sync]_vars

\* A bookmark leaves the file only when a dialog that loaded it saves: one
\* process's bookmark is not dropped by another that never saw it.
NoBookmarkLost ==
    [][\A i \in DOMAIN file :
         ~NameTaken(file', file[i].name) =>
           \E p \in Procs : OK(p) /\ Fold(file[i].name) \in known[p]]_vars

=============================================================================
