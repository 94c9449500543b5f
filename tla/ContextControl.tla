---------------------------- MODULE ContextControl ----------------------------
(***************************************************************************)
(* The tab manager of the main window, CContextControl                     *)
(* (src/src/interface/context_control.cpp).  Two notebooks hold the tabs:  *)
(* the left one the local tabs, the right one the remote tabs; a remote    *)
(* tab moves to the left when the last left tab closes.  A remote tab is   *)
(* an entry of m_context_controls (its CState and its page); closing it    *)
(* keeps the entry without a page, so that CreateRemoteTab can reuse the   *)
(* idle CState later.  m_current_context_controls caches the index of the *)
(* entry of the current context, and is recomputed when the context       *)
(* manager reports a change of context.                                    *)
(*                                                                         *)
(* Every handler runs on the GUI thread, and runs to completion except    *)
(* CloseTab on a busy remote tab: its prompt (wxMessageBoxEx, lines        *)
(* 467-471) runs a nested event loop, in which queued deferred closes,     *)
(* the engine's notifications and a second launch's command line           *)
(* (CreateRemoteTab) are handled; the call's locals wait in modal.  The   *)
(* model's state is the record ui, and each handler is an operator from   *)
(* ui to ui.  Windows are model values from Pages: a page   *)
(* deleted by the notebook returns to the allocator and a later tab may    *)
(* get the same pointer.  Indices into m_context_controls and into the     *)
(* notebooks are 0-based, as in the code.                                  *)
(***************************************************************************)
EXTENDS Integers, Sequences, SequencesExt, FiniteSets

CONSTANTS
    RemoteStates,  \* the CState objects the context manager can create
    LocalStates,   \* the CState objects of local tabs
    Pages,         \* window pointers for the tabs' pages
    NoPage,        \* a null pointer
    NoState,       \* no current context
    TabLimit,      \* the limit of remote tabs (200 in the code)
    MaxLocal,      \* local tabs the user opens at most at once
    MaxQueue       \* deferred close events pending at once

ASSUME NoPage \notin Pages /\ NoState \notin RemoteStates

VARIABLES
    ui,   \* the tab manager, the notebooks, the current context and the
          \* command state of every remote CState
    q,    \* the pending fzEVT_TAB_CLOSING_DEFERRED events (their pages)
    modal \* the CloseTab calls waiting in their busy prompt, innermost
          \* last: the locals notebook, tab, remoteControls, pState and
          \* wasCurrent

vars == <<ui, q, modal>>

Sides == {"left", "right"}

\* Command-queue state of a remote CState: "busy" (a command runs or is
\* being cancelled), "connected" (idle and connected) or "idle".
Status == {"idle", "connected", "busy"}

-----------------------------------------------------------------------------
(* Helpers                                                                 *)

Tabs(u, nb) == IF nb = "left" THEN u.left ELSE u.right

\* GetPageIndex: the 0-based index of a page, or wxNOT_FOUND (-1).
PageIndex(seq, p) == SelectInSeq(seq, LAMBDA x : x = p) - 1

\* GetRemoteControlsFromPage (lines 621-626), as a 1-based position or 0.
RemoteOfPage(u, p) == SelectInSeq(u.ctl, LAMBDA c : c.pg = p)

\* GetLocalControlsFromPage (lines 628-633).
LocalOfPage(u, p) == SelectInSeq(u.loc, LAMBDA c : c.pg = p)

\* _context_controls::used() (context_control.h:41).
Used(c) == c.pg # NoPage

\* Pages the allocator may hand out: those of no notebook or entry.
FreePages(u) ==
    Pages \ (ToSet(u.left) \cup ToSet(u.right)
             \cup {c.pg : c \in ToSet(u.ctl)} \cup {c.pg : c \in ToSet(u.loc)})

\* CStates the context manager has not created yet.
FreshStates(u) == RemoteStates \ {c.st : c \in ToSet(u.ctl)}

FreeLocalStates(u) == LocalStates \ {c.st : c \in ToSet(u.loc)}

-----------------------------------------------------------------------------
(* The context manager (CContextManager, outside src/): SetCurrentContext  *)
(* returns at once when the state is already current; otherwise it        *)
(* notifies STATECHANGE_CHANGEDCONTEXT, and OnStateChange (lines 861-880)  *)
(* recomputes m_current_context_controls.                                  *)

ChangedContext(u, s) ==
    IF u.cur = s THEN u
    ELSE [u EXCEPT !.cur = s,
                   !.curIdx = SelectInSeq(u.ctl, LAMBDA c : c.st = s) - 1]

\* CreateContextControls (lines 288-403): the new entry inherits its
\* splitter positions from m_context_controls[m_current_context_controls]
\* (or entry 0); its page is appended to the right notebook.  The ghost
\* oob records an index past the end of the vector.
CreateContextControls(u, s, pg) ==
    LET at == IF u.curIdx # -1 THEN u.curIdx ELSE 0
    IN [u EXCEPT !.oob = @ \/ (u.ctl # <<>> /\ ~(0 <= at /\ at < Len(u.ctl))),
                 !.right = Append(@, pg),
                 !.ctl = Append(@, [st |-> s, pg |-> pg])]

\* The reuse test of CreateRemoteTab (lines 136-147): an entry without a
\* tab whose CState is neither connected nor busy.
Reusable(u, c) == ~Used(c) /\ u.status[c.st] = "idle"

\* A variant of CreateRemoteTab without the GetTabCount(m_pRightTabs) limit.
CreateRemoteTab_NoLimit(u, pg, fresh) ==
    LET i  == SelectInSeq(u.ctl, LAMBDA c : Reusable(u, c))
        s  == IF i > 0 THEN u.ctl[i].st ELSE fresh
        u1 == IF i > 0
              THEN [u EXCEPT !.ctl = RemoveAt(@, i),
                             !.curIdx = IF @ > i - 1 THEN @ - 1 ELSE @]
              ELSE u
    IN ChangedContext(CreateContextControls(u1, s, pg), s)

\* CreateRemoteTab (lines 121-192).  pg is the page the allocator returns,
\* fresh the CState CreateState would make.
CreateRemoteTab(u, pg, fresh) ==
    IF Len(u.right) >= TabLimit THEN u
    ELSE
      LET i  == SelectInSeq(u.ctl, LAMBDA c : Reusable(u, c))
          s  == IF i > 0 THEN u.ctl[i].st ELSE fresh
          u1 == IF i > 0
                THEN [u EXCEPT !.ctl = RemoveAt(@, i),
                               !.curIdx = IF @ > i - 1 THEN @ - 1 ELSE @]
                ELSE u
      IN ChangedContext(CreateContextControls(u1, s, pg), s)

\* A CreateRemoteTab call needs a free page, and a fresh CState unless an
\* entry can be reused.
CanCreateRemote(u, pg, fresh) ==
    /\ pg \in FreePages(u)
    /\ \/ \E k \in 1..Len(u.ctl) : Reusable(u, u.ctl[k])
       \/ fresh \in FreshStates(u)

\* CreateLocalTab (lines 194-286): a new CState and a page appended to
\* the left notebook.
CreateLocalTab(u, pg, ls) ==
    [u EXCEPT !.left = Append(@, pg), !.loc = Append(@, [st |-> ls, pg |-> pg])]

\* A variant that adds the right notebook's first page to the left one
\* without removing it from the right one (AddPage before RemovePage(0)).
MoveFirstRemoteLeft_NoRemove(u) ==
    [u EXCEPT !.left = Append(@, u.right[1])]

\* Lines 496-510 and 580-592: the first page of the right notebook moves
\* to the end of the left one.
MoveFirstRemoteLeft(u) ==
    [u EXCEPT !.left = Append(@, u.right[1]), !.right = Tail(@)]

\* DeletePage: the page at 0-based index t of notebook nb goes;
\* wxAuiNotebook::DeletePage returns false for an index past the end.
DeletePage(u, nb, t) ==
    IF t >= Len(Tabs(u, nb)) THEN u
    ELSE IF nb = "left" THEN [u EXCEPT !.left = RemoveAt(@, t + 1)]
    ELSE [u EXCEPT !.right = RemoveAt(@, t + 1)]

\* A variant of the successor loop without its used() test.
NextState_NoUsedCheck(u) ==
    IF u.ctl # <<>> THEN u.ctl[1].st ELSE NoState

\* The successor of a closed current tab (lines 526-559): the CState of the
\* first entry that has a tab, or NoState.
NextState(u) ==
    LET k == SelectInSeq(u.ctl, LAMBDA c : Used(c))
    IN IF k > 0 THEN u.ctl[k].st ELSE NoState

\* CState::Disconnect: a connected state starts disconnecting.
Disconnect(u, s) ==
    [u EXCEPT !.status[s] = IF @ = "connected" THEN "busy" ELSE @]

\* The locals of CloseTab's remote branch before its prompt (lines
\* 455-466): the notebook, the tab index, remoteControls (a pointer into
\* m_context_controls, here its position k), pState and wasCurrent.
Frame(u, nb, t, k) ==
    [nb |-> nb, t |-> t, k |-> k, st |-> u.ctl[k].st,
     wasCurrent |-> u.cur = u.ctl[k].st]

\* The remote branch of CloseTab after the prompt (lines 473-560), with
\* the locals f kept from before it.  The notebook, the index and the
\* entry are used as they were: the page at index t is deleted, whichever
\* it now is, and the entry now at position k loses its tab (an erase by
\* CreateRemoteTab moves the later entries down under the pointer; the
\* vector never shrinks, and its size is back after the emplace_back).
CloseRemote(u, f, pg, fresh) ==
    LET u1 == IF f.nb = "left" /\ Len(u.left) = 1 /\ Len(u.right) > 0
              THEN MoveFirstRemoteLeft(u) ELSE u
        u2 == Disconnect([DeletePage(u1, f.nb, f.t) EXCEPT !.ctl[f.k].pg = NoPage],
                         f.st)
        nxt == NextState(u2)
    IN IF ~f.wasCurrent THEN u2
       ELSE IF nxt # NoState THEN ChangedContext(u2, nxt)
       ELSE CreateRemoteTab(u2, pg, fresh)

\* The local branch of CloseTab (lines 563-616): the last left tab stays
\* unless a remote tab can take its place.
CloseLocal(u, nb, t, j) ==
    IF Len(Tabs(u, nb)) = 1 /\ Len(u.right) = 0 THEN u
    ELSE LET u1 == IF Len(Tabs(u, nb)) = 1 THEN MoveFirstRemoteLeft(u) ELSE u
         IN [DeletePage(u1, nb, t) EXCEPT !.loc = RemoveAt(@, j)]

\* CloseTab (lines 455-619) with deletePage set, for a tab whose CState is
\* not busy (no prompt).
CloseTab(u, nb, t, pg, fresh) ==
    LET page == Tabs(u, nb)[t + 1]
    IN IF RemoteOfPage(u, page) > 0
       THEN CloseRemote(u, Frame(u, nb, t, RemoteOfPage(u, page)), pg, fresh)
       ELSE IF LocalOfPage(u, page) > 0
       THEN CloseLocal(u, nb, t, LocalOfPage(u, page))
       ELSE u

-----------------------------------------------------------------------------
(* Initial state: Create (lines 61-97) makes one local and one remote tab. *)

Empty ==
    [left |-> <<>>, right |-> <<>>, ctl |-> <<>>, loc |-> <<>>,
     cur |-> NoState, curIdx |-> -1,
     status |-> [s \in RemoteStates |-> "idle"], oob |-> FALSE]

Init ==
    /\ q = <<>> /\ modal = <<>>
    /\ \E p1, p2 \in Pages, s \in RemoteStates, ls \in LocalStates :
         /\ p1 # p2
         /\ ui = CreateRemoteTab(CreateLocalTab(Empty, p1, ls), p2, s)

-----------------------------------------------------------------------------
(* Handlers                                                                *)

\* OnTabBgDoubleclick (lines 635-643): a double click on the empty part of
\* a notebook opens a tab on that side.  OnTabContextNew (lines 898-901)
\* and a second instance started from the command line
\* (FileZilla.cpp:679) call CreateRemoteTab the same way; the last is a
\* socket event, handled inside a prompt's event loop too, while the
\* prompt blocks the user's input to the main window.
NewTab(side) ==
    /\ modal = <<>> \/ side = "right"
    /\ \E pg \in FreePages(ui) :
         IF side = "left"
         THEN /\ Len(ui.loc) < MaxLocal
              /\ \E ls \in FreeLocalStates(ui) : ui' = CreateLocalTab(ui, pg, ls)
         ELSE \E fresh \in RemoteStates :
                /\ CanCreateRemote(ui, pg, fresh)
                /\ ui' = CreateRemoteTab(ui, pg, fresh)
    /\ UNCHANGED <<q, modal>>

\* OnTabClosing (lines 771-796): the close button vetoes the event and
\* queues a deferred close carrying the page pointer.
RequestClose(side, t) ==
    /\ modal = <<>>
    /\ t \in 0..Len(Tabs(ui, side)) - 1
    /\ Len(q) < MaxQueue
    /\ q' = Append(q, Tabs(ui, side)[t + 1])
    /\ UNCHANGED <<ui, modal>>

\* A closing step that may make a new remote tab: it got a page and a
\* CState, when it made one.
Closes(r) ==
    /\ NoPage \notin ToSet(r.right)
    /\ NoState \notin {c.st : c \in ToSet(r.ctl)}
    /\ ui' = r

\* OnTabClosing_Deferred (lines 689-717): the page is looked up in the left
\* notebook, then in the right one, and closed if found.  For a busy
\* remote tab CloseTab stops in its prompt (lines 466-467).
DeferredClose ==
    /\ q # <<>>
    /\ q' = Tail(q)
    /\ LET p  == Head(q)
           nb == IF PageIndex(ui.left, p) # -1 THEN "left" ELSE "right"
           t  == PageIndex(Tabs(ui, nb), p)
           k  == RemoteOfPage(ui, p)
       IN IF t = -1 THEN UNCHANGED <<ui, modal>>
          ELSE IF k > 0 /\ ui.status[ui.ctl[k].st] = "busy"
          THEN /\ modal' = Append(modal, Frame(ui, nb, t, k))
               /\ UNCHANGED ui
          ELSE /\ \E pg \in FreePages(ui) \cup {NoPage},
                     fresh \in FreshStates(ui) \cup {NoState} :
                    Closes(CloseTab(ui, nb, t, pg, fresh))
               /\ UNCHANGED modal

\* The user answers the innermost prompt: No returns false (lines 468-470);
\* Yes cancels the queue and closes with the locals from before.
Answer(confirm) ==
    /\ modal # <<>>
    /\ modal' = Front(modal)
    /\ IF ~confirm THEN UNCHANGED ui
       ELSE \E pg \in FreePages(ui) \cup {NoPage},
               fresh \in FreshStates(ui) \cup {NoState} :
              Closes(CloseRemote(ui, Last(modal), pg, fresh))
    /\ UNCHANGED q

\* OnTabChanged (lines 719-769) for the right notebook: the tab's CState
\* becomes the current context.  (The left notebook's branch and the rest
\* only pair listings for comparison.)
SelectRemoteTab(t) ==
    /\ modal = <<>>
    /\ t \in 0..Len(ui.right) - 1
    /\ RemoteOfPage(ui, ui.right[t + 1]) > 0
    /\ ui' = ChangedContext(ui, ui.ctl[RemoteOfPage(ui, ui.right[t + 1])].st)
    /\ UNCHANGED <<q, modal>>

\* The engine: a tab's CState starts a command, finishes it connected or
\* disconnected; a closed tab's CState finishes its cancel or disconnect.
StateBusy(k) ==
    /\ Used(ui.ctl[k]) /\ ui.status[ui.ctl[k].st] # "busy"
    /\ ui' = [ui EXCEPT !.status[ui.ctl[k].st] = "busy"]
    /\ UNCHANGED <<q, modal>>

StateSettles(k, r) ==
    /\ ui.status[ui.ctl[k].st] = "busy"
    /\ r = "connected" => Used(ui.ctl[k])
    /\ ui' = [ui EXCEPT !.status[ui.ctl[k].st] = r]
    /\ UNCHANGED <<q, modal>>

Next ==
    \/ \E side \in Sides : NewTab(side)
    \/ \E side \in Sides, t \in 0..TabLimit + MaxLocal : RequestClose(side, t)
    \/ DeferredClose
    \/ \E confirm \in BOOLEAN : Answer(confirm)
    \/ \E t \in 0..TabLimit - 1 : SelectRemoteTab(t)
    \/ \E k \in 1..Len(ui.ctl) :
         \/ StateBusy(k)
         \/ \E r \in {"idle", "connected"} : StateSettles(k, r)

Spec == Init /\ [][Next]_vars

-----------------------------------------------------------------------------
(* Properties                                                              *)

Entry == [st : RemoteStates, pg : Pages \cup {NoPage}]

TypeOK ==
    /\ ui.left \in Seq(Pages) /\ ui.right \in Seq(Pages)
    /\ Len(ui.right) <= TabLimit
    /\ ui.ctl \in Seq(Entry)
    /\ ui.loc \in Seq([st : LocalStates, pg : Pages])
    /\ ui.cur \in RemoteStates \cup {NoState}
    /\ ui.curIdx \in -1..Cardinality(RemoteStates)
    /\ ui.status \in [RemoteStates -> Status]
    /\ q \in Seq(Pages)
    /\ modal \in Seq([nb : Sides, t : Nat, k : Nat, st : RemoteStates,
                      wasCurrent : BOOLEAN])

\* Every page shown is the page of exactly one tab, local or remote, and
\* every tab's page is shown exactly once: closing, moving a remote tab to
\* the left and reusing a closed tab's CState never lose or duplicate a
\* page, and a CState belongs to one entry.
PagesAccounted ==
    LET shown == ui.left \o ui.right
    IN /\ IsInjective(shown)
       /\ ToSet(shown) = {c.pg : c \in {c \in ToSet(ui.ctl) : Used(c)}}
                         \cup {c.pg : c \in ToSet(ui.loc)}
       /\ IsInjective([k \in 1..Len(ui.ctl) |-> ui.ctl[k].st])
       /\ \A a, b \in 1..Len(ui.ctl) :
            Used(ui.ctl[a]) /\ ui.ctl[a].pg = ui.ctl[b].pg => a = b

\* The current context always has an open tab: closing the current tab
\* selects another open tab's CState or opens a new tab.
CurrentHasTab ==
    \E k \in 1..Len(ui.ctl) : ui.ctl[k].st = ui.cur /\ Used(ui.ctl[k])

\* m_current_context_controls is never read past the end of the vector
\* (CreateContextControls, line 303).
ControlsIndexInRange == ~ui.oob

\* m_current_context_controls names the entry of the current context, so
\* that GetCurrentRemoteControls returns the current tab's controls.
CurrentIndexMatches ==
    ui.curIdx # -1 /\ ui.ctl[ui.curIdx + 1].st = ui.cur

\* The left notebook keeps a tab: closing its last tab moves a remote tab
\* over (the comments of lines 493-494 and 578).
LeftNeverEmpty == ui.left # <<>>

=============================================================================
