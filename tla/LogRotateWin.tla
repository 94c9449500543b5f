----------------------------- MODULE LogRotateWin -----------------------------
(***************************************************************************)
(* The Windows branch of logfile_writer::rotate                            *)
(* (src/src/engine/logfile_writer.cpp lines 44-99), over the file system   *)
(* and the log calls of LogRotate.  Instead of an fcntl lock on the old    *)
(* file, rotation is guarded by the named mutex "FileZilla 3 Logrotate     *)
(* Mutex": CreateMutexW(nullptr, true, name).  A named mutex exists while  *)
(* some process holds a handle to it; CreateMutexW gives the caller        *)
(* ownership only when it creates the mutex (bInitialOwner is ignored for  *)
(* an existing one, and the call never waits).  ReleaseMutex by a process  *)
(* that does not own the mutex fails and changes nothing.                  *)
(*                                                                         *)
(* rotate is an if, not a loop: one rotation per log call at most.        *)
(* MoveFileExW's result is ignored by the code; whether a move succeeds    *)
(* depends on the share modes of the other processes' handles, so each    *)
(* move may succeed or fail (MoveResults).                                 *)
(***************************************************************************)
EXTENDS Integers, FiniteSets

CONSTANTS
    Procs, NoProc, MaxSize, MaxLines, MaxInodes, OpenResults, WriteResults,
    MutexResults,  \* whether CreateMutexW returns a handle
    MoveResults    \* whether MoveFileExW succeeds

VARIABLES
    cur, backup, size, holder, nextIno, file, old, initd, pc, calls, lost,
    owner,    \* the process owning the named mutex, or NoProc
    handles   \* processes holding a handle to the named mutex

P == INSTANCE LogRotate

None == P!None

winVars == <<owner, handles>>
vars == <<P!vars, winVars>>

\* ReleaseMutex and CloseHandle (lines 63-64 and 95-96): only the owner
\* releases; the mutex goes with its last handle.
ReleaseAndClose(p) ==
    /\ owner' = IF owner = p THEN NoProc ELSE owner
    /\ handles' = handles \ {p}

Init == P!Init /\ owner = NoProc /\ handles = {}

\* Lines 45-46: past the limit, file_ is closed.
WinCheck(p) ==
    /\ pc[p] = "check"
    /\ IF MaxSize < size[file[p]]
       THEN /\ file' = [file EXCEPT ![p] = None]
            /\ pc' = [pc EXCEPT ![p] = "mutex"]
       ELSE pc' = [pc EXCEPT ![p] = "write"] /\ UNCHANGED file
    /\ UNCHANGED <<cur, backup, size, holder, nextIno, old, initd, calls, lost,
                   winVars>>

\* Lines 48-58: CreateMutexW creates the mutex, owned by the caller, or
\* opens the existing one without ownership.  No handle: rotate returns
\* false, with file_ closed and initialized_ still set.
CreateMutex(p) ==
    /\ pc[p] = "mutex"
    /\ \E ok \in MutexResults :
         IF ok
         THEN /\ handles' = handles \cup {p}
              /\ owner' = IF handles = {} THEN p ELSE owner
              /\ pc' = [pc EXCEPT ![p] = "reopen"]
         ELSE pc' = [pc EXCEPT ![p] = "idle"] /\ UNCHANGED winVars
    /\ UNCHANGED <<cur, backup, size, holder, nextIno, file, old, initd, calls,
                   lost>>

\* Lines 60-70: the file is opened by name again; a failed open returns
\* false.  If it is still past the limit rotate goes on to the moves;
\* otherwise it returns true and log writes to it.
WinReopen(p) ==
    /\ pc[p] = "reopen"
    /\ \E ok \in OpenResults :
         /\ P!OpenName(p, FALSE, ok)
         /\ IF ok /\ MaxSize < size[P!Opened]
            THEN /\ pc' = [pc EXCEPT ![p] = "discard"]
                 /\ UNCHANGED winVars
            ELSE /\ ReleaseAndClose(p)
                 /\ pc' = [pc EXCEPT ![p] = IF ok THEN "write" ELSE "idle"]
    /\ UNCHANGED <<backup, holder, old, initd, calls>>

\* Lines 70-90: file_ is closed, and the old backup is moved to a
\* temporary file and deleted.
DiscardBackup(p) ==
    /\ pc[p] = "discard"
    /\ file' = [file EXCEPT ![p] = None]
    /\ \E ok \in MoveResults : backup' = IF ok THEN None ELSE backup
    /\ pc' = [pc EXCEPT ![p] = "move"]
    /\ UNCHANGED <<cur, size, holder, nextIno, old, initd, calls, lost,
                   winVars>>

\* Line 91: MoveFileExW(name, name.1, MOVEFILE_REPLACE_EXISTING).
MoveToBackup(p) ==
    /\ pc[p] = "move"
    /\ \E ok \in MoveResults :
         IF ok /\ cur # None
         THEN backup' = cur /\ cur' = None
         ELSE UNCHANGED <<cur, backup>>
    /\ pc' = [pc EXCEPT ![p] = "create"]
    /\ UNCHANGED <<size, holder, nextIno, file, old, initd, calls, lost,
                   winVars>>

\* Lines 92-98: do_open with empty, then the mutex is released and its
\* handle closed; log writes if the open succeeded.
WinCreate(p) ==
    /\ pc[p] = "create"
    /\ \E ok \in OpenResults :
         /\ P!OpenName(p, TRUE, ok)
         /\ pc' = [pc EXCEPT ![p] = IF ok THEN "write" ELSE "idle"]
    /\ ReleaseAndClose(p)
    /\ UNCHANGED <<backup, holder, old, initd, calls>>

Next ==
    \/ \E p \in Procs :
         \/ (P!Log(p) \/ P!Write(p) \/ P!OptionsChanged(p)) /\ UNCHANGED winVars
         \/ WinCheck(p) \/ CreateMutex(p) \/ WinReopen(p) \/ DiscardBackup(p)
         \/ MoveToBackup(p) \/ WinCreate(p)
    \/ P!Finished /\ UNCHANGED winVars

Spec == Init /\ [][Next]_vars

-----------------------------------------------------------------------------
(* Properties                                                              *)

\* The comment of line 49: the recheck and the moves are "protected with a
\* mutex against other processes": at most one process is between
\* CreateMutexW and ReleaseMutex.
MutexExcludes ==
    \A p, q \in Procs :
        p # q /\ p \in handles /\ q \in handles =>
            pc[p] \notin {"discard", "move", "create"}
            \/ pc[q] \notin {"discard", "move", "create"}

\* As on POSIX (LogRotate): while nothing was truncated, <name>.1 holds a
\* log that grew past the limit.
RotatedLogWasFull == P!RotatedLogWasFull

=============================================================================
