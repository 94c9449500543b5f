------------------------------ MODULE LogRotate ------------------------------
(***************************************************************************)
(* logfile_writer (src/src/engine/logfile_writer.cpp) on POSIX: several    *)
(* FileZilla processes append to one log file and rotate it to "<name>.1"  *)
(* when it grows past the size limit.  A rotating process takes an         *)
(* advisory fcntl lock on the file it had open, reopens the file by name,  *)
(* and renames it only if the name still refers to the inode it locked;  *)
(* otherwise another process rotated first.                                *)
(*                                                                         *)
(* Within a process the writer's mutex serialises the engines, so each     *)
(* process is one sequence of steps; a step is one file-system call, where *)
(* other processes may interleave.  Files are inodes; the directory maps   *)
(* the name and the backup name to inodes; sizes are counted in lines.     *)
(***************************************************************************)
EXTENDS Integers, FiniteSets

CONSTANTS
    Procs,        \* processes sharing the log file
    NoProc,       \* no lock holder (a model value)
    MaxSize,      \* the size limit, in lines (OPTION_LOGGING_FILE_SIZELIMIT)
    MaxLines,     \* log calls per process
    MaxInodes,    \* inodes the file system may create
    OpenResults,  \* outcomes of fz::file::open: {TRUE} or BOOLEAN
    WriteResults  \* outcomes of fz::file::write2

ASSUME MaxSize \in Nat \ {0} /\ MaxLines \in Nat /\ MaxInodes \in Nat
ASSUME NoProc \notin Procs

None == 0
Inodes == 1..MaxInodes

VARIABLES
    cur,      \* the inode named <name>, or None
    backup,   \* the inode named <name>.1, or None
    size,     \* lines in each inode
    holder,   \* holder of the fcntl lock on each inode
    nextIno,  \* the next inode the file system creates
    file,     \* file_: the inode a process has open, or None
    old,      \* old_fd: the inode detached and locked for rotation, or None
    initd,    \* initialized_
    pc,       \* where a process is in log()
    calls,    \* log calls made
    lost      \* ghost: lines destroyed by truncating a file

vars == <<cur, backup, size, holder, nextIno, file, old, initd, pc, calls,
          lost>>

fsVars == <<cur, backup, size, holder, nextIno>>

-----------------------------------------------------------------------------
(* do_open (lines 226-243): open <name> for appending, creating it if it  *)
(* is missing; with empty, an existing file is truncated.  The result is  *)
(* the inode opened, or None when the open fails.                          *)

Opened == IF cur = None THEN nextIno ELSE cur

OpenName(p, empty, ok) ==
    IF ~ok THEN /\ file' = [file EXCEPT ![p] = None]
                /\ UNCHANGED <<cur, size, nextIno, lost>>
    ELSE /\ cur = None => nextIno <= MaxInodes
         /\ file' = [file EXCEPT ![p] = Opened]
         /\ cur' = Opened
         /\ nextIno' = IF cur = None THEN nextIno + 1 ELSE nextIno
         /\ size' = IF cur = None \/ empty THEN [size EXCEPT ![Opened] = 0] ELSE size
         /\ lost' = IF cur # None /\ empty THEN lost + size[cur] ELSE lost

\* Closing old_fd releases the lock on its inode.
Release(p) == holder' = [holder EXCEPT ![old[p]] = NoProc]

-----------------------------------------------------------------------------

Init ==
    /\ cur = None /\ backup = None
    /\ size = [i \in Inodes |-> 0]
    /\ holder = [i \in Inodes |-> NoProc]
    /\ nextIno = 1
    /\ file = [p \in Procs |-> None]
    /\ old = [p \in Procs |-> None]
    /\ initd = [p \in Procs |-> FALSE]
    /\ pc = [p \in Procs |-> "idle"]
    /\ calls = [p \in Procs |-> 0]
    /\ lost = 0

\* init (lines 198-224): initialized_ is set before the open, so a writer
\* whose open failed does not try again.  (The size limit is the constant
\* MaxSize.)
InitWriter(p, ok) ==
    /\ initd' = [initd EXCEPT ![p] = TRUE]
    /\ OpenName(p, FALSE, ok)

\* log (lines 153-165): a writer that has no file open initialises once;
\* after that it drops its messages.
Log(p) ==
    /\ pc[p] = "idle" /\ calls[p] < MaxLines
    /\ calls' = [calls EXCEPT ![p] = @ + 1]
    /\ CASE file[p] # None ->
              pc' = [pc EXCEPT ![p] = "check"] /\ UNCHANGED <<fsVars, file, initd, lost>>
         [] initd[p] ->
              UNCHANGED <<fsVars, file, initd, lost, pc>>
         [] OTHER ->
              \E ok \in OpenResults :
                 /\ InitWriter(p, ok)
                 /\ pc' = [pc EXCEPT ![p] = IF ok THEN "check" ELSE "idle"]
              /\ UNCHANGED <<backup, holder>>
    /\ UNCHANGED <<old>>

\* Mutant of Check: the loop condition compares with <=, rotating a file
\* that has just reached the limit.
Check_AtLimit(p) ==
    /\ pc[p] = "check"
    /\ IF MaxSize <= size[file[p]]
       THEN /\ old' = [old EXCEPT ![p] = file[p]]
            /\ file' = [file EXCEPT ![p] = None]
            /\ pc' = [pc EXCEPT ![p] = "lock"]
       ELSE pc' = [pc EXCEPT ![p] = "write"] /\ UNCHANGED <<old, file>>
    /\ UNCHANGED <<fsVars, initd, calls, lost>>

\* The loop condition of rotate (line 101): past the limit the file is
\* detached and kept as old_fd for the lock (line 108).
Check(p) ==
    /\ pc[p] = "check"
    /\ IF MaxSize < size[file[p]]
       THEN /\ old' = [old EXCEPT ![p] = file[p]]
            /\ file' = [file EXCEPT ![p] = None]
            /\ pc' = [pc EXCEPT ![p] = "lock"]
       ELSE pc' = [pc EXCEPT ![p] = "write"] /\ UNCHANGED <<old, file>>
    /\ UNCHANGED <<fsVars, initd, calls, lost>>

\* fcntl(old_fd, F_SETLKW) (line 112) waits until no other process holds
\* the lock.
Lock(p) ==
    /\ pc[p] = "lock" /\ holder[old[p]] = NoProc
    /\ holder' = [holder EXCEPT ![old[p]] = p]
    /\ pc' = [pc EXCEPT ![p] = "reopen"]
    /\ UNCHANGED <<cur, backup, size, nextIno, file, old, initd, calls, lost>>

\* Mutant of Reopen: the inode comparison of line 128 dropped, so the file
\* reopened by name is always renamed.
Reopen_NoInodeCheck(p) ==
    /\ pc[p] = "reopen"
    /\ \E ok \in OpenResults :
         /\ OpenName(p, FALSE, ok)
         /\ IF ok
            THEN pc' = [pc EXCEPT ![p] = "rename"] /\ UNCHANGED <<holder, old>>
            ELSE /\ Release(p)
                 /\ old' = [old EXCEPT ![p] = None]
                 /\ pc' = [pc EXCEPT ![p] = "idle"]
    /\ UNCHANGED <<backup, initd, calls>>

\* Mutant of Reopen: old_fd is not closed when another process has
\* rotated (line 129), so its lock is never released.
Reopen_NoRelease(p) ==
    /\ pc[p] = "reopen"
    /\ \E ok \in OpenResults :
         /\ OpenName(p, FALSE, ok)
         /\ IF ok /\ Opened = old[p]
            THEN pc' = [pc EXCEPT ![p] = "rename"] /\ UNCHANGED <<holder, old>>
            ELSE /\ UNCHANGED holder
                 /\ old' = [old EXCEPT ![p] = None]
                 /\ pc' = [pc EXCEPT ![p] = IF ok THEN "check" ELSE "idle"]
    /\ UNCHANGED <<backup, initd, calls>>

\* Reopen by name and compare inodes (lines 115-131): a different inode
\* means another process rotated; the lock goes and the loop re-checks.
Reopen(p) ==
    /\ pc[p] = "reopen"
    /\ \E ok \in OpenResults :
         /\ OpenName(p, FALSE, ok)
         /\ IF ok /\ Opened = old[p]
            THEN pc' = [pc EXCEPT ![p] = "rename"] /\ UNCHANGED <<holder, old>>
            ELSE /\ Release(p)
                 /\ old' = [old EXCEPT ![p] = None]
                 /\ pc' = [pc EXCEPT ![p] = IF ok THEN "check" ELSE "idle"]
    /\ UNCHANGED <<backup, initd, calls>>

\* rename(name, name.1) (line 136).
Rename(p) ==
    /\ pc[p] = "rename"
    /\ backup' = cur /\ cur' = None
    /\ pc' = [pc EXCEPT ![p] = "create"]
    /\ UNCHANGED <<size, holder, nextIno, file, old, initd, calls, lost>>

\* A new empty log file, then both old descriptors close and the lock goes
\* (lines 139-147); the loop re-checks the new file.
Create(p) ==
    /\ pc[p] = "create"
    /\ \E ok \in OpenResults :
         /\ OpenName(p, TRUE, ok)
         /\ pc' = [pc EXCEPT ![p] = IF ok THEN "check" ELSE "idle"]
    /\ Release(p)
    /\ old' = [old EXCEPT ![p] = None]
    /\ UNCHANGED <<backup, initd, calls>>

\* Mutant of Write: the written part is not removed from the buffer (line
\* 194), so the loop appends the line again and again.
Write_NoAdvance(p) ==
    /\ pc[p] = "write"
    /\ \E ok \in WriteResults :
         IF ok THEN size' = [size EXCEPT ![file[p]] = @ + 1] /\ UNCHANGED <<file, pc>>
         ELSE /\ file' = [file EXCEPT ![p] = None] /\ UNCHANGED size
              /\ pc' = [pc EXCEPT ![p] = "idle"]
    /\ UNCHANGED <<cur, backup, holder, nextIno, old, initd, calls, lost>>

\* The line is appended (lines 187-195); a failed write closes the file.
Write(p) ==
    /\ pc[p] = "write"
    /\ \E ok \in WriteResults :
         IF ok THEN size' = [size EXCEPT ![file[p]] = @ + 1] /\ UNCHANGED file
         ELSE file' = [file EXCEPT ![p] = None] /\ UNCHANGED size
    /\ pc' = [pc EXCEPT ![p] = "idle"]
    /\ UNCHANGED <<cur, backup, holder, nextIno, old, initd, calls, lost>>

\* A change of the log file options (operator(), lines 35-40) closes the
\* file and lets the next message open it again.
OptionsChanged(p) ==
    /\ pc[p] = "idle" /\ calls[p] < MaxLines
    /\ file' = [file EXCEPT ![p] = None]
    /\ initd' = [initd EXCEPT ![p] = FALSE]
    /\ UNCHANGED <<fsVars, old, pc, calls, lost>>

Done == \A p \in Procs : pc[p] = "idle" /\ calls[p] = MaxLines
Finished == Done /\ UNCHANGED vars

Next ==
    \/ \E p \in Procs :
         \/ Log(p) \/ Check(p) \/ Lock(p) \/ Reopen(p) \/ Rename(p) \/ Create(p)
         \/ Write(p) \/ OptionsChanged(p)
    \/ Finished

\* A process keeps running the log call it is in; the kernel grants a
\* released fcntl lock to a waiter (weak fairness suffices: a waiting
\* process stays enabled while the lock is free).
Spec ==
    /\ Init /\ [][Next]_vars
    /\ \A p \in Procs :
         /\ WF_vars(Check(p)) /\ WF_vars(Lock(p)) /\ WF_vars(Reopen(p))
         /\ WF_vars(Rename(p)) /\ WF_vars(Create(p)) /\ WF_vars(Write(p))

-----------------------------------------------------------------------------
(* Properties                                                              *)

TypeOK ==
    /\ cur \in Inodes \cup {None} /\ backup \in Inodes \cup {None}
    /\ size \in [Inodes -> 0..MaxLines * Cardinality(Procs)]
    /\ holder \in [Inodes -> Procs \cup {NoProc}]
    /\ file \in [Procs -> Inodes \cup {None}]
    /\ old \in [Procs -> Inodes \cup {None}]
    /\ pc \in [Procs -> {"idle", "check", "lock", "reopen", "rename", "create", "write"}]

\* The file rotate renames (line 136) is the file the process locked and
\* found past the limit: the inode comparison of line 128 guarantees that
\* <name> still refers to old_fd's inode and the lock keeps any other
\* process from renaming it away in between.
RenameHoldsLock ==
    \A p \in Procs :
        pc[p] = "rename" => cur = old[p] /\ holder[cur] = p /\ file[p] = cur

\* <name>.1 only ever holds a log that had grown past the limit: when two
\* processes rotate at once, the second one finds the inode changed and
\* does not rename the first one's new, nearly empty file over the backup,
\* which would destroy the rotated log.  Stated for behaviours in which no
\* truncation happened: rotate does not check the size again after taking
\* the lock, so a file emptied by the truncation of NoLineTruncated is
\* renamed over the backup all the same.
RotatedLogWasFull == lost = 0 /\ backup # None => size[backup] > MaxSize

\* Every log call returns: no process waits forever for the lock or loops
\* in rotate.
LogReturns == \A p \in Procs : pc[p] # "idle" ~> pc[p] = "idle"

\* No logged line is destroyed: only rotation moves lines out of <name>,
\* and creating the new file truncates nothing another process wrote.
NoLineTruncated == lost = 0

\* A log call never waits for another process (the specification: "log
\* calls must never block").
LogNeverBlocks ==
    \A p \in Procs : pc[p] = "lock" => holder[old[p]] \in {NoProc, p}

=============================================================================
