---------------------------- MODULE MkdirAbstract ----------------------------
(***************************************************************************)
(* What a directory-creation command promises, whatever commands it sends: *)
(* while it runs it may create directories on the chain from the root to   *)
(* its target, each one inside an existing parent; it reports success only *)
(* when the target exists as a directory, and it may fail at any time.     *)
(* Several connections run such commands against one server.               *)
(***************************************************************************)
EXTENDS ServerPath

CONSTANTS
    Conns,      \* connections, each running one mkdir command
    InitDirs    \* directories that exist on the server initially

VARIABLES
    dirs,       \* directories on the server
    target,     \* target path of each connection's command
    result      \* "none" while running, then "ok" or "error"

avars == <<dirs, target, result>>

AInit ==
    /\ dirs = InitDirs
    /\ target \in [Conns -> Paths]
    /\ result = [c \in Conns |-> "none"]

\* The command of c creates p on the chain to its target.
ACreate(c, p) ==
    /\ result[c] = "none"
    /\ p \in Chain(target[c]) \ dirs
    /\ HasParent(p) /\ GetParent(p) \in dirs
    /\ dirs' = dirs \cup {p}
    /\ UNCHANGED <<target, result>>

ASucceed(c) ==
    /\ result[c] = "none"
    /\ target[c] \in dirs
    /\ result' = [result EXCEPT ![c] = "ok"]
    /\ UNCHANGED <<dirs, target>>

AFail(c) ==
    /\ result[c] = "none"
    /\ result' = [result EXCEPT ![c] = "error"]
    /\ UNCHANGED <<dirs, target>>

ANext ==
    \E c \in Conns :
        \/ \E p \in Paths : ACreate(c, p)
        \/ ASucceed(c)
        \/ AFail(c)

ASpec == AInit /\ [][ANext]_avars

=============================================================================
