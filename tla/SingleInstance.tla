---------------------------- MODULE SingleInstance ----------------------------
(***************************************************************************)
(* The single-instance handoff of the application object CFileZillaApp     *)
(* (src/src/interface/FileZilla.cpp).  Every launch of the program runs    *)
(* OnInit: it tries the interprocess mutex MUTEX_SINGLE_INSTANCE without   *)
(* waiting.  The launch that gets it becomes the primary instance: it      *)
(* listens on localhost port 14148 (StartIPCServer) and goes on starting   *)
(* up.  A launch that does not get it connects to that port, writes its    *)
(* command line and exits (SendCommandLineToExistingInstance); the        *)
(* primary's event loop accepts the connection and opens a tab for it     *)
(* (OnSocketEvent).                                                        *)
(*                                                                         *)
(* Each element of Launches is one start of the program, a process of its *)
(* own.  A connection made to the port is queued by the kernel in the      *)
(* listening socket's backlog whether or not the listener's event loop     *)
(* runs yet; closing the listening socket drops what is queued.  The port  *)
(* may be held by another program (Foreign), e.g. a server whose admin     *)
(* port is 14148.  The command line itself is abstracted to the launch     *)
(* that sent it.                                                           *)
(***************************************************************************)
EXTENDS Sequences, SequencesExt, FiniteSets

CONSTANTS
    Launches,     \* program starts
    NoLaunch,     \* nobody (mutex free, port free)
    Foreign,      \* another program listening on port 14148
    PortTaken,    \* whether Foreign holds the port
    InitResults   \* whether the rest of OnInit succeeds

ASSUME NoLaunch \notin Launches /\ Foreign \notin Launches \cup {NoLaunch}

VARIABLES
    pc,        \* where each launch is
    mutex,     \* the launch holding MUTEX_SINGLE_INSTANCE, or NoLaunch
    listener,  \* who listens on port 14148: a launch, Foreign or NoLaunch
    backlog,   \* connections queued at the listener, by sending launch
    handled    \* launches whose command line a primary acted on

vars == <<pc, mutex, listener, backlog, handled>>

Init ==
    /\ pc = [l \in Launches |-> "start"]
    /\ mutex = NoLaunch
    /\ listener = IF PortTaken THEN Foreign ELSE NoLaunch
    /\ backlog = <<>>
    /\ handled = {}

\* Closing the listening socket (StopIPCServer, lines 608-616, or the
\* destruction of m_ipcServer) drops the connections still queued.
CloseServer(l) ==
    IF listener = l THEN listener' = NoLaunch /\ backlog' = <<>>
    ELSE UNCHANGED <<listener, backlog>>

-----------------------------------------------------------------------------
(* The steps of a launch                                                   *)

\* OnInit, lines 190-197: TryLock on the mutex.  Held elsewhere, the launch
\* sends its command line and OnInit returns false.
TryLock(l) ==
    /\ pc[l] = "start"
    /\ IF mutex = NoLaunch
       THEN mutex' = l /\ pc' = [pc EXCEPT ![l] = "listen"]
       ELSE pc' = [pc EXCEPT ![l] = "send"] /\ UNCHANGED mutex
    /\ UNCHANGED <<listener, backlog, handled>>

\* StartIPCServer (lines 587-606), called at line 200: bind and listen on
\* port 14148.  If the port is in use, OnInit returns false.
StartIPCServer(l) ==
    /\ pc[l] = "listen"
    /\ IF listener = NoLaunch
       THEN listener' = l /\ pc' = [pc EXCEPT ![l] = "init"]
       ELSE pc' = [pc EXCEPT ![l] = "destroy"] /\ UNCHANGED listener
    /\ UNCHANGED <<mutex, backlog, handled>>

\* Lines 204-305: ProcessCommandLine (0 for --close and --version, -1 for
\* a bad command line), LoadResourceFiles and the sandbox dialog may make
\* OnInit return false; otherwise the main frame is shown and the event
\* loop starts.
FinishInit(l) ==
    /\ pc[l] = "init"
    /\ \E ok \in InitResults :
         pc' = [pc EXCEPT ![l] = IF ok THEN "running" ELSE "destroy"]
    /\ UNCHANGED <<mutex, listener, backlog, handled>>

\* OnSocketEvent (lines 659-793) on the event loop of the primary: accept
\* the first queued connection, read the command line and open a tab for
\* it with CreateRemoteTab.
OnSocketEvent(l) ==
    /\ pc[l] = "running"
    /\ listener = l
    /\ backlog # <<>>
    /\ handled' = handled \cup {Head(backlog)}
    /\ backlog' = Tail(backlog)
    /\ UNCHANGED <<pc, mutex, listener>>

\* OnExit (lines 308-330): the user quits; StopIPCServer.
OnExit(l) ==
    /\ pc[l] = "running"
    /\ CloseServer(l)
    /\ pc' = [pc EXCEPT ![l] = "release"]
    /\ UNCHANGED <<mutex, handled>>

\* OnInit returned false: OnExit is not called, and the members are
\* destroyed in the reverse order of their declaration (filezillaapp.h
\* lines 73-76): m_ipcServer first.
DestroyServer(l) ==
    /\ pc[l] = "destroy"
    /\ CloseServer(l)
    /\ pc' = [pc EXCEPT ![l] = "release"]
    /\ UNCHANGED <<mutex, handled>>

\* Then m_singleInstanceMutex: the mutex is released.
ReleaseMutex(l) ==
    /\ pc[l] = "release"
    /\ mutex' = NoLaunch
    /\ pc' = [pc EXCEPT ![l] = "exited"]
    /\ UNCHANGED <<listener, backlog, handled>>

\* SendCommandLineToExistingInstance (lines 618-657): connect to port
\* 14148, write the command line and close.  With nobody listening the
\* connection is refused and the function returns false; OnInit returns
\* false either way (line 196).
SendCommandLine(l) ==
    /\ pc[l] = "send"
    /\ backlog' = IF listener \in Launches THEN Append(backlog, l) ELSE backlog
    /\ pc' = [pc EXCEPT ![l] = "handedOver"]
    /\ UNCHANGED <<mutex, listener, handled>>

Next ==
    \E l \in Launches :
        \/ TryLock(l) \/ StartIPCServer(l) \/ FinishInit(l)
        \/ OnSocketEvent(l) \/ OnExit(l) \/ DestroyServer(l)
        \/ ReleaseMutex(l) \/ SendCommandLine(l)

Spec == Init /\ [][Next]_vars

-----------------------------------------------------------------------------
(* Properties                                                              *)

States == {"start", "listen", "init", "running", "destroy", "release",
           "exited", "send", "handedOver"}

TypeOK ==
    /\ pc \in [Launches -> States]
    /\ mutex \in Launches \cup {NoLaunch}
    /\ listener \in Launches \cup {NoLaunch, Foreign}
    /\ backlog \in Seq(Launches)
    /\ handled \subseteq Launches

\* The mutex is held until the instance's listening socket is closed
\* (OnExit stops the IPC server; the destructor closes m_ipcServer before
\* it releases the mutex), so a launch that gets the mutex finds the port
\* free unless another program holds it: StartIPCServer never fails
\* because an earlier instance of the program still listens.
ListenFailsOnlyForeign ==
    [][\A l \in Launches :
         pc[l] = "listen" /\ pc'[l] = "destroy" => listener = Foreign]_vars

\* The comment of line 195: "the existing instance will handle the
\* command".  A launch that handed its command line over finds it acted on
\* by the primary, or still queued for it.
CommandLineHandedOver ==
    \A l \in Launches :
        pc[l] = "handedOver" => l \in handled \cup ToSet(backlog)

=============================================================================
