------------------------------ MODULE FtpMkdir ------------------------------
(***************************************************************************)
(* The FTP directory-creation operation (CFtpMkdirOpData, mkd.cpp) run by  *)
(* several connections against one server.                                *)
(*                                                                         *)
(* Each connection drives one mkdir operation through the operation stack: *)
(* Send is called while it returns CONTINUE, a sent command makes it wait  *)
(* for the reply, and ParseResponse consumes the reply.  The server        *)
(* executes a command when it is sent; its reply is consumed later, so the *)
(* commands of different connections interleave arbitrarily.  The engine's *)
(* directory cache and path locks are shared by the connections.           *)
(***************************************************************************)
EXTENDS ServerPath, FiniteSets

CONSTANTS
    Conns,          \* connections to the server
    InitDirs,       \* directories on the server initially (prefix closed)
    Files,          \* plain files on the server
    NoEnter,        \* directories the user may not enter (CWD fails)
    NoCreate,       \* paths the user may not create (MKD fails)
    Phrases,        \* the phrases IsAlreadyExistsResponse looks for
    SegPhrases,     \* [Segs -> SUBSET Phrases]: phrases a name contains
    ExistsReplies,  \* failure replies a server gives for an existing name
    CacheKnowsFiles \* does the cache initially know every plain file?

ASSUME Root \in InitDirs /\ \A p \in InitDirs : Chain(p) \subseteq InitDirs
ASSUME Files \cap InitDirs = {} /\ \A f \in Files : GetParent(f) \in InitDirs

\* Operation states (mkdStates)
OpStates == {"init", "findparent", "mkdsub", "cwdsub", "tryfull"}

\* Reply of the server: success (code 2 or 3), whether the text is exactly
\* one of the known "already exists" messages, and the phrases it contains.
Replies == [ok : BOOLEAN, exact : BOOLEAN, phrases : SUBSET Phrases]
OkReply == [ok |-> TRUE, exact |-> FALSE, phrases |-> {}]

VARIABLES
    dirs,           \* server: existing directories
    srvCwd,         \* server: working directory of each connection
    currentPath,    \* connection's belief of its working directory
    target,         \* path_
    commonParent,   \* commonParent_
    currentMkdPath, \* currentMkdPath_
    segments,       \* segments_ (back = next segment to create)
    opState,        \* opState
    phase,          \* "send": Send is due, "wait": reply due, "done"
    reply,          \* reply to the command in flight
    opLock,         \* does the operation hold its mkdir path lock?
    result,         \* "none" while running, then "ok", "error", "internal"
    cache,          \* directory cache: [Paths -> {"dir", "file", "none"}]
    notified        \* paths whose listing change was notified

vars == <<dirs, srvCwd, currentPath, target, commonParent, currentMkdPath,
          segments, opState, phase, reply, opLock, result, cache, notified>>

-----------------------------------------------------------------------------
(* Helpers                                                                 *)

PathPhrases(p) == UNION {SegPhrases[p[i]] : i \in DOMAIN p}

\* Failure replies unrelated to existence; a server may echo the path.
FailReplies(p) ==
    {[ok |-> FALSE, exact |-> FALSE, phrases |-> ph] : ph \in {{}, PathPhrases(p)}}

\* Mutant: the path guard dropped, every phrase in the reply counts.
IsAlreadyExistsResponse_NoPathGuard(r, p) ==
    \/ r.exact
    \/ \E ph \in Phrases : ph \in r.phrases

\* mkd.cpp IsAlreadyExistsResponse: an exact known message, or a phrase in
\* the reply that the target path itself does not contain.
IsAlreadyExistsResponse(r, p) ==
    \/ r.exact
    \/ \E ph \in Phrases : ph \in r.phrases /\ ph \notin PathPhrases(p)

\* A path lock conflicts with an active lock on the same path.
LockFree(c) ==
    \A d \in Conns \ {c} : ~(opLock[d] /\ target[d] = target[c])

\* The operation ends with result r and releases its lock.
Finish(c, r) ==
    /\ result' = [result EXCEPT ![c] = r]
    /\ phase' = [phase EXCEPT ![c] = "done"]
    /\ opLock' = [opLock EXCEPT ![c] = FALSE]

Goto(c, s) ==
    /\ opState' = [opState EXCEPT ![c] = s]
    /\ phase' = [phase EXCEPT ![c] = "send"]

\* The server executes CWD p for connection c.
ServerCwd(c, p) ==
    /\ IF p \in dirs \ NoEnter
          THEN /\ srvCwd' = [srvCwd EXCEPT ![c] = p]
               /\ reply' = [reply EXCEPT ![c] = OkReply]
          ELSE /\ \E r \in FailReplies(p) : reply' = [reply EXCEPT ![c] = r]
               /\ UNCHANGED srvCwd
    /\ UNCHANGED dirs

\* The server executes MKD of the absolute path q for connection c.
ServerMkd(c, q) ==
    /\ IF q \in dirs \cup Files
          THEN /\ \E r \in ExistsReplies : reply' = [reply EXCEPT ![c] = r]
               /\ UNCHANGED dirs
       ELSE IF q \notin NoCreate /\ HasParent(q) /\ GetParent(q) \in dirs
          THEN /\ dirs' = dirs \cup {q}
               /\ reply' = [reply EXCEPT ![c] = OkReply]
          ELSE /\ \E r \in FailReplies(q) : reply' = [reply EXCEPT ![c] = r]
               /\ UNCHANGED dirs
    /\ UNCHANGED srvCwd

-----------------------------------------------------------------------------
(* Initial state                                                           *)

CacheInit ==
    {f \in [Paths -> {"dir", "file", "none"}] :
        \A p \in Paths :
            /\ p \in InitDirs => f[p] \in {"dir", "none"}
            /\ p \in Files => f[p] \in IF CacheKnowsFiles THEN {"file"}
                                                          ELSE {"file", "none"}
            /\ p \notin InitDirs \cup Files => f[p] = "none"}

Init ==
    /\ dirs = InitDirs
    /\ srvCwd \in [Conns -> InitDirs]
    /\ currentPath \in {f \in [Conns -> InitDirs \cup {NoPath}] :
                            \A c \in Conns : f[c] \in {srvCwd[c], NoPath}}
    /\ target \in [Conns -> Paths]
    /\ commonParent = [c \in Conns |-> NoPath]
    /\ currentMkdPath = [c \in Conns |-> NoPath]
    /\ segments = [c \in Conns |-> <<>>]
    /\ opState = [c \in Conns |-> "init"]
    /\ phase = [c \in Conns |-> "send"]
    /\ reply = [c \in Conns |-> OkReply]
    /\ opLock = [c \in Conns |-> FALSE]
    /\ result = [c \in Conns |-> "none"]
    /\ cache \in CacheInit
    /\ notified = {}

-----------------------------------------------------------------------------
(* Send (mkd.cpp CFtpMkdirOpData::Send)                                     *)

\* Lock acquisition: Send is not called while the lock is waiting.
SendGuard(c) ==
    /\ phase[c] = "send"
    /\ LockFree(c)

\* mkd_init, current directory is the target or below it: nothing to do.
SendInitInside(c) ==
    /\ SendGuard(c)
    /\ opState[c] = "init"
    /\ currentPath[c] # NoPath
    /\ currentPath[c] = target[c] \/ IsSubdirOf(currentPath[c], target[c])
    /\ Finish(c, "ok")
    /\ UNCHANGED <<dirs, srvCwd, currentPath, target, commonParent,
                   currentMkdPath, segments, opState, reply, cache, notified>>

\* mkd_init otherwise: compute the common parent and the first segment.
SendInitPlan(c) ==
    LET cp == currentPath[c]
        p  == target[c]
    IN
    /\ SendGuard(c)
    /\ opState[c] = "init"
    /\ ~(cp # NoPath /\ (cp = p \/ IsSubdirOf(cp, p)))
    /\ opLock' = [opLock EXCEPT ![c] = TRUE]
    /\ commonParent' =
          [commonParent EXCEPT ![c] =
              IF cp = NoPath THEN @
              ELSE IF IsParentOf(cp, p) THEN cp
              ELSE GetCommonParent(p, cp)]
    /\ IF ~HasParent(p)
          THEN /\ Goto(c, "tryfull")
               /\ UNCHANGED <<currentMkdPath, segments>>
          ELSE /\ currentMkdPath' = [currentMkdPath EXCEPT ![c] = GetParent(p)]
               /\ segments' = [segments EXCEPT ![c] = Append(@, GetLastSegment(p))]
               /\ Goto(c, IF GetParent(p) = cp THEN "mkdsub" ELSE "findparent")
    /\ UNCHANGED <<dirs, srvCwd, currentPath, target, reply, result, cache,
                   notified>>

\* mkd_findparent / mkd_cwdsub: forget the current path, send CWD.
SendCwd(c) ==
    /\ SendGuard(c)
    /\ opState[c] \in {"findparent", "cwdsub"}
    /\ opLock' = [opLock EXCEPT ![c] = TRUE]
    /\ currentPath' = [currentPath EXCEPT ![c] = NoPath]
    /\ ServerCwd(c, currentMkdPath[c])
    /\ phase' = [phase EXCEPT ![c] = "wait"]
    /\ UNCHANGED <<target, commonParent, currentMkdPath, segments, opState,
                   result, cache, notified>>

\* mkd_mkdsub: MKD of the next segment, relative to the working directory.
SendMkdSub(c) ==
    /\ SendGuard(c)
    /\ opState[c] = "mkdsub"
    /\ opLock' = [opLock EXCEPT ![c] = TRUE]
    /\ ServerMkd(c, AddSegment(srvCwd[c], Last(segments[c])))
    /\ phase' = [phase EXCEPT ![c] = "wait"]
    /\ UNCHANGED <<currentPath, target, commonParent, currentMkdPath, segments,
                   opState, result, cache, notified>>

\* mkd_tryfull: MKD of the full target path.
SendTryFull(c) ==
    /\ SendGuard(c)
    /\ opState[c] = "tryfull"
    /\ opLock' = [opLock EXCEPT ![c] = TRUE]
    /\ ServerMkd(c, target[c])
    /\ phase' = [phase EXCEPT ![c] = "wait"]
    /\ UNCHANGED <<currentPath, target, commonParent, currentMkdPath, segments,
                   opState, result, cache, notified>>

-----------------------------------------------------------------------------
(* ParseResponse (mkd.cpp CFtpMkdirOpData::ParseResponse)                   *)

\* Mutant: the walk up records the segment but stays where it is.
ParseFindParent_NoStepUp(c) ==
    LET m == currentMkdPath[c] IN
    /\ phase[c] = "wait"
    /\ opState[c] = "findparent"
    /\ IF reply[c].ok
          THEN /\ currentPath' = [currentPath EXCEPT ![c] = m]
               /\ Goto(c, "mkdsub")
               /\ UNCHANGED <<currentMkdPath, segments>>
       ELSE IF m = commonParent[c] \/ ~HasParent(m)
          THEN /\ Goto(c, "tryfull")
               /\ UNCHANGED <<currentPath, currentMkdPath, segments>>
          ELSE /\ segments' = [segments EXCEPT ![c] = Append(@, GetLastSegment(m))]
               /\ phase' = [phase EXCEPT ![c] = "send"]
               /\ UNCHANGED <<currentPath, currentMkdPath, opState>>
    /\ UNCHANGED <<dirs, srvCwd, target, commonParent, reply, opLock, result,
                   cache, notified>>

\* Mutant: the walk up retries the same CWD.
ParseFindParent_Stuck(c) ==
    LET m == currentMkdPath[c] IN
    /\ phase[c] = "wait"
    /\ opState[c] = "findparent"
    /\ IF reply[c].ok
          THEN /\ currentPath' = [currentPath EXCEPT ![c] = m]
               /\ Goto(c, "mkdsub")
               /\ UNCHANGED <<currentMkdPath, segments>>
       ELSE IF m = commonParent[c] \/ ~HasParent(m)
          THEN /\ Goto(c, "tryfull")
               /\ UNCHANGED <<currentPath, currentMkdPath, segments>>
          ELSE /\ phase' = [phase EXCEPT ![c] = "send"]
               /\ UNCHANGED <<currentPath, currentMkdPath, segments, opState>>
    /\ UNCHANGED <<dirs, srvCwd, target, commonParent, reply, opLock, result,
                   cache, notified>>

ParseFindParent(c) ==
    LET m == currentMkdPath[c] IN
    /\ phase[c] = "wait"
    /\ opState[c] = "findparent"
    /\ IF reply[c].ok
          THEN /\ currentPath' = [currentPath EXCEPT ![c] = m]
               /\ Goto(c, "mkdsub")
               /\ UNCHANGED <<currentMkdPath, segments>>
       ELSE IF m = commonParent[c] \/ ~HasParent(m)
          THEN /\ Goto(c, "tryfull")
               /\ UNCHANGED <<currentPath, currentMkdPath, segments>>
          ELSE /\ segments' = [segments EXCEPT ![c] = Append(@, GetLastSegment(m))]
               /\ currentMkdPath' = [currentMkdPath EXCEPT ![c] = GetParent(m)]
               /\ phase' = [phase EXCEPT ![c] = "send"]
               /\ UNCHANGED <<currentPath, opState>>
    /\ UNCHANGED <<dirs, srvCwd, target, commonParent, reply, opLock, result,
                   cache, notified>>

\* mkd_mkdsub: accept success or a recognised "already exists" reply unless
\* the cache knows the name as a plain file; then record the directory,
\* notify the listing change and move on to the next segment.
ParseMkdSub(c) ==
    LET m   == currentMkdPath[c]
        seg == Last(segments[c])
        new == AddSegment(m, seg)
    IN
    /\ phase[c] = "wait"
    /\ opState[c] = "mkdsub"
    /\ IF segments[c] = <<>>
          THEN /\ Finish(c, "internal")
               /\ UNCHANGED <<currentMkdPath, segments, opState, cache, notified>>
       ELSE IF ~reply[c].ok /\ (~IsAlreadyExistsResponse(reply[c], target[c])
                                \/ cache[new] \in {"file"})
          THEN /\ Finish(c, "error")
               /\ UNCHANGED <<currentMkdPath, segments, opState, cache, notified>>
          ELSE /\ cache' = [cache EXCEPT ![new] = "dir"]
               /\ notified' = notified \cup {m}
               /\ currentMkdPath' = [currentMkdPath EXCEPT ![c] = new]
               /\ segments' = [segments EXCEPT ![c] = Front(@)]
               /\ IF Len(segments[c]) = 1
                     THEN /\ Finish(c, "ok")
                          /\ UNCHANGED opState
                     ELSE /\ Goto(c, "cwdsub")
                          /\ UNCHANGED <<result, opLock>>
    /\ UNCHANGED <<dirs, srvCwd, currentPath, target, commonParent, reply>>

\* Mutant: the current path is set whatever the reply.
ParseCwdSub_AlwaysEnter(c) ==
    /\ phase[c] = "wait"
    /\ opState[c] = "cwdsub"
    /\ currentPath' = [currentPath EXCEPT ![c] = currentMkdPath[c]]
    /\ Goto(c, IF reply[c].ok THEN "mkdsub" ELSE "tryfull")
    /\ UNCHANGED <<dirs, srvCwd, target, commonParent, currentMkdPath, segments,
                   reply, opLock, result, cache, notified>>

ParseCwdSub(c) ==
    /\ phase[c] = "wait"
    /\ opState[c] = "cwdsub"
    /\ IF reply[c].ok
          THEN /\ currentPath' = [currentPath EXCEPT ![c] = currentMkdPath[c]]
               /\ Goto(c, "mkdsub")
          ELSE /\ Goto(c, "tryfull")
               /\ UNCHANGED currentPath
    /\ UNCHANGED <<dirs, srvCwd, target, commonParent, currentMkdPath, segments,
                   reply, opLock, result, cache, notified>>

ParseTryFull(c) ==
    /\ phase[c] = "wait"
    /\ opState[c] = "tryfull"
    /\ Finish(c, IF reply[c].ok THEN "ok" ELSE "error")
    /\ UNCHANGED <<dirs, srvCwd, currentPath, target, commonParent,
                   currentMkdPath, segments, opState, reply, cache, notified>>

-----------------------------------------------------------------------------

Send(c) ==
    \/ SendInitInside(c)
    \/ SendInitPlan(c)
    \/ SendCwd(c)
    \/ SendMkdSub(c)
    \/ SendTryFull(c)

Parse(c) ==
    \/ ParseFindParent(c)
    \/ ParseMkdSub(c)
    \/ ParseCwdSub(c)
    \/ ParseTryFull(c)

\* Every connection has finished its command; the connections stay idle.
Idle ==
    /\ \A c \in Conns : phase[c] = "done"
    /\ UNCHANGED vars

Next ==
    \/ \E c \in Conns : Send(c) \/ Parse(c)
    \/ Idle

\* The event loop calls Send again after CONTINUE and delivers every reply;
\* the server answers every command (a silent server is a timeout, which
\* resets the connection and is outside this module).
Fairness == \A c \in Conns : WF_vars(Send(c)) /\ WF_vars(Parse(c))

Spec == Init /\ [][Next]_vars /\ Fairness

-----------------------------------------------------------------------------
(* Properties                                                              *)

TypeOK ==
    /\ dirs \subseteq Paths
    /\ srvCwd \in [Conns -> Paths]
    /\ currentPath \in [Conns -> Paths \cup {NoPath}]
    /\ target \in [Conns -> Paths]
    /\ commonParent \in [Conns -> Paths \cup {NoPath}]
    /\ currentMkdPath \in [Conns -> Paths \cup {NoPath}]
    /\ segments \in [Conns -> BoundedSeq(Segs, MaxDepth)]
    /\ opState \in [Conns -> OpStates]
    /\ phase \in [Conns -> {"send", "wait", "done"}]
    /\ reply \in [Conns -> Replies]
    /\ opLock \in [Conns -> BOOLEAN]
    /\ result \in [Conns -> {"none", "ok", "error", "internal"}]
    /\ cache \in [Paths -> {"dir", "file", "none"}]
    /\ notified \subseteq Paths

\* The connection's idea of its working directory is never wrong: it is
\* either unknown or the directory the server really has it in.  Send
\* clears it before every CWD and ParseResponse sets it only on a success
\* reply, while other connections create directories in between.
CwdBeliefSound ==
    \A c \in Conns : currentPath[c] \in {NoPath, srvCwd[c]}

\* A reported success means the target exists on the server as a
\* directory (mkd.cpp accepts "already exists" replies as success).
OkMeansDirectory ==
    \A c \in Conns : result[c] = "ok" => target[c] \in dirs

\* The operation implements MkdirAbstract: every directory it makes the
\* server create lies on the chain to its own target, inside an existing
\* parent, and it reports success only when its target is a directory.
Abstract == INSTANCE MkdirAbstract WITH
    result <- [c \in Conns |-> IF result[c] = "internal" THEN "error"
                                                         ELSE result[c]]

RefinesAbstract == Abstract!ASpec

\* Every mkdir operation eventually ends: the walk up towards the root and
\* the creation of segments are bounded, and a waiting path lock is
\* released when its holder ends.
Termination == \A c \in Conns : <>(result[c] # "none")

=============================================================================
