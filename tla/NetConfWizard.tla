---------------------------- MODULE NetConfWizard ----------------------------
(***************************************************************************)
(* The connection test of the network configuration wizard               *)
(* (CNetConfWizard, src/src/interface/netconfwizard.cpp) against the probe *)
(* server, composed with the external IP resolver it uses and with a     *)
(* second resolver instance of the engine that shares the resolver's      *)
(* process-wide cache.                                                     *)
(*                                                                         *)
(* The test runs on the GUI thread.  Socket events reach it through        *)
(* CallAfter and the resolver's answer through QueueEvent, so every event  *)
(* goes through one FIFO queue, gui, in the order the other threads post   *)
(* them; the 15 s timer fires on the GUI thread itself.  Each handler runs *)
(* to completion and is one step.                                          *)
(*                                                                         *)
(* The wizard and its sockets are the record w; a handler is a function    *)
(* from w to w, given the outcomes of the calls it makes to the network    *)
(* (a record c of choices).  The probe server's state is part of w too:    *)
(* owed is the command it has received and not yet finally answered.       *)
(***************************************************************************)
EXTENDS Integers, Sequences

CONSTANTS
    Resolvers, Families, HopCounts, SpecHops, MaxCalls, Ends,
    Wiz,        \* the wizard's resolver instance, a member of Resolvers
    MaxTests,   \* test runs per wizard (Restart starts another)
    MaxStalls,  \* EAGAIN answers to the wizard's writes per test
    MaxQueue,   \* bound on the GUI event queue
    TrustServer \* the server sends its welcome, and a final reply after a
                \* preliminary one: the two waits no timer guards

ASSUME Wiz \in Resolvers /\ MaxTests \in Nat /\ MaxStalls \in Nat /\ MaxQueue \in Nat

VARIABLES
    ipc, checked, srr, fam, redirects, nextId, out, hopsDone, plan, evq,
    notify, outcome,
    cst, got, calls, forcedErr,     \* the engine's callers of its resolvers
    w,          \* the wizard, its sockets and the probe server
    gui         \* events queued for the GUI thread

R == INSTANCE ExternalIPResolver

resolverVars == <<ipc, checked, srr, fam, redirects, nextId, out, hopsDone,
                  plan, evq, notify, outcome>>
callerVars == <<cst, got, calls, forcedErr>>
vars == <<resolverVars, callerVars, w, gui>>

Results == {"unknown", "successful", "servererror", "tainted", "mismatch",
            "mismatchandtainted", "externalfailed", "datatainted"}

\* Replies of the probe server, by what the wizard's parser tells apart:
\* "bad" is a malformed line (lone LF, empty line, no space after the code),
\* "2xxbad" a PREP reply whose last word is not a number.
Lines == {"1xx", "2xx", "2xxbad", "501", "510", "511", "5xx", "bad"}

\* The replies the server may give to command n (0 is the welcome).
RepliesFor(x) ==
    CASE x.owed = 0 -> {"2xx", "5xx", "bad"}
      [] x.owed = 3 -> {"2xx", "501", "510", "511", "5xx"}
      [] x.owed = 4 -> {"2xx", "2xxbad", "5xx"}
      [] x.owed = 5 -> {"2xx", "501", "5xx"}
      [] x.owed = 6 -> (IF x.prelim THEN {} ELSE {"1xx"}) \cup {"5xx"}
                       \cup (IF x.dconn THEN {"2xx"} ELSE {})
      [] x.owed = 7 -> {"2xx"}
      [] OTHER      -> {"2xx", "5xx"}

\* What the probe server sends over the data connection: the number from
\* the PREP reply and the address it saw, intact, altered, or cut short.
Payloads == {"ok", "tainted", "short"}

\* Outcomes of the network calls a handler makes.
Choices == [wr : {"all", "eagain", "error"},   \* socket write
            lis : BOOLEAN,                     \* CreateListenSocket
            os : {"", "v4", "v6"},             \* the socket's local address
            k : R!Conts,                       \* GetExternalIP's continuation
            rd : {"payload", "eof", "rerr"}]   \* data socket read

-----------------------------------------------------------------------------
(* The wizard's helpers                                                    *)

\* CloseSocket (lines 721-830): nothing without a control socket; else the
\* summary is shown, an active-mode failure makes passive the default,
\* and every socket, the send buffer and the timer go.
CloseSocket(x) ==
    IF x.sock = "none" THEN x
    ELSE [x EXCEPT !.sock = "none", !.sendBuf = FALSE, !.listen = FALSE,
                   !.data = FALSE, !.timer = FALSE,
                   !.useActive = IF x.conn /\ x.result \in {"tainted",
                                      "mismatchandtainted", "mismatch"}
                                 THEN FALSE ELSE @]

Fail(x, r) == CloseSocket([x EXCEPT !.result = r])

\* OnSend (lines 479-499): writes what is buffered; the server has the
\* command once it is all written.
OnSend(x, c) ==
    IF ~x.sendBuf \/ x.sock = "none" THEN x
    ELSE CASE c.wr = "all"    -> [x EXCEPT !.sendBuf = FALSE, !.owed = x.st]
           [] c.wr = "eagain" -> [x EXCEPT !.writeWait = TRUE, !.stalls = @ + 1]
           [] OTHER           -> CloseSocket(x)

\* Mutant: a Send that does not arm the timer.
Send_NoTimer(x, c) ==
    IF x.sock = "none" THEN x
    ELSE OnSend([x EXCEPT !.sendBuf = TRUE,
                          !.overlap = @ \/ x.owed # -1 \/ x.sendBuf], c)

\* Send (lines 832-849): buffers the command, arms the timer and writes.
\* overlap records a command sent while the server still owed an answer.
Send(x, c) ==
    IF x.sock = "none" THEN x
    ELSE OnSend([x EXCEPT !.sendBuf = TRUE, !.timer = TRUE,
                          !.overlap = @ \/ x.owed # -1 \/ x.sendBuf], c)

\* GetExternalIPAddress (lines 851-892) followed by the rest of
\* SendNextCommand for state 3 (lines 921-950).  started records that
\* GetExternalIP was called, which the step then performs on the resolver.
SendIP(x, c) ==
    LET start == x.mode = "resolved" /\ ~x.resolver
        wait  == start /\ c.k = "wait"
        ip    == CASE x.mode = "os"       -> c.os
                   [] x.mode = "provided" -> "v4"
                   [] OTHER               -> R!GetIP
        y     == [x EXCEPT !.started = start,
                           !.noSock = @ \/ x.sock = "none",
                           !.resolver = IF x.mode = "resolved" THEN wait ELSE @]
    IN CASE wait      -> y
         [] ip = ""   -> IF x.mode = "resolved" THEN Fail(y, "externalfailed")
                                                ELSE CloseSocket(y)
         [] ip = "v6" -> CloseSocket(y)
         [] OTHER     -> Send([y EXCEPT !.extIP = ip], c)

\* Mutant: SendNextCommand without its final state, so QUIT's reply
\* sends again.
SendNextCommand_NoEnd(x, c) ==
    CASE x.st = 3 -> SendIP(x, c)
      [] x.st = 4 -> IF x.listen \/ ~c.lis THEN CloseSocket(x)
                     ELSE Send([x EXCEPT !.listen = TRUE], c)
      [] x.st = 7 -> Send([x EXCEPT !.result = "successful"], c)
      [] OTHER    -> Send(x, c)

\* SendNextCommand (lines 907-982) for the state w is in.
SendNextCommand(x, c) ==
    CASE x.st = 3 -> SendIP(x, c)
      [] x.st = 4 -> IF x.listen \/ ~c.lis THEN CloseSocket(x)
                     ELSE Send([x EXCEPT !.listen = TRUE], c)
      [] x.st = 7 -> Send([x EXCEPT !.result = "successful"], c)
      [] x.st = 8 -> CloseSocket(x)
      [] OTHER    -> Send(x, c)

Advance(x, c) == SendNextCommand([x EXCEPT !.st = @ + 1], c)

\* ParseResponse (lines 582-714): the timer stops; a preliminary reply is
\* skipped; a final one is checked against the command of the state, and
\* an accepted one advances the state and sends the next command.  In
\* state 6 the LIST reply waits for an open data connection.
ParseResponse(x0, line, c) ==
    LET x == [x0 EXCEPT !.timer = FALSE] IN
    IF line = "1xx" THEN x
    ELSE CASE x.st = 3 -> CASE line = "2xx" -> Advance(x, c)
                            [] line = "501" -> Fail(x, "tainted")
                            [] line = "510" -> Fail(x, "mismatch")
                            [] line = "511" -> Fail(x, "mismatchandtainted")
                            [] OTHER        -> Fail(x, "servererror")
           [] x.st = 5 -> CASE line = "2xx" -> Advance(x, c)
                            [] line = "501" -> Fail(x, "tainted")
                            [] OTHER        -> Fail(x, "servererror")
           [] x.st = 6 -> CASE line # "2xx" -> Fail(x, "servererror")
                            [] x.data       ->
                                 LET y == IF x.gotList THEN Fail(x, "servererror")
                                                       ELSE x
                                 IN [y EXCEPT !.gotList = TRUE]
                            [] OTHER        -> Advance(x, c)
           [] OTHER    -> IF line = "2xx" THEN Advance(x, c)
                          ELSE Fail(x, "servererror")

\* OnReceive (lines 512-580) for one line, or for a read that finds the
\* connection closed ("eof") or broken ("rerr").
OnReceive(x, line, c) ==
    CASE line \in {"eof", "rerr"} -> CloseSocket(x)
      [] line = "bad"             -> Fail(x, "servererror")
      [] OTHER                    -> ParseResponse(x, line, c)

\* OnAccept (lines 1097-1133): one data connection, from the control
\* connection's peer; the listen socket goes once it is accepted.
OnAccept(x, peer) ==
    CASE x.sock = "none" \/ ~x.listen \/ x.data -> x
      [] peer = "nopeer" -> CloseSocket(x)
      [] peer = "wrong"  -> x
      [] OTHER           -> [x EXCEPT !.data = TRUE, !.listen = FALSE]

\* Mutant: OnDataReceive moves on without waiting for the LIST reply.
OnDataReceive_NoListCheck(x, rd, c) ==
    CASE rd \in {"eof", "rerr"}      -> CloseSocket(x)
      [] x.payload = "tainted"     -> Fail(x, "datatainted")
      [] x.payload = "short"       -> CloseSocket(x)
      [] OTHER -> Advance([x EXCEPT !.data = FALSE, !.verified = TRUE], c)

\* OnDataReceive (lines 1135-1202): the data must carry the number of the
\* PREP reply and the external address; then the data socket goes and, if
\* the LIST reply came already, the test moves on.
OnDataReceive(x, rd, c) ==
    CASE rd = "eof"                -> CloseSocket(x)
      [] rd = "rerr"               -> CloseSocket(x)
      [] x.payload = "tainted"     -> Fail(x, "datatainted")
      [] x.payload = "short"       -> CloseSocket(x)
      [] OTHER                     ->
           LET y == [x EXCEPT !.data = FALSE, !.verified = TRUE]
           IN IF y.gotList THEN Advance(y, c) ELSE y

\* OnDataClose (lines 1204-1218): reads what is left, then closes the test
\* if the data socket is still there, or moves on after the LIST reply.
OnDataClose(x, c) ==
    LET y == OnDataReceive(x, c.rd, c) IN
    CASE y.data    -> CloseSocket(y)
      [] y.gotList -> Advance(y, c)
      [] OTHER     -> y

\* OnExternalIPAddress2 (lines 894-905).
OnExternalIPAddress2(x, c) ==
    IF ~x.resolver \/ x.st # 3 THEN x ELSE SendNextCommand(x, c)

\* DoOnSocketEvent (lines 425-476) for an event e of the current sockets;
\* the event of a socket that is gone matches none of them.
OnEvent(x, e, c) ==
    CASE e.src = "ctl" /\ e.gen = x.gen /\ x.sock # "none" ->
           CASE e.ev = "error" -> CloseSocket(x)
             [] e.ev = "read"  -> OnReceive(x, e.arg, c)
             [] e.ev = "write" -> OnSend(x, c)
             [] OTHER          -> OnSend([x EXCEPT !.conn = TRUE], c)
      [] e.src = "listen" /\ e.gen = x.gen /\ x.listen -> OnAccept(x, e.arg)
      [] e.src = "data" /\ e.gen = x.gen /\ x.data ->
           IF e.ev = "error" THEN OnDataClose(x, c) ELSE OnDataReceive(x, "payload", c)
      [] e.src = "res" -> OnExternalIPAddress2(x, c)
      [] OTHER -> x

-----------------------------------------------------------------------------
(* Initial state and the user's steps                                      *)

\* ResetTest (lines 990-1007).
ResetTest(x) ==
    [x EXCEPT !.timer = FALSE, !.st = 0, !.conn = FALSE, !.didRun = FALSE,
              !.result = "unknown", !.gotList = FALSE]

\* The constructor and Load: the test is reset, the options loaded.
Init ==
    /\ R!ResolverInit
    /\ cst = [r \in Resolvers |-> "idle"]
    /\ got = [r \in Resolvers |-> ""]
    /\ calls = [r \in Resolvers |-> IF r = Wiz THEN MaxCalls ELSE 0]
    /\ forcedErr = [r \in Resolvers |-> FALSE]
    /\ gui = <<>>
    /\ \E useActive \in BOOLEAN :
         w = [page |-> "config", mode |-> "os", uriOk |-> TRUE,
              useActive |-> useActive, st |-> 0, sock |-> "none", gen |-> 0,
              conn |-> FALSE, result |-> "unknown", didRun |-> FALSE,
              sendBuf |-> FALSE, timer |-> FALSE, resolver |-> FALSE,
              extIP |-> "", listen |-> FALSE, data |-> FALSE,
              gotList |-> FALSE, owed |-> -1, prelim |-> FALSE,
              dconn |-> FALSE, payload |-> "ok", writeWait |-> FALSE,
              stalls |-> 0, started |-> FALSE, verified |-> FALSE,
              overlap |-> FALSE, noSock |-> FALSE, saved |-> FALSE,
              peerGone |-> FALSE, stray |-> FALSE, dataSent |-> FALSE]

\* The pages before the test (OnPageChanging, lines 324-368): the user
\* chooses how the external address is found; an empty or, for a given
\* address, non-IPv4 entry is vetoed, so only valid choices reach the test
\* page.  A resolver URL may still fail to parse.
Configure ==
    /\ w.page = "config"
    /\ \E mode \in {"os", "provided", "resolved"}, uriOk \in BOOLEAN :
          /\ uriOk \/ mode = "resolved"
          /\ w' = [w EXCEPT !.page = "test", !.mode = mode, !.uriOk = uriOk]
    /\ UNCHANGED <<resolverVars, callerVars, gui>>

\* Back from the test page before the test ran.
Back ==
    /\ w.page = "test" /\ ~w.didRun
    /\ w' = [w EXCEPT !.page = "config"]
    /\ UNCHANGED <<resolverVars, callerVars, gui>>

\* Test (OnPageChanging on the test page, lines 369-401): a new control
\* socket connects to the probe server; an immediate failure closes it.
StartTest ==
    /\ w.page = "test" /\ ~w.didRun /\ w.gen < MaxTests
    /\ \E ok \in BOOLEAN :
         LET x == [w EXCEPT !.didRun = TRUE, !.sock = "connecting",
                            !.gen = @ + 1, !.owed = -1, !.prelim = FALSE,
                            !.dconn = FALSE, !.stalls = 0, !.verified = FALSE,
                            !.writeWait = FALSE, !.peerGone = FALSE,
                            !.stray = FALSE, !.dataSent = FALSE]
         IN w' = IF ok THEN x ELSE CloseSocket(x)
    /\ UNCHANGED <<resolverVars, callerVars, gui>>

\* Next, enabled again by CloseSocket, leads to the summary page.
ToSummary ==
    /\ w.page = "test" /\ w.didRun /\ w.sock = "none"
    /\ w' = [w EXCEPT !.page = "summary"]
    /\ UNCHANGED <<resolverVars, callerVars, gui>>

\* Restart Wizard (OnRestart, lines 984-988).
Restart ==
    /\ w.page = "summary"
    /\ w' = [ResetTest(w) EXCEPT !.page = "config"]
    /\ UNCHANGED <<resolverVars, callerVars, gui>>

\* Finish (OnFinish, lines 1009-1038): after a failed test the user is
\* asked whether to save.  Then the wizard is destroyed: the destructor
\* deletes the resolver, which abandons its request.
Finish ==
    /\ w.page = "summary"
    /\ \E confirm \in BOOLEAN :
          w' = [w EXCEPT !.page = "closed",
                         !.saved = w.result = "successful" \/ confirm]
    /\ R!DestroyResolver(Wiz)
    /\ UNCHANGED <<callerVars>> /\ gui' = <<>>

\* Cancel at any time: the destructor (lines 73-82) closes the sockets and
\* deletes the resolver; queued events of the window go with it.
Cancel ==
    /\ w.page # "closed"
    /\ w' = [w EXCEPT !.page = "closed", !.sock = "none", !.listen = FALSE,
                       !.data = FALSE, !.timer = FALSE, !.resolver = FALSE]
    /\ R!DestroyResolver(Wiz)
    /\ UNCHANGED <<callerVars>> /\ gui' = <<>>

-----------------------------------------------------------------------------
(* The GUI thread                                                          *)

\* The GUI thread takes the next queued event and runs its handler; a
\* handler that calls GetExternalIP performs it on the wizard's resolver.
Dispatch ==
    /\ gui # <<>> /\ w.page # "closed"
    /\ \E c \in Choices :
         /\ c.wr = "eagain" => w.stalls < MaxStalls
         \* outcomes of calls this event cannot make are fixed
         /\ w.mode = "os" \/ c.os = "v4"
         /\ w.st = 3 \/ c.lis
         /\ Head(gui).src = "data" \/ c.rd = "payload"
         /\ LET x == OnEvent([w EXCEPT !.started = FALSE], Head(gui), c) IN
              /\ w' = [x EXCEPT !.started = FALSE]
              /\ IF x.started
                    THEN R!GetExternalIP(Wiz, "v4", TRUE, w.uriOk, c.k)
                    ELSE c.k = "wait" /\ UNCHANGED resolverVars
    /\ gui' = Tail(gui)
    /\ UNCHANGED callerVars

\* The timer (OnTimer, lines 1220-1228): "Connection timed out".
TimerFire ==
    /\ w.timer /\ w.page # "closed"
    /\ w' = CloseSocket(w)
    /\ UNCHANGED <<resolverVars, callerVars, gui>>

-----------------------------------------------------------------------------
(* The network and the probe server.  An event carries the test it        *)
(* belongs to (gen), standing for the socket object it names.             *)

Post(e) == /\ Len(gui) < MaxQueue /\ gui' = Append(gui, e)

Ev(src, ev, arg) == [src |-> src, gen |-> w.gen, ev |-> ev, arg |-> arg]

Live == w.page # "closed" /\ w.sock # "none"

\* The connect completes or fails; the server then owes its welcome.
ConnectResult ==
    /\ Live /\ w.sock = "connecting"
    /\ \E ok \in BOOLEAN :
         /\ Post(Ev("ctl", IF ok THEN "conn" ELSE "error", "none"))
         /\ w' = [w EXCEPT !.sock = "open", !.owed = IF ok THEN 0 ELSE -1]
    /\ UNCHANGED <<resolverVars, callerVars>>

\* The server answers the command it owes with one line.
ServerReply ==
    /\ Live /\ w.sock = "open" /\ w.owed # -1 /\ ~w.peerGone
    /\ \E line \in RepliesFor(w) :
         /\ Post(Ev("ctl", "read", line))
         /\ w' = [w EXCEPT !.owed = IF line = "1xx" THEN @ ELSE -1,
                            !.prelim = @ \/ line = "1xx"]
    /\ UNCHANGED <<resolverVars, callerVars>>

\* The server or a router ends the control connection.
ServerClose ==
    /\ Live /\ w.sock = "open" /\ ~w.peerGone
    /\ \E how \in {"eof", "rerr"} :
         Post(IF how = "eof" THEN Ev("ctl", "read", "eof") ELSE Ev("ctl", "error", "none"))
    /\ w' = [w EXCEPT !.peerGone = TRUE]
    /\ UNCHANGED <<resolverVars, callerVars>>

\* The socket can take more after a write answered EAGAIN.
Writable ==
    /\ Live /\ w.writeWait
    /\ Post(Ev("ctl", "write", "none"))
    /\ w' = [w EXCEPT !.writeWait = FALSE]
    /\ UNCHANGED <<resolverVars, callerVars>>

\* After LIST the server connects to the port of the PORT command and
\* sends its data; before that a stray connection may come from elsewhere.
DataConnect ==
    /\ Live /\ w.listen /\ w.owed = 6 /\ ~w.dconn /\ ~w.peerGone
    /\ \E peer \in {"ok", "nopeer"}, pl \in Payloads :
         /\ Post(Ev("listen", "accept", peer))
         /\ w' = [w EXCEPT !.dconn = TRUE, !.payload = pl]
    /\ UNCHANGED <<resolverVars, callerVars>>

StrayConnect ==
    /\ Live /\ w.listen /\ ~w.stray
    /\ Post(Ev("listen", "accept", "wrong"))
    /\ w' = [w EXCEPT !.stray = TRUE]
    /\ UNCHANGED <<resolverVars, callerVars>>

\* The accepted data connection delivers the data, or breaks.
DataSend ==
    /\ Live /\ w.data /\ w.dconn /\ ~w.dataSent
    /\ \E ev \in {"read", "error"} : Post(Ev("data", ev, "none"))
    /\ w' = [w EXCEPT !.dataSent = TRUE]
    /\ UNCHANGED <<resolverVars, callerVars>>

\* The resolver's CExternalIPResolveEvent reaches the wizard's handler
\* (OnExternalIPAddress, lines 1237-1240), which queues it for the GUI.
ResolverEvent ==
    /\ notify[Wiz] /\ w.page # "closed"
    /\ Post([src |-> "res", gen |-> w.gen, ev |-> "resolved", arg |-> "none"])
    /\ notify' = [notify EXCEPT ![Wiz] = FALSE]
    /\ UNCHANGED <<ipc, checked, srr, fam, redirects, nextId, out, hopsDone,
                   plan, evq, outcome, callerVars, w>>

\* The resolvers and their HTTP clients, and the engine's callers.
Resolving ==
    \/ \E r \in Resolvers : R!ResolverStep(r) /\ UNCHANGED <<callerVars, w, gui>>
    \/ \E r \in Resolvers \ {Wiz} : (R!Call(r) \/ R!OnResolved(r)) /\ UNCHANGED <<w, gui>>

Done == w.page = "closed" /\ UNCHANGED vars

Next ==
    \/ Configure \/ Back \/ StartTest \/ ToSummary \/ Restart \/ Finish \/ Cancel
    \/ Dispatch \/ TimerFire
    \/ ConnectResult \/ ServerReply \/ ServerClose \/ Writable
    \/ DataConnect \/ StrayConnect \/ DataSend
    \/ ResolverEvent \/ Resolving
    \/ Done

\* The GUI thread dispatches every event and the timer fires when due; a
\* connect completes, a blocked socket becomes writable and an accepted
\* data connection delivers or breaks (TCP); the resolvers' clients and
\* servers answer (the HTTP client has its own timeouts); a server that
\* may be trusted (TrustServer) to send its welcome and, after a
\* preliminary reply, the final one: Send arms the timer (line 845) only
\* for commands, and ParseResponse stops it on any reply (lines 584-586).
\* The server need not answer otherwise, and the user need not act.
Fairness ==
    /\ WF_vars(Dispatch) /\ WF_vars(TimerFire) /\ WF_vars(ConnectResult)
    /\ WF_vars(Writable) /\ WF_vars(DataSend) /\ WF_vars(ResolverEvent)
    /\ WF_vars(TrustServer /\ (w.owed = 0 \/ w.prelim) /\ ServerReply)
    /\ \A r \in Resolvers : WF_vars(R!ResolverStep(r) /\ UNCHANGED <<callerVars, w, gui>>)
    /\ \A r \in Resolvers \ {Wiz} : WF_vars(R!OnResolved(r) /\ UNCHANGED <<w, gui>>)

Spec == Init /\ [][Next]_vars /\ Fairness

-----------------------------------------------------------------------------
(* Properties                                                              *)

TypeOK ==
    /\ w.page \in {"config", "test", "summary", "closed"}
    /\ w.mode \in {"os", "provided", "resolved"}
    /\ w.st \in 0..8
    /\ w.sock \in {"none", "connecting", "open"}
    /\ w.gen \in 0..MaxTests
    /\ w.result \in Results
    /\ w.extIP \in {"", "v4", "v6"}
    /\ w.owed \in -1..7
    /\ w.payload \in Payloads
    /\ w.stalls \in 0..MaxStalls
    /\ \A f \in {"uriOk", "useActive", "conn", "didRun", "sendBuf", "timer",
                  "resolver", "listen", "data", "gotList", "prelim", "dconn",
                  "writeWait", "started", "verified", "overlap", "noSock",
                  "saved", "peerGone", "stray", "dataSent"} : w[f] \in BOOLEAN
    /\ Len(gui) <= MaxQueue

\* The wizard sends a command only after the server has answered the
\* previous one (the wxASSERT(!sendBuffer_) of Send and the one-reply
\* state machine of ParseResponse): no path through the LIST reply, the
\* data connection and the resolver's answer advances the state twice.
OneCommandOutstanding == ~w.overlap

\* A started test ends: its control socket is closed, whatever the server
\* leaves unanswered (the 15 s timer of Send) and in whatever order the
\* data connection and the LIST reply arrive.
TestEnds == [](w.sock # "none" => <>(w.sock = "none"))

\* The test is reported successful only when the data connection brought
\* the expected number and address (OnDataReceive, lines 1135-1202).
SuccessMeansDataVerified == w.result = "successful" => w.verified

\* GetExternalIPAddress runs only while the control socket exists
\* (wxASSERT(socket_), line 855).
ResolverAnswerNeedsSocket == ~w.noSock

=============================================================================
