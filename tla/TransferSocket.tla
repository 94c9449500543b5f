--------------------------- MODULE TransferSocket ---------------------------
(***************************************************************************)
(* The FTP data connection (CTransferSocket, transfersocket.cpp): one      *)
(* transfer attempt from its set-up to its end, in one of the four modes   *)
(* (directory listing, download, upload, resume test), established         *)
(* actively (listen and accept) or passively (connect, with the retry on   *)
(* "address in use"), with or without a TLS layer.                         *)
(*                                                                         *)
(* CTransferSocket is an event handler: socket events, buffer-availability *)
(* events from the reader, writer and buffer pool, and calls from the      *)
(* control socket (SetActive, the user's answer, destruction) each run to  *)
(* completion on the event loop.  A handler's nested calls (OnConnect ->   *)
(* TriggerPostponedEvents -> OnReceive ...) are queued in `calls' and      *)
(* executed one per step; no other handler runs until the queue is empty,  *)
(* while the peer, the socket thread, the disk threads and the user act    *)
(* at any time.                                                            *)
(***************************************************************************)
EXTENDS Integers, Sequences, FiniteSets

CONSTANTS
    Modes,          \* transfer modes to explore: "list", "download", ...
    Establish,      \* "active" and/or "passive"
    TlsSet,         \* is the data channel protected (m_protectDataChannel)?
    CoopSet,        \* does the control connection use ALPN x-filezilla-ftp?
    CapInit,        \* initial tls_resumption capability of the server
    NChunks,        \* data the peer sends / the reader holds, in chunks
    BufCap,         \* capacity of a pooled buffer, in chunks
    MaxStalls       \* "wait" and EAGAIN answers of the environment in a run

ASSUME NChunks \in Nat /\ BufCap \in Nat \ {0} /\ MaxStalls \in Nat

EndReasons == {"none", "successful", "transfer_failure",
               "transfer_failure_critical", "failed_resumetest",
               "failed_tls_resumption", "wrong_tls_alpn"}
SockStates == {"none", "listening", "connecting", "handshaking", "connected"}
SockEvts == {"accept", "conn", "read", "write"}
Waitables == {"reader", "writer", "pool"}
AioResults == {"ok", "wait", "error"}
Calls == {"OnConnect", "Trigger", "TrigAfterRecv", "OnReceive", "OnSend",
          "Reset"}

VARIABLES
    \* configuration of the attempt
    mode, est, tls, coop,
    \* socket and layers
    sock,           \* socketServer_ / socket_ and their state
    layers,         \* active_layer_ # nullptr
    attempts,       \* passive_mode_data_->attempts_
    connects,       \* connection attempts started (history)
    \* event handling
    calls,          \* nested calls of the running handler
    evts,           \* pending socket events
    connOut,        \* outcome carried by the pending connection event
    aio,            \* pending buffer-availability events
    waits,          \* waitables this socket waits on
    block,          \* activity_block_
    pRecv, pSend,   \* m_postponedReceive, m_postponedSend
    \* end of the transfer
    endReason,      \* m_transferEndReason
    endEvent,       \* TransferEndEvent sent to the control socket
    activeCalled,   \* SetActive was called by the control socket
    alive,          \* the object exists
    crashed,        \* a member function dereferenced a null active_layer_
    \* TLS session resumption
    cap,            \* CServerCapabilities tls_resumption
    capAtConnect,   \* cap when OnConnect ran (history)
    resumed, alpnOk,\* outcome of the data connection's handshake
    asked,          \* FtpTlsNoResumptionNotification awaiting an answer
    approved,       \* the user allowed the unresumed connection (history)
    notifiedRes,    \* FtpTlsResumptionNotification sent
    \* the peer and the socket
    avail,          \* chunks received and not yet read
    sent,           \* chunks the peer sent
    eof, rerr,      \* peer closed / connection reset
    readWait,       \* a read returned EAGAIN: socket will signal read
    writeWait,      \* a write or shutdown returned EAGAIN
    \* buffers and the data's destination or source
    buf,            \* buffer_: -1 no lease, else chunks in it
    got,            \* chunks given to the writer / parser, bytes of resume test
    rdLeft,         \* chunks the reader has not yet handed out
    peerGot,        \* chunks written to the peer
    stalls          \* "wait" and EAGAIN answers given so far

conf == <<mode, est, tls, coop>>
lifeVars == <<sock, layers, attempts, connects, endReason, endEvent,
              activeCalled, alive, crashed>>
ctlVars == <<calls, evts, connOut, aio, waits, block, pRecv, pSend>>
tlsVars == <<cap, capAtConnect, resumed, alpnOk, asked, approved, notifiedRes>>
netVars == <<avail, sent, eof, rerr, readWait, writeWait>>
ioVars == <<buf, got, rdLeft, peerGot, stalls>>
vars == <<conf, lifeVars, ctlVars, tlsVars, netVars, ioVars>>

Min(x, y) == IF x < y THEN x ELSE y

(***************************************************************************)
(* Helpers shared by the handlers.                                         *)
(***************************************************************************)

\* ResetSocket(): the listener, the layers and the socket are destroyed
\* (their pending events and readiness waits with them) and the buffer
\* lease is returned to the pool.
ResetSocketVars ==
    /\ evts' = {}
    /\ sock' = "none"
    /\ layers' = FALSE
    /\ buf' = -1
    /\ readWait' = FALSE
    /\ writeWait' = FALSE

\* TransferEnd(reason) as called from a handler whose remaining calls are
\* `rest': the first reason wins; a failure resets the socket (a queued
\* "Reset" call run before anything else), success shuts down the write
\* side; the control socket is sent a TransferEndEvent.
TransferEnd(r, rest) ==
    IF endReason = "none"
    THEN /\ endReason' = r
         /\ endEvent' = TRUE
         /\ calls' = IF r # "successful" THEN <<"Reset">> \o rest ELSE rest
    ELSE /\ calls' = rest
         /\ UNCHANGED <<endReason, endEvent>>

\* A handler returned true: the same socket event is sent again.
Post(e, doIt) == evts' = IF doIt THEN evts \cup {e} ELSE evts

\* The read the code performs on active_layer_: data, an error, the end of
\* the stream (0) or EAGAIN.
ReadResult ==
    IF avail > 0 THEN "data"
    ELSE IF rerr THEN "error"
    ELSE IF eof THEN "eof"
    ELSE "eagain"

(***************************************************************************)
(* The attempt after SetupActiveTransfer or SetupPassiveTransfer returned  *)
(* success to the raw-transfer operation (a failure there is returned to   *)
(* that operation synchronously and never reaches the handlers).           *)
(***************************************************************************)
Init ==
    /\ mode \in Modes
    /\ est \in Establish
    /\ tls \in TlsSet
    /\ coop \in (IF tls THEN CoopSet ELSE {FALSE})
    /\ sock = IF est = "active" THEN "listening" ELSE "connecting"
    /\ layers = (est = "passive")
    /\ attempts = 0
    /\ connects = IF est = "passive" THEN 1 ELSE 0
    /\ calls = <<>>
    /\ evts = {}
    /\ connOut = "ok"
    /\ aio = {}
    /\ waits = {}
    /\ block = 1
    /\ pRecv = FALSE /\ pSend = FALSE
    /\ endReason = "none"
    /\ endEvent = FALSE
    /\ activeCalled = FALSE
    /\ alive = TRUE
    /\ crashed = FALSE
    /\ cap \in CapInit
    /\ capAtConnect = "n/a"
    /\ resumed = FALSE /\ alpnOk = FALSE
    /\ asked = FALSE /\ approved = FALSE /\ notifiedRes = FALSE
    /\ avail = 0 /\ sent = 0 /\ eof = FALSE /\ rerr = FALSE
    /\ readWait = FALSE /\ writeWait = FALSE
    /\ buf = -1
    /\ got = 0
    /\ rdLeft = IF mode = "upload" THEN NChunks ELSE 0
    /\ peerGot = 0
    /\ stalls = 0

(***************************************************************************)
(* The environment: the peer, the socket thread, the disk threads and the  *)
(* buffer pool.                                                            *)
(***************************************************************************)

\* A peer connects to the listening socket, which signals a connection.
PeerConnect ==
    /\ sock = "listening" /\ "accept" \notin evts
    /\ evts' = evts \cup {"accept"}
    /\ UNCHANGED <<conf, lifeVars, calls, connOut, aio, waits, block, pRecv,
                   pSend, tlsVars, netVars, ioVars>>

\* The outgoing connection (with its proxy and TLS handshakes), or the TLS
\* handshake of an accepted one, completes or fails.
ConnectResult ==
    /\ sock \in {"connecting", "handshaking"} /\ "conn" \notin evts
    /\ \E o \in IF sock = "connecting" THEN {"ok", "addrinuse", "other"}
                                       ELSE {"ok", "other"} :
       /\ connOut' = o
       /\ evts' = evts \cup {"conn"}
       /\ IF o = "ok" /\ tls
          THEN /\ resumed' \in BOOLEAN
               /\ alpnOk' \in (IF coop THEN BOOLEAN ELSE {TRUE})
          ELSE UNCHANGED <<resumed, alpnOk>>
    /\ UNCHANGED <<conf, lifeVars, calls, aio, waits, block, pRecv, pSend,
                   cap, capAtConnect, asked, approved, notifiedRes, netVars,
                   ioVars>>

\* The socket thread signals a read event when it was waiting for one.
Readable == evts' = IF readWait THEN evts \cup {"read"} ELSE evts

\* The peer sends a chunk (a server may also send during an upload).
PeerSend ==
    /\ sock = "connected" /\ sent < NChunks /\ ~eof /\ ~rerr
    /\ sent' = sent + 1 /\ avail' = avail + 1
    /\ Readable /\ readWait' = FALSE
    /\ UNCHANGED <<conf, lifeVars, calls, connOut, aio, waits, block, pRecv,
                   pSend, tlsVars, eof, rerr, writeWait, ioVars>>

\* The peer closes its side of the connection.
PeerClose ==
    /\ sock = "connected" /\ ~eof /\ ~rerr
    /\ eof' = TRUE
    /\ Readable /\ readWait' = FALSE
    /\ UNCHANGED <<conf, lifeVars, calls, connOut, aio, waits, block, pRecv,
                   pSend, tlsVars, avail, sent, rerr, writeWait, ioVars>>

\* The connection is reset; both waiting directions are signalled.
PeerReset ==
    /\ sock = "connected" /\ ~rerr
    /\ rerr' = TRUE
    /\ evts' = evts \cup (IF readWait THEN {"read"} ELSE {})
                    \cup (IF writeWait THEN {"write"} ELSE {})
    /\ readWait' = FALSE /\ writeWait' = FALSE
    /\ UNCHANGED <<conf, lifeVars, calls, connOut, aio, waits, block, pRecv,
                   pSend, tlsVars, avail, sent, eof, ioVars>>

\* The peer drained the send buffer: the socket signals a write event.
Writable ==
    /\ writeWait /\ sock = "connected"
    /\ writeWait' = FALSE
    /\ evts' = evts \cup {"write"}
    /\ UNCHANGED <<conf, lifeVars, calls, connOut, aio, waits, block, pRecv,
                   pSend, tlsVars, avail, sent, eof, rerr, readWait, ioVars>>

\* A reader, writer or the buffer pool this socket waits on becomes ready
\* and posts an aio_buffer_event.
Ready(w) ==
    /\ w \in waits
    /\ waits' = waits \ {w}
    /\ aio' = aio \cup {w}
    /\ UNCHANGED <<conf, lifeVars, calls, evts, connOut, block, pRecv, pSend,
                   tlsVars, netVars, ioVars>>

(***************************************************************************)
(* Socket events (OnSocketEvent).  A handler runs only when no other one   *)
(* is running.                                                             *)
(***************************************************************************)
Free == calls = <<>> /\ alive /\ ~crashed

\* A stall ("wait", EAGAIN) may be answered while the budget lasts.
CanStall == stalls < MaxStalls

\* The connection event of the listening socket: OnAccept.
OnAccept ==
    /\ Free /\ "accept" \in evts /\ sock = "listening"
    /\ \E r \in (IF CanStall THEN {"ok", "eagain", "error"} ELSE {"ok", "error"}),
          initOk \in (IF tls THEN BOOLEAN ELSE {TRUE}) :
       /\ r # "ok" => initOk
       /\ stalls' = IF r = "eagain" THEN stalls + 1 ELSE stalls
       /\ evts' = evts \ {"accept"}
       /\ CASE r = "eagain" ->
                 UNCHANGED <<sock, layers, readWait, calls, endReason, endEvent>>
            [] r = "error" \/ ~initOk ->
                 /\ TransferEnd("transfer_failure", <<>>)
                 /\ UNCHANGED <<sock, layers, readWait>>
            [] OTHER ->
                 /\ sock' = IF tls THEN "handshaking" ELSE "connected"
                 /\ layers' = TRUE
                 /\ readWait' = ~tls
                 /\ calls' = IF tls THEN <<>> ELSE <<"OnConnect">>
                 /\ UNCHANGED <<endReason, endEvent>>
    /\ UNCHANGED <<conf, attempts, connects, activeCalled, alive, crashed,
                   connOut, aio, waits, block, pRecv, pSend, tlsVars, avail,
                   sent, eof, rerr, writeWait, buf, got, rdLeft, peerGot>>

\* The retry condition of a failed passive connection.
\* Mutant: one retry too many.
RetryPassive_OffByOne(o) == o = "addrinuse" /\ est = "passive" /\ attempts + 1 < 3

RetryPassive(o) == o = "addrinuse" /\ est = "passive" /\ attempts + 1 < 2

\* InitLayers(false) (lines 532-580): the logging and rate-limit layers,
\* a proxy layer (not modelled) and the TLS layer, whose client_handshake
\* may fail to start.
InitLayersResults == IF tls THEN BOOLEAN ELSE {TRUE}

\* DoSetupPassiveTransfer (lines 483-530): the old socket is reset, a new
\* one gets its layers and connects; a failure of InitLayers or of
\* connect() resets the new socket and returns false.
DoSetupPassiveTransfer(fail) ==
    \E layersOk \in InitLayersResults, connectOk \in BOOLEAN :
       IF layersOk /\ connectOk
       THEN /\ evts' = {} /\ buf' = -1
            /\ readWait' = FALSE /\ writeWait' = FALSE
            /\ sock' = "connecting" /\ layers' = TRUE
            /\ connects' = connects + 1
            /\ calls' = <<>>
            /\ UNCHANGED <<endReason, endEvent>>
       ELSE /\ ResetSocketVars
            /\ UNCHANGED connects
            /\ fail

\* The connection event of the data socket.  On "address in use" a passive
\* transfer sets up a new socket once; any other failure, or a failed set-up,
\* ends the transfer.
OnConnectionEvent ==
    /\ Free /\ "conn" \in evts
    /\ IF connOut = "ok"
       THEN /\ sock' = "connected" /\ readWait' = TRUE
            /\ calls' = <<"OnConnect">>
            /\ evts' = evts \ {"conn"}
            /\ UNCHANGED <<layers, attempts, connects, endReason, endEvent, buf,
                           writeWait>>
       ELSE /\ attempts' = IF connOut = "addrinuse" /\ est = "passive"
                           THEN attempts + 1 ELSE attempts
            /\ IF RetryPassive(connOut)
               THEN DoSetupPassiveTransfer(TransferEnd("transfer_failure", <<>>))
               ELSE /\ TransferEnd("transfer_failure", <<>>)
                    /\ evts' = evts \ {"conn"}
                    /\ UNCHANGED <<sock, layers, connects, buf, readWait, writeWait>>
    /\ UNCHANGED <<conf, activeCalled, alive, crashed, connOut, aio, waits,
                   block, pRecv, pSend, tlsVars, avail, sent, eof, rerr,
                   got, rdLeft, peerGot, stalls>>

\* OnSocketError(): only the first error ends the transfer.
OnSocketError ==
    IF endReason # "none"
    THEN calls' = <<>> /\ UNCHANGED <<endReason, endEvent>>
    ELSE TransferEnd("transfer_failure", <<>>)

\* A read or write event of the data socket, with or without an error.
OnReadWriteEvent(e) ==
    /\ Free /\ e \in evts /\ e \in {"read", "write"}
    /\ evts' = evts \ {e}
    /\ \/ rerr /\ OnSocketError
       \/ calls' = <<IF e = "read" THEN "OnReceive" ELSE "OnSend">>
          /\ UNCHANGED <<endReason, endEvent>>
    /\ UNCHANGED <<conf, sock, layers, attempts, connects, activeCalled, alive,
                   crashed, connOut, aio, waits, block, pRecv, pSend, tlsVars,
                   netVars, ioVars>>

\* Mutant: the reader's signal resumes receiving, the others sending.
OnBufferAvailability_Swapped(w) ==
    /\ Free /\ w \in aio
    /\ aio' = aio \ {w}
    /\ calls' = <<IF w = "reader" THEN "OnReceive" ELSE "OnSend">>
    /\ UNCHANGED <<conf, lifeVars, evts, connOut, waits, block, pRecv, pSend,
                   tlsVars, netVars, ioVars>>

\* OnBufferAvailability(): the reader resumes sending, the writer or the
\* buffer pool resumes receiving.
OnBufferAvailability(w) ==
    /\ Free /\ w \in aio
    /\ aio' = aio \ {w}
    /\ calls' = <<IF w = "reader" THEN "OnSend" ELSE "OnReceive">>
    /\ UNCHANGED <<conf, lifeVars, evts, connOut, waits, block, pRecv, pSend,
                   tlsVars, netVars, ioVars>>

(***************************************************************************)
(* Nested calls of the running handler, one per step.                      *)
(***************************************************************************)
Running(f) == calls # <<>> /\ Head(calls) = f /\ alive /\ ~crashed

\* The session-resumption policy of OnConnect for a protected data
\* connection, from the control connection's ALPN, the data connection's
\* handshake and the cached capability: "fail_resumption", "fail_alpn",
\* "record_yes", "ask" or "continue".
\* Mutant: an unknown capability is not asked about.
ResumptionVerdict_NoAsk(isCoop, isResumed, isAlpnOk, c) ==
    IF isCoop
    THEN CASE ~isResumed -> "fail_resumption"
           [] ~isAlpnOk  -> "fail_alpn"
           [] c # "yes"  -> "record_yes"
           [] OTHER      -> "continue"
    ELSE CASE isResumed /\ c # "yes" -> "record_yes"
           [] isResumed              -> "continue"
           [] c = "yes"              -> "fail_resumption"
           [] OTHER                  -> "continue"

ResumptionVerdict(isCoop, isResumed, isAlpnOk, c) ==
    IF isCoop
    THEN CASE ~isResumed -> "fail_resumption"
           [] ~isAlpnOk  -> "fail_alpn"
           [] c # "yes"  -> "record_yes"
           [] OTHER      -> "continue"
    ELSE CASE isResumed /\ c # "yes" -> "record_yes"
           [] isResumed              -> "continue"
           [] c = "yes"              -> "fail_resumption"
           [] c = "unknown"          -> "ask"
           [] OTHER                  -> "continue"

\* OnConnect(): apply the resumption policy, replay what was postponed if
\* nothing blocks, then try to send.
CallOnConnect ==
    /\ Running("OnConnect")
    /\ LET rest == Tail(calls)
           v == IF tls THEN ResumptionVerdict(coop, resumed, alpnOk, cap)
                       ELSE "continue"
           b == IF v = "ask" THEN block + 1 ELSE block
       IN
       /\ capAtConnect' = IF tls THEN cap ELSE "n/a"
       /\ IF v \in {"fail_resumption", "fail_alpn"}
          THEN /\ TransferEnd(IF v = "fail_alpn" THEN "wrong_tls_alpn"
                                                 ELSE "failed_tls_resumption",
                              rest)
               /\ UNCHANGED <<block, cap, asked, notifiedRes>>
          ELSE /\ cap' = IF v = "record_yes" THEN "yes" ELSE cap
               /\ notifiedRes' = (notifiedRes \/ v = "record_yes")
               /\ asked' = (asked \/ v = "ask")
               /\ block' = b
               /\ calls' = (IF b = 0 THEN <<"Trigger">> ELSE <<>>)
                           \o <<"OnSend">> \o rest
               /\ UNCHANGED <<endReason, endEvent>>
    /\ UNCHANGED <<conf, sock, layers, attempts, connects, activeCalled, alive,
                   crashed, evts, connOut, aio, waits, pRecv, pSend, resumed,
                   alpnOk, approved, netVars, ioVars>>

\* TriggerPostponedEvents(): unless blocked, replay a postponed receive,
\* then (if the transfer has not ended) a postponed send.
CallTrigger ==
    /\ Running("Trigger")
    /\ LET rest == Tail(calls) IN
       CASE block > 0 -> calls' = rest /\ UNCHANGED <<pRecv, pSend>>
         [] pRecv -> /\ pRecv' = FALSE
                     /\ calls' = <<"OnReceive", "TrigAfterRecv">> \o rest
                     /\ UNCHANGED pSend
         [] pSend -> /\ pSend' = FALSE
                     /\ calls' = <<"OnSend">> \o rest
                     /\ UNCHANGED pRecv
         [] OTHER -> calls' = rest /\ UNCHANGED <<pRecv, pSend>>
    /\ UNCHANGED <<conf, lifeVars, evts, connOut, aio, waits, block, tlsVars,
                   netVars, ioVars>>

CallTrigAfterRecv ==
    /\ Running("TrigAfterRecv")
    /\ LET rest == Tail(calls) IN
       IF endReason = "none" /\ pSend
       THEN pSend' = FALSE /\ calls' = <<"OnSend">> \o rest
       ELSE calls' = rest /\ UNCHANGED pSend
    /\ UNCHANGED <<conf, lifeVars, evts, connOut, aio, waits, block, pRecv,
                   tlsVars, netVars, ioVars>>

\* ResetSocket().
CallReset ==
    /\ Running("Reset")
    /\ ResetSocketVars
    /\ calls' = Tail(calls)
    /\ UNCHANGED <<conf, attempts, connects, endReason, endEvent,
                   activeCalled, alive, crashed, connOut, aio, waits, block,
                   pRecv, pSend, tlsVars, avail, sent, eof, rerr, got, rdLeft,
                   peerGot, stalls>>

(***************************************************************************)
(* OnReceive().  Each branch below sets calls, evts, pRecv, endReason,     *)
(* endEvent, avail, readWait, buf, got, waits, crashed and stalls.         *)
(***************************************************************************)

\* Directory listing: a chunk goes to the listing parser, which may reject
\* it; the end of the stream ends the transfer successfully.
ReceiveList(rest) ==
    /\ CASE ReadResult = "data" ->
              /\ avail' = avail - 1
              /\ \/ got' = got + 1 /\ calls' = rest /\ Post("read", TRUE)
                    /\ UNCHANGED <<endReason, endEvent>>
                 \/ TransferEnd("transfer_failure", rest)
                    /\ UNCHANGED <<got, evts>>
              /\ UNCHANGED readWait
         [] ReadResult = "eagain" ->
              /\ readWait' = TRUE /\ calls' = rest
              /\ UNCHANGED <<avail, got, evts, endReason, endEvent>>
         [] OTHER ->
              /\ TransferEnd(IF ReadResult = "eof" THEN "successful"
                                                   ELSE "transfer_failure",
                             rest)
              /\ UNCHANGED <<avail, got, evts, readWait>>
    /\ UNCHANGED <<pRecv, buf, waits, crashed, stalls>>

\* FinalizeWrite() with buffer b (chunks) and g chunks handed to the writer
\* so far: hand over a non-empty buffer, then finalize the writer.
\* Mutant: the partly filled last buffer is not handed to the writer.
FinalizeWrite_DropPartial(b, g, rest) ==
    \E finRes \in AioResults :
       /\ finRes = "wait" => CanStall
       /\ got' = g
       /\ buf' = b
       /\ CASE finRes = "wait" ->
                 /\ waits' = waits \cup {"writer"} /\ stalls' = stalls + 1
                 /\ calls' = rest /\ UNCHANGED <<endReason, endEvent>>
            [] OTHER ->
                 /\ TransferEnd(IF finRes = "ok" THEN "successful"
                                                 ELSE "transfer_failure_critical",
                                rest)
                 /\ UNCHANGED <<waits, stalls>>

FinalizeWrite(b, g, rest) ==
    \E addRes \in (IF b > 0 THEN AioResults ELSE {"ok"}), finRes \in AioResults :
       LET res == IF addRes = "ok" THEN finRes ELSE addRes IN
       /\ addRes # "ok" => finRes = "ok"
       /\ res = "wait" => CanStall
       /\ got' = IF b > 0 THEN g + b ELSE g
       /\ buf' = IF b > 0 THEN -1 ELSE b
       /\ CASE res = "wait" ->
                 /\ waits' = waits \cup {"writer"} /\ stalls' = stalls + 1
                 /\ calls' = rest /\ UNCHANGED <<endReason, endEvent>>
            [] OTHER ->
                 /\ TransferEnd(IF res = "ok" THEN "successful"
                                              ELSE "transfer_failure_critical",
                                rest)
                 /\ UNCHANGED <<waits, stalls>>

\* The read into buffer_ (b chunks filled) after CheckGetNextWriteBuffer
\* succeeded, g chunks having been handed to the writer.
\* Mutant: one chunk more is read than the buffer has room for.
ReadIntoBuffer_OffByOne(b, g, rest) ==
    CASE ReadResult = "data" ->
           LET n == Min(avail, BufCap - b + 1) IN
           /\ buf' = b + n /\ avail' = avail - n /\ got' = g
           /\ calls' = rest /\ Post("read", TRUE)
           /\ UNCHANGED <<endReason, endEvent, readWait, waits, stalls>>
      [] ReadResult = "eagain" ->
           /\ readWait' = TRUE /\ buf' = b /\ got' = g /\ calls' = rest
           /\ UNCHANGED <<evts, endReason, endEvent, avail, waits, stalls>>
      [] ReadResult = "error" ->
           /\ buf' = b /\ got' = g
           /\ TransferEnd("transfer_failure", rest)
           /\ UNCHANGED <<evts, avail, readWait, waits, stalls>>
      [] OTHER ->
           /\ FinalizeWrite(b, g, rest)
           /\ UNCHANGED <<evts, avail, readWait>>

ReadIntoBuffer(b, g, rest) ==
    CASE ReadResult = "data" ->
           LET n == Min(avail, BufCap - b) IN
           /\ buf' = b + n /\ avail' = avail - n /\ got' = g
           /\ calls' = rest /\ Post("read", TRUE)
           /\ UNCHANGED <<endReason, endEvent, readWait, waits, stalls>>
      [] ReadResult = "eagain" ->
           /\ readWait' = TRUE /\ buf' = b /\ got' = g /\ calls' = rest
           /\ UNCHANGED <<evts, endReason, endEvent, avail, waits, stalls>>
      [] ReadResult = "error" ->
           /\ buf' = b /\ got' = g
           /\ TransferEnd("transfer_failure", rest)
           /\ UNCHANGED <<evts, avail, readWait, waits, stalls>>
      [] OTHER ->
           /\ FinalizeWrite(b, g, rest)
           /\ UNCHANGED <<evts, avail, readWait>>

\* Download: CheckGetNextWriteBuffer() hands a full buffer to the writer
\* and leases a new one from the pool; either may answer "wait" (a waiter
\* is registered) or "error".
ReceiveDownload(rest) ==
    LET full == buf = BufCap IN
    /\ \E addRes \in (IF full THEN AioResults ELSE {"ok"}), poolOk \in BOOLEAN :
       LET g1 == IF full THEN got + BufCap ELSE got
           b1 == IF full THEN -1 ELSE buf
           needPool == addRes = "ok" /\ b1 = -1
           res == IF needPool /\ ~poolOk THEN "wait" ELSE addRes
           b2 == IF needPool /\ poolOk THEN 0 ELSE b1
       IN
       /\ needPool \/ poolOk
       /\ res = "wait" => CanStall
       /\ CASE res = "wait" ->
                 /\ waits' = waits \cup {IF addRes = "wait" THEN "writer"
                                                            ELSE "pool"}
                 /\ stalls' = stalls + 1
                 /\ buf' = b2 /\ got' = g1 /\ calls' = rest
                 /\ UNCHANGED <<evts, endReason, endEvent, avail, readWait>>
            [] res = "error" ->
                 /\ buf' = b2 /\ got' = g1
                 /\ TransferEnd("transfer_failure_critical", rest)
                 /\ UNCHANGED <<evts, waits, avail, readWait, stalls>>
            [] OTHER -> ReadIntoBuffer(b2, g1, rest)
    /\ UNCHANGED <<pRecv, crashed>>

\* Resume test: read two bytes at a time; exactly one byte followed by the
\* end of the stream is success.
ReceiveResumeTest(rest) ==
    LET n == Min(avail, 2)
        r == got + n
    IN
    /\ got' = r /\ avail' = avail - n
    /\ CASE r > 1 ->
              TransferEnd("failed_resumetest", rest) /\ UNCHANGED readWait
         [] rerr ->
              TransferEnd("transfer_failure", rest) /\ UNCHANGED readWait
         [] eof ->
              /\ TransferEnd(IF r = 1 THEN "successful" ELSE "failed_resumetest",
                             rest)
              /\ UNCHANGED readWait
         [] OTHER ->
              readWait' = TRUE /\ calls' = rest /\ UNCHANGED <<endReason, endEvent>>
    /\ UNCHANGED <<evts, pRecv, buf, waits, crashed, stalls>>

\* Upload, or a transfer that has ended: read and discard.
ReceiveDiscard(rest) ==
    LET rr == ReadResult IN
    /\ avail' = IF rr = "data" THEN avail - 1 ELSE avail
    /\ readWait' = (readWait \/ rr = "eagain")
    /\ IF endReason = "none"
       THEN IF rr \in {"data", "error"}
            THEN TransferEnd("transfer_failure", rest)
            ELSE calls' = rest /\ UNCHANGED <<endReason, endEvent>>
       ELSE /\ calls' = IF rr \in {"eof", "error"} THEN <<"Reset">> \o rest
                                                   ELSE rest
            /\ UNCHANGED <<endReason, endEvent>>
    /\ UNCHANGED <<evts, pRecv, buf, got, waits, crashed, stalls>>

\* OnReceive(): postponed while activity_block_ is set; every other path
\* reads from active_layer_, which after ResetSocket is a null pointer
\* (the process dies).
CallOnReceive ==
    /\ Running("OnReceive")
    /\ LET rest == Tail(calls) IN
       CASE block > 0 ->
              /\ pRecv' = TRUE /\ calls' = rest
              /\ UNCHANGED <<evts, endReason, endEvent, avail, readWait, buf,
                             got, waits, crashed, stalls>>
         [] ~layers ->
              /\ crashed' = TRUE /\ calls' = <<>>
              /\ UNCHANGED <<evts, pRecv, endReason, endEvent, avail, readWait,
                             buf, got, waits, stalls>>
         [] endReason = "none" /\ mode = "list" -> ReceiveList(rest)
         [] endReason = "none" /\ mode = "download" -> ReceiveDownload(rest)
         [] endReason = "none" /\ mode = "resumetest" -> ReceiveResumeTest(rest)
         [] OTHER -> ReceiveDiscard(rest)
    /\ UNCHANGED <<conf, sock, layers, attempts, connects, activeCalled, alive,
                   connOut, aio, block, pSend, tlsVars, sent, eof, rerr,
                   writeWait, rdLeft, peerGot>>

(***************************************************************************)
(* OnSend().  Each branch sets calls, evts, pSend, endReason, endEvent,    *)
(* writeWait, buf, rdLeft, peerGot, waits and stalls.                      *)
(***************************************************************************)

\* The write of buffer_ (b chunks): an error, EAGAIN, or n chunks written
\* and consumed from the buffer.
SendWrite(b, rest) ==
    IF rerr
    THEN /\ buf' = b
         /\ TransferEnd("transfer_failure", rest)
         /\ UNCHANGED <<evts, writeWait, peerGot, stalls>>
    ELSE \E n \in (IF CanStall THEN 0 ELSE 1)..b :
         IF n = 0
         THEN /\ writeWait' = TRUE /\ stalls' = stalls + 1
              /\ buf' = b /\ calls' = rest
              /\ UNCHANGED <<evts, peerGot, endReason, endEvent>>
         ELSE /\ peerGot' = peerGot + n /\ buf' = b - n
              /\ calls' = rest /\ Post("write", TRUE)
              /\ UNCHANGED <<writeWait, stalls, endReason, endEvent>>

\* The reader is at its end: shut down the write side.
SendShutdown(rest) ==
    \E r \in (IF rerr THEN {"error"} ELSE IF CanStall THEN {"ok", "eagain"}
                                                      ELSE {"ok"}) :
       /\ buf' = 0
       /\ IF r = "eagain"
          THEN /\ writeWait' = TRUE /\ stalls' = stalls + 1 /\ calls' = rest
               /\ UNCHANGED <<endReason, endEvent>>
          ELSE /\ TransferEnd(IF r = "ok" THEN "successful" ELSE "transfer_failure",
                              rest)
               /\ UNCHANGED <<writeWait, stalls>>
       /\ UNCHANGED <<evts, peerGot>>

\* CheckGetNextReadBuffer() with an empty buffer_: ask the reader for the
\* next one ("wait" registers a waiter), then shut down or write.
SendNextBuffer(rest) ==
    \E res \in AioResults :
       /\ res = "wait" => CanStall
       /\ CASE res = "wait" ->
                 /\ buf' = -1 /\ waits' = waits \cup {"reader"}
                 /\ stalls' = stalls + 1 /\ calls' = rest
                 /\ UNCHANGED <<evts, endReason, endEvent, writeWait, rdLeft,
                                peerGot>>
            [] res = "error" ->
                 /\ buf' = -1
                 /\ TransferEnd("transfer_failure_critical", rest)
                 /\ UNCHANGED <<evts, waits, writeWait, rdLeft, peerGot, stalls>>
            [] OTHER ->
                 LET k == Min(rdLeft, BufCap) IN
                 /\ rdLeft' = rdLeft - k
                 /\ IF k = 0 THEN SendShutdown(rest) ELSE SendWrite(k, rest)
                 /\ UNCHANGED waits

SendBlocked == block > 0

\* OnSend(): ignored without a layer, postponed while blocked, only
\* uploads that have not ended send.
CallOnSend ==
    /\ Running("OnSend")
    /\ LET rest == Tail(calls) IN
       CASE ~layers \/ (~SendBlocked /\ (mode # "upload" \/ endReason # "none")) ->
              /\ calls' = rest
              /\ UNCHANGED <<evts, pSend, endReason, endEvent, writeWait, buf,
                             rdLeft, peerGot, waits, stalls>>
         [] SendBlocked ->
              /\ pSend' = TRUE /\ calls' = rest
              /\ UNCHANGED <<evts, endReason, endEvent, writeWait, buf, rdLeft,
                             peerGot, waits, stalls>>
         [] OTHER ->
              /\ UNCHANGED pSend
              /\ IF buf <= 0
                 THEN SendNextBuffer(rest)
                 ELSE SendWrite(buf, rest) /\ UNCHANGED <<rdLeft, waits>>
    /\ UNCHANGED <<conf, sock, layers, attempts, connects, activeCalled, alive,
                   crashed, connOut, aio, block, pRecv, tlsVars, avail, sent,
                   eof, rerr, readWait, got>>

(***************************************************************************)
(* Calls from the control socket and the user.                             *)
(***************************************************************************)

\* SetActive(): the control socket saw the preliminary reply; one unit of
\* the activity block is lifted and, on a connected socket, what was
\* postponed is replayed.
SetActive ==
    /\ Free /\ ~activeCalled
    /\ activeCalled' = TRUE
    /\ IF endReason # "none" \/ block = 0
       THEN UNCHANGED <<block, calls>>
       ELSE /\ block' = block - 1
            /\ calls' = IF sock \in {"handshaking", "connected"}
                        THEN <<"Trigger">> ELSE <<>>
    /\ UNCHANGED <<conf, sock, layers, attempts, connects, endReason, endEvent,
                   alive, crashed, evts, connOut, aio, waits, pRecv, pSend,
                   tlsVars, netVars, ioVars>>

\* The user allows the connection without session resumption:
\* ContinueWithoutSesssionResumption().
\* Mutant: the block is lifted but nothing postponed is replayed.
ContinueWithoutSesssionResumption_NoTrigger ==
    /\ Free /\ asked
    /\ asked' = FALSE /\ approved' = TRUE
    /\ block' = IF block > 0 THEN block - 1 ELSE block
    /\ UNCHANGED <<conf, lifeVars, calls, evts, connOut, aio, waits, pRecv,
                   pSend, cap, capAtConnect, resumed, alpnOk, notifiedRes,
                   netVars, ioVars>>

ContinueWithoutSesssionResumption ==
    /\ Free /\ asked
    /\ asked' = FALSE /\ approved' = TRUE
    /\ IF block > 0
       THEN block' = block - 1 /\ calls' = <<"Trigger">>
       ELSE UNCHANGED <<block, calls>>
    /\ UNCHANGED <<conf, lifeVars, evts, connOut, aio, waits, pRecv, pSend, cap,
                   capAtConnect, resumed, alpnOk, notifiedRes, netVars, ioVars>>

\* The control socket deletes the transfer socket (~CTransferSocket): its
\* pending events are removed, an unset end reason becomes "successful"
\* without an event, and the socket is reset.
Destroy ==
    /\ alive' = FALSE
    /\ endReason' = IF endReason = "none" THEN "successful" ELSE endReason
    /\ ResetSocketVars
    /\ aio' = {}
    /\ UNCHANGED <<conf, attempts, connects, endEvent, activeCalled, crashed,
                   calls, connOut, waits, block, pRecv, pSend, tlsVars, avail,
                   sent, eof, rerr, got, rdLeft, peerGot, stalls>>

\* After the TransferEndEvent, or on an abort of the operation (cancel,
\* timeout, disconnection, or the user refusing the connection).
DestroyAfterEnd == Free /\ endEvent /\ Destroy
Abort == Free /\ ~endEvent /\ Destroy

\* Nothing is left to run: the object is gone.
Done == ~alive /\ UNCHANGED vars

Environment ==
    \/ PeerConnect \/ ConnectResult \/ PeerSend \/ PeerClose \/ PeerReset
    \/ Writable \/ \E w \in Waitables : Ready(w)

Handlers ==
    \/ OnAccept \/ OnConnectionEvent
    \/ \E e \in {"read", "write"} : OnReadWriteEvent(e)
    \/ \E w \in Waitables : OnBufferAvailability(w)
    \/ CallOnConnect \/ CallTrigger \/ CallTrigAfterRecv \/ CallReset
    \/ CallOnReceive \/ CallOnSend

Control ==
    \/ SetActive \/ ContinueWithoutSesssionResumption
    \/ DestroyAfterEnd \/ Abort

Next == Environment \/ Handlers \/ Control \/ Done

\* The event loop runs every posted event and queued call; the control
\* socket gets its preliminary reply and deletes an ended transfer; the
\* user eventually answers; the peer, the socket thread, the disks and the
\* pool eventually answer.  Aborts are not assumed to happen.
Fairness ==
    /\ WF_vars(OnAccept) /\ WF_vars(OnConnectionEvent)
    /\ \A e \in {"read", "write"} : WF_vars(OnReadWriteEvent(e))
    /\ \A w \in Waitables : WF_vars(OnBufferAvailability(w))
    /\ WF_vars(CallOnConnect \/ CallTrigger \/ CallTrigAfterRecv \/ CallReset
               \/ CallOnReceive \/ CallOnSend)
    /\ WF_vars(SetActive) /\ WF_vars(ContinueWithoutSesssionResumption)
    /\ WF_vars(DestroyAfterEnd)
    /\ WF_vars(PeerConnect) /\ WF_vars(ConnectResult) /\ WF_vars(PeerClose)
    /\ WF_vars(Writable) /\ \A w \in Waitables : WF_vars(Ready(w))

Spec == Init /\ [][Next]_vars /\ Fairness

(***************************************************************************)
(* Properties.                                                             *)
(***************************************************************************)

\* Chunks taken out of the socket by the code.
Consumed == sent - avail

TypeOK ==
    /\ mode \in {"list", "download", "upload", "resumetest"}
    /\ est \in {"active", "passive"} /\ tls \in BOOLEAN /\ coop \in BOOLEAN
    /\ sock \in SockStates /\ layers \in BOOLEAN
    /\ attempts \in 0..2 /\ connects \in 0..3
    /\ calls \in Seq(Calls) /\ evts \subseteq SockEvts
    /\ connOut \in {"ok", "addrinuse", "other"}
    /\ aio \subseteq Waitables /\ waits \subseteq Waitables
    /\ block \in 0..2 /\ pRecv \in BOOLEAN /\ pSend \in BOOLEAN
    /\ endReason \in EndReasons /\ endEvent \in BOOLEAN
    /\ activeCalled \in BOOLEAN /\ alive \in BOOLEAN /\ crashed \in BOOLEAN
    /\ cap \in {"unknown", "yes", "no"}
    /\ capAtConnect \in {"unknown", "yes", "no", "n/a"}
    /\ {resumed, alpnOk, asked, approved, notifiedRes} \subseteq BOOLEAN
    /\ avail \in 0..NChunks /\ sent \in 0..NChunks /\ avail <= sent
    /\ {eof, rerr, readWait, writeWait} \subseteq BOOLEAN
    /\ buf \in -1..BufCap /\ got \in 0..NChunks
    /\ rdLeft \in 0..NChunks /\ peerGot \in 0..NChunks
    /\ stalls \in 0..MaxStalls

\* OnConnect's resumption policy, whatever the order of the handshake, the
\* user's answer and the data: data moves over a protected connection whose
\* TLS session was not resumed only when the control connection is not in
\* the cooperative ALPN mode and the server was not known to resume, and
\* then only once the server is known not to resume or the user allowed it.
ResumptionPolicy ==
    (tls /\ ~resumed /\ (Consumed > 0 \/ peerGot > 0))
        => /\ ~coop
           /\ capAtConnect \in {"unknown", "no"}
           /\ capAtConnect = "no" \/ approved

SuccessMeansComplete ==
    (endEvent /\ endReason = "successful") =>
        CASE mode = "upload"     -> peerGot = NChunks /\ rdLeft = 0
          [] mode = "resumetest" -> got = 1 /\ eof
          [] OTHER               -> got = sent /\ eof

\* The "address in use" retry of a passive connection is bounded: at most
\* two connection attempts.
RetryBound == connects <= 2

\* Given an event loop that runs what is posted and peers, disks and a user
\* that eventually answer, every transfer reports its end (or is deleted):
\* no "wait", postponement or EAGAIN loses the wake-up that resumes it.
Termination == <>(endEvent \/ ~alive)

\* No handler dereferences the null active_layer_ left by ResetSocket.
NoNullLayerAccess == ~crashed

\* The resume probe as the design describes it (§4.3): a connection that
\* breaks after exactly one byte is a failed resume verification, not an
\* ordinary transfer failure.
ResumeProbeClassification ==
    (endEvent /\ mode = "resumetest" /\ got = 1)
        => endReason \in {"successful", "failed_resumetest"}

=============================================================================
