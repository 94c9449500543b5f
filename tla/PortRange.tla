------------------------------- MODULE PortRange -------------------------------
(***************************************************************************)
(* Active-mode listen-port selection of the FTP data connection:           *)
(* CTransferSocket::SetupActiveTransfer and CreateSocketServer             *)
(* (src/src/engine/ftp/transfersocket.cpp lines 76-115 and 620-678).       *)
(*                                                                         *)
(* With OPTION_LIMITPORTS set, CreateSocketServer scans the configured     *)
(* range from the function-static cursor `start`, which every engine       *)
(* shares.  Each engine runs on its own thread, so the cursor's loads and  *)
(* stores are separate steps: `CreateSocketServer(start++)` loads start,   *)
(* stores start + 1, then listens.  The range check at the top and the     *)
(* wrap-around after a failed listen are read-and-write steps of their     *)
(* own.  A listening socket is kept (socketServer_) until the engine's     *)
(* next SetupActiveTransfer resets it.  Other programs hold the ports      *)
(* ExtBusy.  The options may change at any time; the code reads them once  *)
(* in CreateSocketServer and again after listening.                        *)
(***************************************************************************)
EXTENDS Integers, FiniteSets

CONSTANTS
    Engines,       \* the engines (threads) setting up active transfers
    OptionSets,    \* values of [limit, low, high, offset] the user may set
    ExtBusy,       \* ports that other programs listen on
    Ephemeral,     \* ports the system may assign for listen(0)
    Families,      \* address families of the control connection (4, 6)
    LocalPortResults  \* whether local_port() succeeds

MaxPort == 65535

VARIABLES
    start,    \* the static cursor of CreateSocketServer
    opts,     \* the engine options OPTION_LIMITPORTS(_LOW, _HIGH, _OFFSET)
    busy,     \* ports with a listening socket
    held,     \* held[e]: the port of e's socketServer_, or 0
    pc,       \* pc[e]: the step e is at
    loc,      \* loc[e]: the locals of e's call (low, high, count, p, fam),
              \* and the ghost set of ports it found taken
    result,   \* result[e]: the outcome of e's last call
    stray,    \* ghost: a limited scan listened outside its range
    wiz,      \* the port of the network wizard's listen_socket_, or 0
    wizLoc    \* the wizard's last CreateListenSocket: [any, low, high, res]

vars == <<start, opts, busy, held, pc, loc, result, stray, wiz, wizLoc>>

NoLocals == [lim |-> FALSE, low |-> 0, high |-> 0, count |-> 0, p |-> 0, fam |-> 4,
             tried |-> {}]

\* A variant dividing by 255 for the port's high byte.
PortArgument_Div255(fam, port) ==
    IF fam = 6 THEN [res |-> "arg", fam |-> 6, hi |-> 0, lo |-> 0, port |-> port]
    ELSE [res |-> "arg", fam |-> 4, hi |-> port \div 255, lo |-> port % 256,
          port |-> 0]

\* The argument of PORT (IPv4: the address with commas, then the port's
\* high and low byte) or of EPRT (|2|ip|port|), the address abstracted.
PortArgument(fam, port) ==
    IF fam = 6 THEN [res |-> "arg", fam |-> 6, hi |-> 0, lo |-> 0, port |-> port]
    ELSE [res |-> "arg", fam |-> 4, hi |-> port \div 256, lo |-> port % 256,
          port |-> 0]

\* An empty return value, or no call yet, with its reason.
Outcome(r) == [res |-> r, fam |-> 0, hi |-> 0, lo |-> 0, port |-> 0]

\* listen() on a port fails when it is taken or not a valid port.
CanListen(p) == p \in 1..MaxPort /\ p \notin busy

Init ==
    /\ start = 0
    /\ opts \in OptionSets
    /\ busy = ExtBusy
    /\ held = [e \in Engines |-> 0]
    /\ pc = [e \in Engines |-> "idle"]
    /\ loc = [e \in Engines |-> NoLocals]
    /\ result = [e \in Engines |-> Outcome("none")]
    /\ stray = FALSE
    /\ wiz = 0
    /\ wizLoc = [any |-> TRUE, low |-> 0, high |-> 0, res |-> 0]

-----------------------------------------------------------------------------
(* SetupActiveTransfer (lines 78-80): ResetSocket closes the previous     *)
(* listening socket; then CreateSocketServer reads the options (lines     *)
(* 637-658).                                                               *)
SetupActiveTransfer(e) ==
    /\ pc[e] = "idle"
    /\ \E fam \in Families :
         LET low  == IF opts.low > opts.high THEN opts.high ELSE opts.low
             high == opts.high
         IN loc' = [e2 \in Engines |-> IF e2 = e
                       THEN [lim |-> opts.limit, low |-> low, high |-> high,
                             count |-> high - low + 1, p |-> 0, fam |-> fam,
                             tried |-> {}]
                       ELSE loc[e2]]
    /\ busy' = busy \ {held[e]}
    /\ held' = [held EXCEPT ![e] = 0]
    /\ pc' = [pc EXCEPT ![e] = IF opts.limit THEN "check" ELSE "any"]
    /\ result' = [result EXCEPT ![e] = Outcome("none")]
    /\ UNCHANGED <<start, opts, stray, wiz, wizLoc>>

\* Lines 658-660: a cursor outside the range restarts at a random port.
RangeCheck(e) ==
    /\ pc[e] = "check"
    /\ IF start < loc[e].low \/ start > loc[e].high
       THEN \E r \in loc[e].low..loc[e].high : start' = r
       ELSE UNCHANGED start
    /\ pc' = [pc EXCEPT ![e] = "load"]
    /\ UNCHANGED <<opts, busy, held, loc, result, stray, wiz, wizLoc>>

\* A variant of the loop whose test does not count down.
LoadStart_NoCount(e) ==
    /\ pc[e] = "load"
    /\ IF loc[e].count = 0
       THEN /\ pc' = [pc EXCEPT ![e] = "idle"]
            /\ result' = [result EXCEPT ![e] = Outcome("noserver")]
            /\ UNCHANGED loc
       ELSE /\ loc' = [loc EXCEPT ![e].p = start]
            /\ pc' = [pc EXCEPT ![e] = "store"]
            /\ UNCHANGED result
    /\ UNCHANGED <<start, opts, busy, held, stray, wiz, wizLoc>>

\* `while (count--)` and the load of start++ (lines 665-666).
LoadStart(e) ==
    /\ pc[e] = "load"
    /\ IF loc[e].count = 0
       THEN /\ pc' = [pc EXCEPT ![e] = "idle"]
            /\ result' = [result EXCEPT ![e] = Outcome("noserver")]
            /\ UNCHANGED loc
       ELSE /\ loc' = [loc EXCEPT ![e].count = @ - 1, ![e].p = start]
            /\ pc' = [pc EXCEPT ![e] = "store"]
            /\ UNCHANGED result
    /\ UNCHANGED <<start, opts, busy, held, stray, wiz, wizLoc>>

\* The store of start++.
StoreStart(e) ==
    /\ pc[e] = "store"
    /\ start' = loc[e].p + 1
    /\ pc' = [pc EXCEPT ![e] = "listen"]
    /\ UNCHANGED <<opts, busy, held, loc, result, stray, wiz, wizLoc>>

\* CreateSocketServer(port) (lines 620-633) on the loaded port.
ListenOn(e) ==
    /\ pc[e] = "listen"
    /\ LET p == loc[e].p
       IN /\ stray' = (stray \/ p \notin loc[e].low..loc[e].high)
          /\ IF CanListen(p)
             THEN /\ busy' = busy \cup {p}
                  /\ held' = [held EXCEPT ![e] = p]
                  /\ pc' = [pc EXCEPT ![e] = "port"]
                  /\ UNCHANGED loc
             ELSE /\ pc' = [pc EXCEPT ![e] = "wrap"]
                  /\ loc' = [loc EXCEPT ![e].tried = @ \cup {p}]
                  /\ UNCHANGED <<busy, held>>
    /\ UNCHANGED <<start, opts, result, wiz, wizLoc>>

\* Variants of the wrap-around: none at all, and one that wraps already at
\* high.
Wrap_NoWrap(e) ==
    /\ pc[e] = "wrap"
    /\ pc' = [pc EXCEPT ![e] = "load"]
    /\ UNCHANGED <<start, opts, busy, held, loc, result, stray, wiz, wizLoc>>

Wrap_GreaterEqual(e) ==
    /\ pc[e] = "wrap"
    /\ start' = IF start >= loc[e].high THEN loc[e].low ELSE start
    /\ pc' = [pc EXCEPT ![e] = "load"]
    /\ UNCHANGED <<opts, busy, held, loc, result, stray, wiz, wizLoc>>

\* Lines 670-672: after a failed listen the cursor wraps to low.
Wrap(e) ==
    /\ pc[e] = "wrap"
    /\ start' = IF start > loc[e].high THEN loc[e].low ELSE start
    /\ pc' = [pc EXCEPT ![e] = "load"]
    /\ UNCHANGED <<opts, busy, held, loc, result, stray, wiz, wizLoc>>

\* Without a port range the system picks a port (CreateSocketServer(0)).
ListenAny(e) ==
    /\ pc[e] = "any"
    /\ IF \E p \in Ephemeral : CanListen(p)
       THEN \E p \in Ephemeral :
              /\ CanListen(p)
              /\ busy' = busy \cup {p}
              /\ held' = [held EXCEPT ![e] = p]
              /\ pc' = [pc EXCEPT ![e] = "port"]
              /\ UNCHANGED result
       ELSE /\ pc' = [pc EXCEPT ![e] = "idle"]
            /\ result' = [result EXCEPT ![e] = Outcome("noserver")]
            /\ UNCHANGED <<busy, held>>
    /\ UNCHANGED <<start, opts, loc, stray, wiz, wizLoc>>

\* A variant whose range check lets port 0 through (port < 0).
AdvertisePort_NoZero(e) ==
    /\ pc[e] = "port"
    /\ \E ok \in LocalPortResults :
         LET port == IF opts.limit THEN held[e] + opts.offset ELSE held[e]
         IN IF ~ok
            THEN /\ busy' = busy \ {held[e]}
                 /\ held' = [held EXCEPT ![e] = 0]
                 /\ result' = [result EXCEPT ![e] = Outcome("noport")]
            ELSE /\ result' = [result EXCEPT ![e] =
                                 IF opts.limit /\ (port < 0 \/ port >= 65536)
                                 THEN Outcome("outside")
                                 ELSE PortArgument(loc[e].fam, port)]
                 /\ UNCHANGED <<busy, held>>
    /\ pc' = [pc EXCEPT ![e] = "idle"]
    /\ UNCHANGED <<start, opts, loc, stray, wiz, wizLoc>>

\* Lines 87-114: local_port, the offset (options read again), its range
\* check, and the PORT/EPRT argument.  A failed local_port resets the
\* socket; a port out of range returns an empty string and keeps it.
AdvertisePort(e) ==
    /\ pc[e] = "port"
    /\ \E ok \in LocalPortResults :
         LET port == IF opts.limit THEN held[e] + opts.offset ELSE held[e]
         IN IF ~ok
            THEN /\ busy' = busy \ {held[e]}
                 /\ held' = [held EXCEPT ![e] = 0]
                 /\ result' = [result EXCEPT ![e] = Outcome("noport")]
            ELSE /\ result' = [result EXCEPT ![e] =
                                 IF opts.limit /\ (port <= 0 \/ port >= 65536)
                                 THEN Outcome("outside")
                                 ELSE PortArgument(loc[e].fam, port)]
                 /\ UNCHANGED <<busy, held>>
    /\ pc' = [pc EXCEPT ![e] = "idle"]
    /\ UNCHANGED <<start, opts, loc, stray, wiz, wizLoc>>

\* The user changes the port-range settings.
SetOptions ==
    /\ \E o \in OptionSets : opts # o /\ opts' = o
    /\ UNCHANGED <<start, busy, held, pc, loc, result, stray, wiz, wizLoc>>

-----------------------------------------------------------------------------
(* The network configuration wizard (src/src/interface/netconfwizard.cpp)  *)
(* listens for its active-mode test in the same port space, with its own  *)
(* copy of the range: the page's fields, loaded from the options and      *)
(* accepted only as 1024 <= min <= max <= 65535 (lines 353-366).          *)

ValidWizardRange(o) == 1024 <= o.low /\ o.low <= o.high /\ o.high <= MaxPort

\* The port-mode buttons and range fields as Load (lines 300-311) fills
\* them from the options, when the ports page accepts them.
WizardRanges == {o \in OptionSets : ValidWizardRange(o)}

Least(S) == CHOOSE p \in S : \A q \in S : p <= q

\* A variant whose first loop stops before high.
ScanFrom_BelowHigh(low, high, mid) ==
    LET Up   == {p \in mid..high - 1 : CanListen(p)}
        Down == {p \in low..mid - 1 : CanListen(p)}
    IN IF Up # {} THEN Least(Up) ELSE IF Down # {} THEN Least(Down) ELSE 0

\* The two loops of CreateListenSocket() (lines 1058-1067): from mid up to
\* high, then from low up to mid - 1; the first port listened on, or 0.
ScanFrom(low, high, mid) ==
    LET Up   == {p \in mid..high : CanListen(p)}
        Down == {p \in low..mid - 1 : CanListen(p)}
    IN IF Up # {} THEN Least(Up) ELSE IF Down # {} THEN Least(Down) ELSE 0

\* The wizard's listen_socket_ is on port p (0: reset), from the call
\* described by any and the range o.
WizardListens(p, any, o) ==
    /\ wiz' = p
    /\ busy' = IF p = 0 THEN busy ELSE busy \cup {p}
    /\ wizLoc' = [any |-> any, low |-> o.low, high |-> o.high, res |-> p]

\* Step 4 of the wizard (lines 952-958) without a listen socket:
\* CreateListenSocket() (lines 1040-1071) with "any port" listens on port
\* 0 and asks local_port, which may fail and reset the socket
\* (CreateListenSocket(port), lines 1073-1096); with a range it scans from
\* a random mid.  A result of 0 closes the wizard's sockets.
WizardCreateListenSocket ==
    /\ wiz = 0
    /\ \E any \in BOOLEAN, o \in WizardRanges :
         IF any
         THEN \E ok \in LocalPortResults :
                IF ok /\ \E p \in Ephemeral : CanListen(p)
                THEN \E p \in Ephemeral : CanListen(p) /\ WizardListens(p, any, o)
                ELSE WizardListens(0, any, o)
         ELSE \E mid \in o.low..o.high :
                WizardListens(ScanFrom(o.low, o.high, mid), any, o)
    /\ UNCHANGED <<start, opts, held, pc, loc, result, stray>>

\* CloseSocket (lines 721-830) resets listen_socket_.
WizardCloseSocket ==
    /\ wiz # 0
    /\ busy' = busy \ {wiz}
    /\ wiz' = 0
    /\ UNCHANGED <<start, opts, held, pc, loc, result, stray, wizLoc>>

Next ==
    \/ SetOptions
    \/ WizardCreateListenSocket \/ WizardCloseSocket
    \/ \E e \in Engines :
         \/ SetupActiveTransfer(e) \/ RangeCheck(e) \/ LoadStart(e)
         \/ StoreStart(e) \/ ListenOn(e) \/ Wrap(e) \/ ListenAny(e)
         \/ AdvertisePort(e)

Spec == Init /\ [][Next]_vars

\* The steps of one CreateSocketServer call, which its engine's thread runs
\* to the end once SetupActiveTransfer has started it.
CallStep(e) ==
    \/ RangeCheck(e) \/ LoadStart(e) \/ StoreStart(e) \/ ListenOn(e)
    \/ Wrap(e) \/ ListenAny(e) \/ AdvertisePort(e)

\* A running thread keeps running; the user, the wizard and new transfers
\* are under no obligation to act.
FairSpec == Spec /\ \A e \in Engines : WF_vars(CallStep(e))

-----------------------------------------------------------------------------
(* Properties                                                              *)

Results ==
    {Outcome(r) : r \in {"none", "noserver", "noport", "outside"}}
    \cup [res : {"arg"}, fam : {4}, hi : 0..255, lo : 0..255, port : {0}]
    \cup [res : {"arg"}, fam : {6}, hi : {0}, lo : {0}, port : 1..MaxPort]

TypeOK ==
    /\ start \in 0..MaxPort + 1
    /\ opts \in OptionSets
    /\ busy \subseteq 1..MaxPort
    /\ held \in [Engines -> 0..MaxPort]
    /\ pc \in [Engines -> {"idle", "check", "load", "store", "listen", "wrap",
                            "any", "port"}]
    /\ result \in [Engines -> Results]
    /\ stray \in BOOLEAN
    /\ wiz \in 0..MaxPort

\* With a port range configured, CreateSocketServer only ever listens on a
\* port of that range: the cursor start is checked against the range at
\* the top and wrapped after the increment.
ListenInRange == ~stray

\* A limited CreateSocketServer fails only when it found every port of its
\* range taken: the scan of count = high - low + 1 ports from the cursor,
\* wrapping at high, visits every port of the range once.  (A port may be
\* released by another thread after the scan tried it.)
FindsFreePort ==
    \A e \in Engines :
        pc[e] = "idle" /\ result[e].res = "noserver" /\ loc[e].lim =>
            loc[e].low..loc[e].high \subseteq loc[e].tried

\* The wizard's listen socket is on a port of the range it was given, and
\* it fails only when every port of that range is taken: the scan from the
\* random mid to high and on from low to mid - 1 tries each port once.
\* Engines (other threads) hold and release ports of the same range.
WizardFindsFreePort ==
    [][WizardCreateListenSocket =>
         LET l == wizLoc' IN
         ~l.any => IF l.res = 0 THEN l.low..l.high \subseteq busy
                   ELSE l.res \in l.low..l.high \ busy]_vars

\* Every SetupActiveTransfer returns, with a listening socket or without:
\* the scan of CreateSocketServer stops after count = high - low + 1
\* tries, however the cursor moves and whichever ports the wizard and
\* other programs take and release meanwhile.
CallReturns == \A e \in Engines : pc[e] # "idle" ~> pc[e] = "idle"


\* The port a PORT or EPRT argument of SetupActiveTransfer names (the high
\* byte times 256 plus the low byte for PORT) is a valid port: with a port
\* offset, the sum of the listened port and the offset is range-checked
\* before it is split into bytes, so neither 0 nor 65536 is advertised.
AdvertisedPort(r) == IF r.fam = 6 THEN r.port ELSE r.hi * 256 + r.lo

AdvertisedPortValid ==
    \A e \in Engines : result[e].res = "arg" => AdvertisedPort(result[e]) \in 1..MaxPort

=============================================================================
