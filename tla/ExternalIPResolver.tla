------------------------- MODULE ExternalIPResolver -------------------------
(***************************************************************************)
(* CExternalIPResolver (src/src/engine/externalipresolver.cpp): resolver   *)
(* instances, each an HTTP client on its own event loop, that share one    *)
(* process-wide result cache (ip_, checked) under the mutex s_sync.        *)
(*                                                                         *)
(* An address is abstracted to its family: the cache holds "" or "v4" or   *)
(* "v6".  The server behind a resolution follows a plan chosen when the    *)
(* request starts: some number of redirects (Loop for a redirect loop),    *)
(* then an ending: a redirect with an unusable Location, a network error, *)
(* a non-2xx answer, or a 2xx answer with one of the Bodies.               *)
(***************************************************************************)
EXTENDS Integers, Sequences

CONSTANTS
    Resolvers,  \* resolver instances
    Families,   \* address families a caller may ask for: subset of {"v4","v6"}
    HopCounts,  \* the lengths of the finite redirect chains a server sends
    SpecHops,   \* redirect hops a resolution is expected to follow: 6 by the
                \* specification (4.4), 5 by OnHeader's pre-increment
    MaxCalls,   \* GetExternalIP calls per resolver
    Ends        \* the endings servers choose from: a subset of Endings

ASSUME HopCounts \subseteq Nat /\ SpecHops \in Nat /\ MaxCalls \in Nat


\* The redirect limit of OnHeader (line 103).
RedirectLimit == 6

\* A redirect loop: more redirects than any limit.
Loop == RedirectLimit + 1

Bodies == {"v4", "v6", "[v6]", "[v6"}
Endings == {"badloc", "neterr", "status"} \cup Bodies
ASSUME Ends \subseteq Endings

Plans == [hops : HopCounts \cup {Loop}, end : Ends]
Conts == {"wait", "done", "error"}

\* Request ids.  The client numbers requests increasingly; only their
\* equality matters, and no event of a finished resolution is still queued
\* when the next one starts (the completing event is the last one the
\* client posts, and the destructor drops the rest), so ids are counted
\* from 1 within each resolution.
Ids == 1..RedirectLimit
NoBody == "none"

VARIABLES
    ipc,        \* ip_ of the static cache: "" or an address family
    checked,    \* checked of the static cache
    srr,        \* srr_: the current request id, 0 when there is none
    fam,        \* the family the current request forces
    redirects,  \* redirect_count_
    nextId,     \* the next request id the client hands out (see Ids)
    out,        \* the request the server is answering, 0 when none
    hopsDone,   \* redirects the server has sent for this resolution
    plan,       \* the server's plan for this resolution
    evq,        \* done events queued on the resolver's loop: <<id, success, body>>
    notify,     \* CExternalIPResolveEvent pending for the resolver's owner
    outcome     \* what the last completed resolution wrote to the cache, or "none"

resolverVars == <<ipc, checked, srr, fam, redirects, nextId, out, hopsDone,
                  plan, evq, notify, outcome>>

-----------------------------------------------------------------------------
(* Helpers                                                                 *)

\* The address on_request_done takes from a 2xx body for request family f
\* (lines 140-157): for IPv6 a leading '[' needs a closing ']', which is
\* stripped; the rest must be a literal of the requested family.
ParseBody(body, f) ==
    IF f = "v6" THEN IF body \in {"v6", "[v6]"} THEN "v6" ELSE ""
                ELSE IF body = "v4" THEN "v4" ELSE ""

\* What the cache holds after GetExternalIP returned without a request.
CachedResult == IF ipc = "" THEN "error" ELSE "done"

\* The client queues a done event for the resolver.
Finish(r, id, ok, body) == evq' = [evq EXCEPT ![r] = Append(@, <<id, ok, body>>)]

-----------------------------------------------------------------------------
(* GetExternalIP(address, protocol, force), lines 44-90, with k the        *)
(* continuation it returns.  uriOk says whether the URI parses and         *)
(* add_request accepts the request.                                        *)

GetExternalIP(r, f, force, uriOk, k) ==
    IF srr[r] # 0
    THEN k = "wait" /\ UNCHANGED resolverVars
    ELSE IF checked /\ ~force
    THEN k = CachedResult /\ UNCHANGED resolverVars
    ELSE /\ checked' = FALSE
         /\ redirects' = [redirects EXCEPT ![r] = 0]
         /\ IF uriOk
               THEN /\ k = "wait"
                    /\ fam' = [fam EXCEPT ![r] = f]
                    /\ srr' = [srr EXCEPT ![r] = 1]
                    /\ out' = [out EXCEPT ![r] = 1]
                    /\ nextId' = [nextId EXCEPT ![r] = 2]
                    /\ hopsDone' = [hopsDone EXCEPT ![r] = 0]
                    /\ \E p \in Plans : plan' = [plan EXCEPT ![r] = p]
                    /\ outcome' = [outcome EXCEPT ![r] = "none"]
               ELSE /\ k = "error"
                    /\ UNCHANGED <<srr, fam, out, nextId, hopsDone, plan, outcome>>
         /\ UNCHANGED <<ipc, evq, notify>>

\* The whole call is atomic: the cache is read and cleared under s_sync and
\* the rest touches only the instance.
GetIP == ipc

-----------------------------------------------------------------------------
(* The server answers the outstanding request; the client reads the        *)
(* headers and calls OnHeader for a redirect (lines 97-125).               *)

IsRedirect(r) ==
    \/ hopsDone[r] < plan[r].hops
    \/ plan[r].end = "badloc"

\* The redirect beyond the planned chain carries an unusable Location, or
\* add_request refuses the resolved URI: both are errors (lines 114, 120).
BadLocation(r) == hopsDone[r] >= plan[r].hops

\* OnHeader gives up: the client ends the request unsuccessfully.
HeaderError(r) ==
    /\ Finish(r, out[r], FALSE, NoBody)
    /\ out' = [out EXCEPT ![r] = 0]
    /\ UNCHANGED <<srr, nextId>>

\* add_request(srr) succeeds: the same request-response pair is sent again
\* under a new id, and the client ends the old request.
Readd(r) ==
    /\ srr' = [srr EXCEPT ![r] = nextId[r]]
    /\ out' = [out EXCEPT ![r] = nextId[r]]
    /\ nextId' = [nextId EXCEPT ![r] = @ + 1]
    /\ Finish(r, out[r], TRUE, NoBody)

\* Mutant: the limit is tested before the counter is advanced.
OnHeader_OffByOne(r) ==
    /\ redirects' = [redirects EXCEPT ![r] = @ + 1]
    /\ IF redirects[r] > RedirectLimit \/ BadLocation(r)
          THEN HeaderError(r)
          ELSE Readd(r)

\* A redirect: counted first (line 103), then an unusable Location (114)
\* or a failing add_request (120) is an error.
OnHeader(r) ==
    /\ redirects' = [redirects EXCEPT ![r] = @ + 1]
    /\ IF redirects[r] + 1 >= RedirectLimit \/ BadLocation(r)
          THEN HeaderError(r)
          ELSE Readd(r)

Respond(r) ==
    /\ out[r] # 0
    /\ IF IsRedirect(r)
          THEN /\ OnHeader(r)
               /\ hopsDone' = [hopsDone EXCEPT ![r] = IF @ < Loop THEN @ + 1 ELSE @]
          ELSE /\ CASE plan[r].end = "neterr" -> Finish(r, out[r], FALSE, NoBody)
                    [] plan[r].end = "status" -> Finish(r, out[r], TRUE, NoBody)
                    [] OTHER                  -> Finish(r, out[r], TRUE, plan[r].end)
               /\ out' = [out EXCEPT ![r] = 0]
               /\ UNCHANGED <<redirects, srr, nextId, hopsDone>>
    /\ UNCHANGED <<ipc, checked, fam, plan, notify, outcome>>

\* Mutant: the request id is not compared.
OnRequestDone_NoIdCheck(r) ==
    /\ evq[r] # <<>>
    /\ LET e == Head(evq[r])
           ip == IF e[2] THEN ParseBody(e[3], fam[r]) ELSE ""
       IN IF srr[r] = 0
          THEN UNCHANGED <<ipc, checked, srr, notify, outcome>>
          ELSE /\ ipc' = ip
               /\ checked' = TRUE
               /\ notify' = [notify EXCEPT ![r] = TRUE]
               /\ srr' = [srr EXCEPT ![r] = 0]
               /\ outcome' = [outcome EXCEPT ![r] = ip]
    /\ evq' = [evq EXCEPT ![r] = Tail(@)]
    /\ UNCHANGED <<fam, redirects, nextId, out, hopsDone, plan>>

\* Mutant: the owner is told only when an address was found.
OnRequestDone_NotifyOnSuccess(r) ==
    /\ evq[r] # <<>>
    /\ LET e == Head(evq[r])
           ip == IF e[2] THEN ParseBody(e[3], fam[r]) ELSE ""
       IN IF srr[r] = 0 \/ e[1] # srr[r]
          THEN UNCHANGED <<ipc, checked, srr, notify, outcome>>
          ELSE /\ ipc' = ip
               /\ checked' = TRUE
               /\ notify' = [notify EXCEPT ![r] = ip # ""]
               /\ srr' = [srr EXCEPT ![r] = 0]
               /\ outcome' = [outcome EXCEPT ![r] = ip]
    /\ evq' = [evq EXCEPT ![r] = Tail(@)]
    /\ UNCHANGED <<fam, redirects, nextId, out, hopsDone, plan>>

\* on_request_done (lines 127-169): a done event of a request that is not
\* the current one is dropped; otherwise the result is parsed, the cache
\* written under the lock, the owner notified and srr_ released.
OnRequestDone(r) ==
    /\ evq[r] # <<>>
    /\ LET e == Head(evq[r])
           ip == IF e[2] THEN ParseBody(e[3], fam[r]) ELSE ""
       IN IF srr[r] = 0 \/ e[1] # srr[r]
          THEN UNCHANGED <<ipc, checked, srr, notify, outcome>>
          ELSE /\ ipc' = ip
               /\ checked' = TRUE
               /\ notify' = [notify EXCEPT ![r] = TRUE]
               /\ srr' = [srr EXCEPT ![r] = 0]
               /\ outcome' = [outcome EXCEPT ![r] = ip]
    /\ evq' = [evq EXCEPT ![r] = Tail(@)]
    /\ UNCHANGED <<fam, redirects, nextId, out, hopsDone, plan>>

\* The destructor (lines 23-27): pending events of the handler are removed
\* and the client stops, abandoning its request.
DestroyResolver(r) ==
    /\ srr' = [srr EXCEPT ![r] = 0]
    /\ out' = [out EXCEPT ![r] = 0]
    /\ evq' = [evq EXCEPT ![r] = <<>>]
    /\ notify' = [notify EXCEPT ![r] = FALSE]
    /\ redirects' = [redirects EXCEPT ![r] = 0]
    /\ UNCHANGED <<ipc, checked, fam, nextId, hopsDone, plan, outcome>>

ResolverInit ==
    /\ ipc = ""
    /\ checked = FALSE
    /\ srr = [r \in Resolvers |-> 0]
    /\ fam = [r \in Resolvers |-> "v4"]
    /\ redirects = [r \in Resolvers |-> 0]
    /\ nextId = [r \in Resolvers |-> 1]
    /\ out = [r \in Resolvers |-> 0]
    /\ hopsDone = [r \in Resolvers |-> 0]
    /\ plan = [r \in Resolvers |-> CHOOSE p \in Plans : TRUE]
    /\ evq = [r \in Resolvers |-> <<>>]
    /\ notify = [r \in Resolvers |-> FALSE]
    /\ outcome = [r \in Resolvers |-> "none"]

\* The steps of the resolvers and their HTTP clients.
ResolverStep(r) == Respond(r) \/ OnRequestDone(r)

\* The address a resolution should leave in the cache by the
\* specification (4.4): redirects are followed up to SpecHops hops, and a
\* 2xx body must be a literal of the requested family.
Expected(p, f) ==
    IF p.hops > SpecHops \/ p.end \notin Bodies THEN "" ELSE ParseBody(p.end, f)

-----------------------------------------------------------------------------
(* A caller of each resolver, the way the engine's active-mode setup uses  *)
(* it: call GetExternalIP; on "wait" wait for CExternalIPResolveEvent;     *)
(* then read GetIP.                                                        *)

VARIABLES
    cst,        \* the caller: "idle" or "waiting"
    got,        \* what the caller last read with GetIP
    calls,      \* GetExternalIP calls made
    forcedErr   \* the last call was forced and returned "error"

callerVars == <<cst, got, calls, forcedErr>>
vars == <<resolverVars, callerVars>>

Call(r) ==
    /\ cst[r] = "idle" /\ calls[r] < MaxCalls
    /\ \E f \in Families, force \in BOOLEAN, uriOk \in BOOLEAN, k \in Conts :
          /\ GetExternalIP(r, f, force, uriOk, k)
          /\ cst' = [cst EXCEPT ![r] = IF k = "wait" THEN "waiting" ELSE "idle"]
          /\ got' = [got EXCEPT ![r] = IF k = "wait" THEN @ ELSE GetIP]
          /\ forcedErr' = [forcedErr EXCEPT ![r] = force /\ k = "error"]
    /\ calls' = [calls EXCEPT ![r] = @ + 1]

OnResolved(r) ==
    /\ notify[r]
    /\ notify' = [notify EXCEPT ![r] = FALSE]
    /\ cst' = [cst EXCEPT ![r] = "idle"]
    /\ got' = [got EXCEPT ![r] = GetIP]
    /\ forcedErr' = [forcedErr EXCEPT ![r] = FALSE]
    /\ UNCHANGED <<ipc, checked, srr, fam, redirects, nextId, out, hopsDone,
                   plan, evq, outcome, calls>>

Init ==
    /\ ResolverInit
    /\ cst = [r \in Resolvers |-> "idle"]
    /\ got = [r \in Resolvers |-> ""]
    /\ calls = [r \in Resolvers |-> 0]
    /\ forcedErr = [r \in Resolvers |-> FALSE]

\* Nothing is left to happen: every caller has made its calls or waits,
\* and no request or event is pending.
Quiet ==
    /\ \A r \in Resolvers : (calls[r] = MaxCalls \/ cst[r] = "waiting")
                           /\ evq[r] = <<>> /\ out[r] = 0 /\ ~notify[r]
    /\ UNCHANGED vars

Next ==
    \/ \E r \in Resolvers :
          \/ Call(r)
          \/ ResolverStep(r) /\ UNCHANGED callerVars
          \/ OnResolved(r)
    \/ Quiet

\* The server and the client answer every request, the event loop
\* dispatches every event.
Spec == Init /\ [][Next]_vars
        /\ \A r \in Resolvers : /\ WF_vars(ResolverStep(r) /\ UNCHANGED callerVars)
                               /\ WF_vars(OnResolved(r))

-----------------------------------------------------------------------------
(* Properties                                                              *)

TypeOK ==
    /\ ipc \in {""} \cup Families
    /\ checked \in BOOLEAN
    /\ srr \in [Resolvers -> {0} \cup Ids]
    /\ fam \in [Resolvers -> Families \cup {"v4"}]
    /\ redirects \in [Resolvers -> 0..RedirectLimit]
    /\ nextId \in [Resolvers -> 1..RedirectLimit + 1]
    /\ out \in [Resolvers -> {0} \cup Ids]
    /\ hopsDone \in [Resolvers -> 0..Loop]
    /\ plan \in [Resolvers -> Plans]
    /\ \A r \in Resolvers : Len(evq[r]) <= RedirectLimit
    /\ notify \in [Resolvers -> BOOLEAN]
    /\ outcome \in [Resolvers -> {"none", ""} \cup Families]
    /\ cst \in [Resolvers -> {"idle", "waiting"}]
    /\ calls \in [Resolvers -> 0..MaxCalls]

\* A completed resolution leaves in the cache what the server's answers
\* entitle it to: the address of the requested family from a 2xx body at
\* the end of a chain of at most SpecHops redirects, and nothing
\* otherwise.  Broken if a done event of a request superseded by a
\* redirect (on_request_done, line 129) or a miscounted redirect (OnHeader,
\* line 103) ends the resolution.
ResolutionMatchesServer ==
    \A r \in Resolvers :
        outcome[r] # "none" => outcome[r] = Expected(plan[r], fam[r])

\* Whoever got "wait" from GetExternalIP is eventually told the answer:
\* on_request_done notifies the owner on every outcome (line 167).
WaitAnswered == \A r \in Resolvers : cst[r] = "waiting" ~> cst[r] = "idle"

\* A forced lookup clears the cache (specification 4.4): a forced call
\* that fails at once leaves nothing to read with GetIP (lines 53-54, 84-86).
ForcedLookupNotStale == \A r \in Resolvers : forcedErr[r] => got[r] = ""

=============================================================================
