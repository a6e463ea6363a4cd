------------------------------ MODULE McpClient ------------------------------
(***************************************************************************)
(* hoocode-agent-mcp's Client (client.rs): calls share one session with an *)
(* MCP server, behind an async mutex and a semaphore of permits.  A call   *)
(* that finds the session dead starts the server again while it holds the  *)
(* mutex; a request is sent again only if it never left the client; a      *)
(* generation tells a session from the one that replaced it; shutdown()    *)
(* closes the client at any point of this.  Servers die, starts hang or    *)
(* fail, and a call is cancelled or times out wherever it waits.           *)
(*                                                                         *)
(* A listing is one page of list_tools.  Payloads, progress values and     *)
(* elicitation are left out; rmcp's service (a queue of requests and a     *)
(* loop that ends after its transport closed) is modelled from its use.    *)
(***************************************************************************)
EXTENDS Naturals, FiniteSets

CONSTANTS ToolCalls,    \* calls of call_tool
          Listings,     \* calls of list_page
          NoCall,
          MaxInFlight,  \* permits
          MaxStarts     \* bound on the times the server is started again

Calls == ToolCalls \cup Listings

ASSUME McpClientAssumption ==
  /\ ToolCalls \cap Listings = {} /\ NoCall \notin Calls
  /\ MaxInFlight \in Nat \ {0} /\ MaxStarts \in Nat

VARIABLES
  pc,        \* where each call is
  retried,   \* its local of that name
  gen,       \* generation of the session it uses
  token,     \* progress token of its request
  request,   \* its request: none, queued in the session, or run by the server
  runs,      \* how often a server ran it
  slot,      \* Inner.session, as a generation
  owner,     \* the call that holds the session mutex across an await
  next,      \* next_generation
  service,   \* the session of each generation
  tokens,    \* requests sent in each session
  routes,    \* ProgressRoutes: token -> call
  closed,    \* Inner.closed
  shut       \* where shutdown() is

callVars == <<pc, retried, gen, token, request, runs>>
sessionVars == <<slot, owner, next, service, tokens>>
vars == <<callVars, sessionVars, routes, closed, shut>>

Gens == 0..MaxStarts
None == MaxStarts + 1    \* no session

Stages == {"idle", "permit", "peer", "start", "send", "route", "await", "retry", "fail", "done"}

(* up: connected.  closing: the server is gone, the service has not noticed. *)
(* gone: the service has ended, or was dropped.                              *)
ServiceStates == {"none", "up", "closing", "gone"}

TypeOK ==
  /\ pc \in [Calls -> Stages]
  /\ retried \in [Calls -> BOOLEAN]
  /\ gen \in [Calls -> Gens] /\ token \in [Calls -> Nat]
  /\ request \in [Calls -> {"none", "queued", "run"}]
  /\ runs \in [Calls -> Nat]
  /\ slot \in Gens \cup {None} /\ next \in 1..(MaxStarts + 1)
  /\ owner \in Calls \cup {NoCall}
  /\ \A c \in Calls : owner = c <=> pc[c] = "start"
  /\ service \in [Gens -> ServiceStates] /\ tokens \in [Gens -> Nat]
  /\ DOMAIN routes \subseteq Nat /\ \A t \in DOMAIN routes : routes[t] \in Calls
  /\ closed \in BOOLEAN /\ shut \in {"no", "lock", "done"}

(* connect() has succeeded.                                                  *)
Init ==
  /\ pc = [c \in Calls |-> "idle"]
  /\ retried = [c \in Calls |-> FALSE]
  /\ gen = [c \in Calls |-> 0] /\ token = [c \in Calls |-> 0]
  /\ request = [c \in Calls |-> "none"] /\ runs = [c \in Calls |-> 0]
  /\ slot = 0 /\ owner = NoCall /\ next = 1
  /\ service = [g \in Gens |-> IF g = 0 THEN "up" ELSE "none"]
  /\ tokens = [g \in Gens |-> 0]
  /\ routes = [t \in {} |-> NoCall]
  /\ closed = FALSE /\ shut = "no"

Goto(c, stage) == pc' = [pc EXCEPT ![c] = stage]

(* The service of generation g is dropped: its loop and its server stop.     *)
Dropped(g) == [service EXCEPT ![g] = "gone"]

(* The RouteGuard of a call that returns removes what its token names, which *)
(* may be the route of a call on a newer session.                            *)
HasRoute(c) == c \in ToolCalls /\ pc[c] \in {"await", "fail"} /\ request[c] # "none"

RoutesAfter(c) ==
  IF HasRoute(c) THEN [t \in DOMAIN routes \ {token[c]} |-> routes[t]] ELSE routes

Return(c) ==
  /\ Goto(c, "done")
  /\ routes' = RoutesAfter(c)

-----------------------------------------------------------------------------
(* A call takes a permit, then the live session's peer (live_peer).          *)

Begin(c) ==
  /\ pc[c] = "idle"
  /\ Goto(c, "permit")
  /\ UNCHANGED <<retried, gen, token, request, runs, sessionVars, routes, closed, shut>>

InFlight == {c \in Calls : pc[c] \notin {"idle", "permit", "done"}}

AcquirePermit(c) ==
  /\ pc[c] = "permit" /\ Cardinality(InFlight) < MaxInFlight
  /\ Goto(c, "peer")
  /\ UNCHANGED <<retried, gen, token, request, runs, sessionVars, routes, closed, shut>>

PeerOf(c, g) ==
  /\ gen' = [gen EXCEPT ![c] = g]
  /\ Goto(c, "send")

Live == slot # None /\ service[slot] # "gone"   \* not is_closed

UsePeer(c) ==
  /\ pc[c] = "peer" /\ owner = NoCall /\ ~closed
  /\ Live
  /\ PeerOf(c, slot)
  /\ UNCHANGED <<retried, token, request, runs, sessionVars, routes, closed, shut>>

\* Mutation of MayStart: shutdown() is not looked for.
MayStartClosed == TRUE

MayStart == ~closed

StartAgain(c) ==
  /\ pc[c] = "peer" /\ owner = NoCall /\ MayStart
  /\ ~Live
  /\ slot' = None
  /\ owner' = c
  /\ Goto(c, "start")
  /\ UNCHANGED <<retried, gen, token, request, runs, next, service, tokens, routes, closed, shut>>

ClientClosed(c) ==
  /\ pc[c] = "peer" /\ owner = NoCall /\ closed
  /\ Return(c)
  /\ UNCHANGED <<retried, gen, token, request, runs, sessionVars, closed, shut>>

StartOk(c) ==
  /\ pc[c] = "start" /\ next <= MaxStarts
  /\ PeerOf(c, next)
  /\ slot' = next
  /\ next' = next + 1
  /\ service' = [service EXCEPT ![next] = "up"]
  /\ owner' = NoCall
  /\ UNCHANGED <<retried, token, request, runs, tokens, routes, closed, shut>>

StartFails(c) ==
  /\ pc[c] = "start"
  /\ owner' = NoCall
  /\ Return(c)
  /\ UNCHANGED <<retried, gen, token, request, runs, slot, next, service, tokens,
                 closed, shut>>

-----------------------------------------------------------------------------
(* Sending, and the answer.                                                  *)

Send(c) ==
  /\ pc[c] = "send" /\ service[gen[c]] # "gone"
  /\ request' = [request EXCEPT ![c] = "queued"]
  /\ token' = [token EXCEPT ![c] = tokens[gen[c]]]
  /\ tokens' = [tokens EXCEPT ![gen[c]] = @ + 1]
  /\ Goto(c, IF c \in ToolCalls THEN "route" ELSE "await")
  /\ UNCHANGED <<retried, gen, runs, slot, owner, next, service, routes, closed, shut>>

(* The request never left: once, it is sent again.                           *)
SendFails(c) ==
  /\ pc[c] = "send" /\ service[gen[c]] = "gone"
  /\ Goto(c, IF retried[c] THEN "fail" ELSE "retry")
  /\ retried' = [retried EXCEPT ![c] = TRUE]
  /\ UNCHANGED <<gen, token, request, runs, sessionVars, routes, closed, shut>>

AddRoute(c) ==
  /\ pc[c] = "route"
  /\ routes' = [t \in DOMAIN routes \cup {token[c]} |-> IF t = token[c] THEN c ELSE routes[t]]
  /\ Goto(c, "await")
  /\ UNCHANGED <<retried, gen, token, request, runs, sessionVars, closed, shut>>

Answered(c) ==
  /\ pc[c] = "await" /\ request[c] = "run" /\ service[gen[c]] # "gone"
  /\ Return(c)
  /\ UNCHANGED <<retried, gen, token, request, runs, sessionVars, closed, shut>>

\* Mutation of MayRepeat: a tool call that was sent is sent again as well.
MayRepeatAny(c) == ~retried[c]

(* Only a listing is asked for again once it was sent.                       *)
MayRepeat(c) == c \in Listings /\ ~retried[c]

ConnectionLost(c) ==
  /\ pc[c] = "await" /\ service[gen[c]] = "gone"
  /\ Goto(c, IF MayRepeat(c) THEN "retry" ELSE "fail")
  /\ retried' = [retried EXCEPT ![c] = @ \/ MayRepeat(c)]
  /\ UNCHANGED <<gen, token, request, runs, sessionVars, routes, closed, shut>>

-----------------------------------------------------------------------------
(* reset_session: drop the session if it is still the one that failed.  The  *)
(* wait for the mutex is bounded, and then the session is left alone.        *)

\* Mutation of IsFailed: whatever session is in place is taken for the failed one.
IsFailedAny(c) == slot # None

IsFailed(c) == slot = gen[c]

AfterReset(c) ==
  IF pc[c] = "retry" THEN Goto(c, "peer") /\ UNCHANGED routes ELSE Return(c)

Reset(c) ==
  /\ pc[c] \in {"retry", "fail"} /\ owner = NoCall
  /\ IF IsFailed(c) THEN slot' = None /\ service' = Dropped(slot)
                    ELSE UNCHANGED <<slot, service>>
  /\ AfterReset(c)
  /\ UNCHANGED <<retried, gen, token, request, runs, owner, next, tokens, closed, shut>>

ResetTimesOut(c) ==
  /\ pc[c] \in {"retry", "fail"} /\ owner # NoCall
  /\ AfterReset(c)
  /\ UNCHANGED <<retried, gen, token, request, runs, sessionVars, closed, shut>>

-----------------------------------------------------------------------------
(* The deadline passes, or the caller cancels, wherever the call waits; a    *)
(* start in progress is dropped with it.                                     *)

\* Mutation of Bounded: connecting is not under the deadline.
BoundedButStart(c) == pc[c] \in {"permit", "peer", "send", "await"}

Bounded(c) == pc[c] \in {"permit", "peer", "start", "send", "await"}

Released(c) == IF owner = c THEN NoCall ELSE owner

GiveUp(c) ==
  /\ Bounded(c)
  /\ owner' = Released(c)
  /\ Return(c)
  /\ UNCHANGED <<retried, gen, token, request, runs, slot, next, service, tokens, closed, shut>>

-----------------------------------------------------------------------------
(* shutdown: close, then wait for the mutex to take the session.             *)

Shutdown ==
  /\ shut = "no"
  /\ shut' = "lock" /\ closed' = TRUE
  /\ UNCHANGED <<callVars, sessionVars, routes>>

TakeSession ==
  /\ shut = "lock" /\ owner = NoCall
  /\ slot' = None
  /\ service' = IF slot = None THEN service ELSE Dropped(slot)
  /\ shut' = "done"
  /\ UNCHANGED <<callVars, owner, next, tokens, routes, closed>>

-----------------------------------------------------------------------------
(* The server and rmcp's service.                                            *)

Run(c) ==
  /\ request[c] = "queued" /\ service[gen[c]] = "up"
  /\ request' = [request EXCEPT ![c] = "run"]
  /\ runs' = [runs EXCEPT ![c] = @ + 1]
  /\ UNCHANGED <<pc, retried, gen, token, sessionVars, routes, closed, shut>>

ServerDies(g) ==
  /\ service[g] = "up"
  /\ service' = [service EXCEPT ![g] = "closing"]
  /\ UNCHANGED <<callVars, slot, owner, next, tokens, routes, closed, shut>>

ServiceEnds(g) ==
  /\ service[g] = "closing"
  /\ service' = [service EXCEPT ![g] = "gone"]
  /\ UNCHANGED <<callVars, slot, owner, next, tokens, routes, closed, shut>>

-----------------------------------------------------------------------------
CallStep(c) ==
  \/ AcquirePermit(c)
  \/ UsePeer(c) \/ StartAgain(c) \/ ClientClosed(c)
  \/ Send(c) \/ SendFails(c) \/ AddRoute(c)
  \/ Answered(c) \/ ConnectionLost(c)
  \/ Reset(c) \/ ResetTimesOut(c)
  \/ GiveUp(c)

Next ==
  \/ \E c \in Calls : Begin(c) \/ CallStep(c) \/ StartOk(c) \/ StartFails(c) \/ Run(c)
  \/ \E g \in Gens : ServerDies(g) \/ ServiceEnds(g)
  \/ Shutdown \/ TakeSession

Spec == Init /\ [][Next]_vars

(* Tasks run on and deadlines pass.  A start may hang, the server need not   *)
(* answer and need not die.                                                  *)
LiveSpec ==
  /\ Spec
  /\ \A c \in Calls : WF_vars(CallStep(c))
  /\ SF_vars(TakeSession)

-----------------------------------------------------------------------------
(* A tool call is sent again only if the server cannot have run it           *)
(* (client.rs:494-495): no server runs it twice.                             *)
RunAtMostOnce == \A c \in ToolCalls : runs[c] <= 1

(* No server runs but the one of the session in place, and none once         *)
(* shutdown() has returned, though a call was starting one meanwhile         *)
(* (client.rs:579-581).                                                      *)
NoStrayServer ==
  \A g \in Gens : service[g] \in {"up", "closing"} => slot = g /\ shut # "done"

(* A session goes only when it has failed or the client closes: a call that  *)
(* saw an earlier one fail does not take the next one from the others        *)
(* (client.rs:250-251).                                                      *)
LiveSessionKept ==
  [][slot # None /\ slot' # slot => service[slot] = "gone" \/ closed]_vars

(* The progress channel of a call closes when the call ends (client.rs:97),  *)
(* however it ends, though tokens start over with each                       *)
(* session and routes of two calls may meet on one of them.                  *)
ProgressCloses == \A t \in DOMAIN routes : pc[routes[t]] # "done"

(* Every call returns, and so does shutdown(), even when a start hangs: each *)
(* is made once, so there comes a time when none is on its way.              *)
OnItsWay == shut = "lock" \/ \E c \in Calls : pc[c] \notin {"idle", "done"}

CallsReturn == OnItsWay ~> ~OnItsWay
=============================================================================
