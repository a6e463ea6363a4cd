--------------------------- MODULE McpClientProofs ---------------------------
(***************************************************************************)
(* Proofs about McpClient for any number of calls, permits and restarts of *)
(* the server: the types, that no tool call is run twice, that no server   *)
(* is left behind, that a call's progress route goes with it, and that a   *)
(* session is dropped only when it is over.                                *)
(***************************************************************************)
EXTENDS McpClient, TLAPS

(* A tool call that was sent is never sent again.                            *)
SentOnce ==
  \A c \in ToolCalls :
    /\ pc[c] \in {"idle", "permit", "peer", "start", "send", "retry"} => request[c] = "none"
    /\ pc[c] \in {"route", "await"} => request[c] # "none"
    /\ runs[c] = IF request[c] = "run" THEN 1 ELSE 0

(* The sessions: one in the slot, the earlier ones gone, the later ones not  *)
(* begun; none while one is being started; none after shutdown().            *)
Sessions ==
  /\ \A g \in Gens : service[g] \in {"up", "closing"} => slot = g
  /\ \A g \in Gens : g < next <=> service[g] # "none"
  /\ slot # None => slot < next
  /\ owner # NoCall => slot = None
  /\ shut # "no" => closed
  /\ shut = "done" => slot = None /\ owner = NoCall

(* The session a call uses was begun, and is over when the call says so; a   *)
(* listing has no progress route to add.                                     *)
Uses ==
  \A c \in Calls :
    /\ gen[c] < next
    /\ pc[c] \in {"retry", "fail"} => service[gen[c]] = "gone"
    /\ pc[c] = "route" => c \in ToolCalls

(* A route is the one of a tool call that waits under its token.             *)
Routes ==
  \A t \in DOMAIN routes :
    LET c == routes[t]
    IN c \in ToolCalls /\ pc[c] \in {"await", "fail"} /\ token[c] = t /\ request[c] # "none"

IInv == TypeOK /\ SentOnce /\ Sessions /\ Uses /\ Routes

USE DEF Stages, ServiceStates, Gens, None, callVars, sessionVars

(* The first state satisfies the invariant.                                  *)
LEMMA InitIInv == Init => IInv
<1> SUFFICES ASSUME Init PROVE IInv OBVIOUS
<1> USE McpClientAssumption DEF Init, Calls
<1>1. TypeOK
  <2>1. 1 \in 1..(MaxStarts + 1) /\ 0 \in 0..MaxStarts OBVIOUS
  <2>2. closed \in BOOLEAN /\ retried \in [ToolCalls \cup Listings -> BOOLEAN] OBVIOUS
  <2>3. service \in [0..MaxStarts -> ServiceStates] OBVIOUS
  <2>4. DOMAIN routes = {} OBVIOUS
  <2> QED BY <2>1, <2>2, <2>3, <2>4 DEF TypeOK
<1>2. SentOnce BY DEF SentOnce
<1>3. Sessions BY DEF Sessions
<1>4. Uses BY DEF Uses
<1>5. Routes BY DEF Routes
<1> QED BY <1>1, <1>2, <1>3, <1>4, <1>5 DEF IInv

(* A call that returns takes its route with it, and no other route of the    *)
(* table changes but the one under its token.                                *)
LEMMA Returned ==
  ASSUME IInv, NEW c \in Calls, Return(c), UNCHANGED <<token, request>>
  PROVE  /\ pc' = [pc EXCEPT ![c] = "done"]
         /\ DOMAIN routes' \subseteq DOMAIN routes
         /\ \A t \in DOMAIN routes' : routes'[t] = routes[t] /\ routes[t] # c
         /\ Routes' /\ DOMAIN routes' \subseteq Nat
         /\ \A t \in DOMAIN routes' : routes'[t] \in Calls
         /\ UNCHANGED runs => SentOnce'
<1>1. pc' = [pc EXCEPT ![c] = "done"] /\ routes' = RoutesAfter(c) BY DEF Return, Goto
<1>2. /\ DOMAIN routes' \subseteq DOMAIN routes
      /\ \A t \in DOMAIN routes' : routes'[t] = routes[t]
      /\ HasRoute(c) => token[c] \notin DOMAIN routes'
  BY <1>1 DEF RoutesAfter
<1>3. ASSUME NEW t \in DOMAIN routes' PROVE routes[t] # c
  BY <1>2, <1>3 DEF IInv, Routes, HasRoute
<1>4. Routes' BY <1>1, <1>2, <1>3 DEF IInv, Routes, TypeOK
<1>5. DOMAIN routes' \subseteq Nat /\ \A t \in DOMAIN routes' : routes'[t] \in Calls
  BY <1>2 DEF IInv, TypeOK
<1>6. \A d \in ToolCalls : pc'[d] = pc[d] \/ pc'[d] = "done" BY <1>1 DEF IInv, TypeOK, Calls
<1>7. UNCHANGED runs => SentOnce' BY <1>6 DEF IInv, SentOnce
<1> QED BY <1>1, <1>2, <1>3, <1>4, <1>5, <1>7

(* Its variables keep their types.                                           *)
LEMMA ReturnedTypes ==
  ASSUME IInv, NEW c \in Calls, Return(c), UNCHANGED <<token, request, runs>>,
         UNCHANGED <<retried, gen, slot, next, service, tokens, closed, shut>>,
         owner' \in Calls \cup {NoCall}, pc' \in [Calls -> Stages],
         \A d \in Calls : owner' = d <=> pc'[d] = "start"
  PROVE  TypeOK'
<1>1. DOMAIN routes' \subseteq Nat /\ \A t \in DOMAIN routes' : routes'[t] \in Calls
  BY Returned
<1> QED BY <1>1 DEF IInv, TypeOK

(* It uses no session any more.                                              *)
LEMMA ReturnedUses ==
  ASSUME IInv, NEW c \in Calls, pc' = [pc EXCEPT ![c] = "done"], UNCHANGED <<gen, next, service>>
  PROVE  Uses'
<1> SUFFICES ASSUME NEW d \in Calls
             PROVE  /\ gen[d] < next
                    /\ pc'[d] \in {"retry", "fail"} => service[gen[d]] = "gone"
                    /\ pc'[d] = "route" => d \in ToolCalls
  BY DEF Uses
<1>1. pc'[d] \in {pc[d], "done"} BY DEF IInv, TypeOK
<1> QED BY <1>1 DEF IInv, Uses

(* A call begins, takes a permit and then the peer of the live session.      *)
LEMMA BeginStep ==
  ASSUME IInv, NEW c \in Calls, Begin(c) PROVE IInv'
<1> USE McpClientAssumption
<1>1. TypeOK' BY DEF Begin, Goto, IInv, TypeOK
<1>2. SentOnce' BY DEF Begin, Goto, IInv, SentOnce, TypeOK, Calls
<1>3. Sessions' BY DEF Begin, Goto, IInv, Sessions, TypeOK
<1>4. Uses' BY DEF Begin, Goto, IInv, Uses, TypeOK, Sessions, SentOnce
<1>5. Routes' BY DEF Begin, Goto, IInv, Routes, TypeOK, SentOnce
<1> QED BY <1>1, <1>2, <1>3, <1>4, <1>5 DEF IInv

(* A call takes a permit: nothing of a session changes.                     *)
LEMMA AcquirePermitStep ==
  ASSUME IInv, NEW c \in Calls, AcquirePermit(c) PROVE IInv'
<1> USE McpClientAssumption
<1>1. TypeOK' BY DEF AcquirePermit, Goto, IInv, TypeOK
<1>2. SentOnce' BY DEF AcquirePermit, Goto, IInv, SentOnce, TypeOK, Calls
<1>3. Sessions' BY DEF AcquirePermit, Goto, IInv, Sessions, TypeOK
<1>4. Uses' BY DEF AcquirePermit, Goto, IInv, Uses, TypeOK, Sessions, SentOnce
<1>5. Routes' BY DEF AcquirePermit, Goto, IInv, Routes, TypeOK, SentOnce
<1> QED BY <1>1, <1>2, <1>3, <1>4, <1>5 DEF IInv

(* A call takes the live session as its own.                                *)
LEMMA UsePeerStep ==
  ASSUME IInv, NEW c \in Calls, UsePeer(c) PROVE IInv'
<1> USE McpClientAssumption
<1>1. TypeOK' BY DEF UsePeer, PeerOf, Goto, Live, IInv, TypeOK
<1>2. SentOnce' BY DEF UsePeer, PeerOf, Goto, Live, IInv, SentOnce, TypeOK, Calls
<1>3. Sessions' BY DEF UsePeer, PeerOf, Goto, Live, IInv, Sessions, TypeOK
<1>4. Uses' BY DEF UsePeer, PeerOf, Goto, Live, IInv, Uses, TypeOK, Sessions, SentOnce
<1>5. Routes' BY DEF UsePeer, PeerOf, Goto, Live, IInv, Routes, TypeOK, SentOnce
<1> QED BY <1>1, <1>2, <1>3, <1>4, <1>5 DEF IInv

(* A call that finds the client closed returns.                             *)
LEMMA ClientClosedStep ==
  ASSUME IInv, NEW c \in Calls, ClientClosed(c) PROVE IInv'
<1> USE McpClientAssumption
<1>0. Return(c) /\ UNCHANGED <<token, request, runs>> BY DEF ClientClosed
<1>1. TypeOK'
  <2>1. pc' = [pc EXCEPT ![c] = "done"] BY <1>0, Returned
  <2>2. \A d \in Calls : owner' = d <=> pc'[d] = "start"
    BY <2>1 DEF ClientClosed, IInv, TypeOK
  <2>3. owner' \in Calls \cup {NoCall} /\ pc' \in [Calls -> Stages]
    BY <2>1 DEF ClientClosed, IInv, TypeOK
  <2>4. UNCHANGED <<retried, gen, token, request, runs, slot, next, service, tokens, closed, shut>>
    BY DEF ClientClosed
  <2> QED BY <1>0, <2>2, <2>3, <2>4, ReturnedTypes
<1>2. SentOnce' BY <1>0, Returned
<1>3. Sessions' BY <1>0, Returned DEF ClientClosed, IInv, Sessions, TypeOK
<1>4. Uses'
  <2>1. pc' = [pc EXCEPT ![c] = "done"] BY <1>0, Returned
  <2>2. UNCHANGED <<gen, next, service>> BY DEF ClientClosed
  <2> QED BY <2>1, <2>2, ReturnedUses
<1>5. Routes' BY <1>0, Returned
<1> QED BY <1>1, <1>2, <1>3, <1>4, <1>5 DEF IInv

(* It starts the server again, with the session mutex held.                  *)
LEMMA StartAgainStep ==
  ASSUME IInv, NEW c \in Calls, StartAgain(c) PROVE IInv'
<1> USE McpClientAssumption
<1>1. TypeOK' BY DEF StartAgain, MayStart, Live, Goto, IInv, TypeOK
<1>2. SentOnce' BY DEF StartAgain, MayStart, Live, Goto, IInv, SentOnce, TypeOK, Calls
<1>3. Sessions' BY DEF StartAgain, MayStart, Live, Goto, IInv, Sessions, TypeOK
<1>4. Uses' BY DEF StartAgain, MayStart, Live, Goto, IInv, Uses, TypeOK, Sessions, SentOnce
<1>5. Routes' BY DEF StartAgain, MayStart, Live, Goto, IInv, Routes, TypeOK, SentOnce
<1> QED BY <1>1, <1>2, <1>3, <1>4, <1>5 DEF IInv

(* The started session is the next one, alone in the slot.                  *)
LEMMA StartOkStep ==
  ASSUME IInv, NEW c \in Calls, StartOk(c) PROVE IInv'
<1> USE McpClientAssumption
<1>1. TypeOK' BY SMTT(30) DEF StartOk, PeerOf, Goto, IInv, TypeOK
<1>2. SentOnce' BY DEF StartOk, PeerOf, Goto, IInv, SentOnce, TypeOK, Calls
<1>3. Sessions' BY DEF StartOk, PeerOf, Goto, IInv, Sessions, TypeOK
<1>4. Uses' BY DEF StartOk, PeerOf, Goto, IInv, Uses, TypeOK, Sessions, SentOnce
<1>5. Routes' BY DEF StartOk, PeerOf, Goto, IInv, Routes, TypeOK, SentOnce
<1> QED BY <1>1, <1>2, <1>3, <1>4, <1>5 DEF IInv

(* A start that fails leaves the slot empty.                                *)
LEMMA StartFailsStep ==
  ASSUME IInv, NEW c \in Calls, StartFails(c) PROVE IInv'
<1> USE McpClientAssumption
<1>0. Return(c) /\ UNCHANGED <<token, request, runs>> BY DEF StartFails
<1>1. TypeOK'
  <2>1. pc' = [pc EXCEPT ![c] = "done"] BY <1>0, Returned
  <2>2. \A d \in Calls : owner' = d <=> pc'[d] = "start"
    BY <2>1 DEF StartFails, IInv, TypeOK
  <2>3. owner' \in Calls \cup {NoCall} /\ pc' \in [Calls -> Stages]
    BY <2>1 DEF StartFails, IInv, TypeOK
  <2>4. UNCHANGED <<retried, gen, token, request, runs, slot, next, service, tokens, closed, shut>>
    BY DEF StartFails
  <2> QED BY <1>0, <2>2, <2>3, <2>4, ReturnedTypes
<1>2. SentOnce' BY <1>0, Returned
<1>3. Sessions' BY <1>0, Returned DEF StartFails, IInv, Sessions, TypeOK
<1>4. Uses'
  <2>1. pc' = [pc EXCEPT ![c] = "done"] BY <1>0, Returned
  <2>2. UNCHANGED <<gen, next, service>> BY DEF StartFails
  <2> QED BY <2>1, <2>2, ReturnedUses
<1>5. Routes' BY <1>0, Returned
<1> QED BY <1>1, <1>2, <1>3, <1>4, <1>5 DEF IInv

(* It sends its request, or fails to; a tool call adds its progress route.   *)
LEMMA SendStep ==
  ASSUME IInv, NEW c \in Calls, Send(c) PROVE IInv'
<1> USE McpClientAssumption
<1>1. TypeOK'
  <2>1. /\ request' \in [Calls -> {"none", "queued", "run"}]
        /\ pc' \in [Calls -> Stages] /\ \A d \in Calls : owner = d <=> pc'[d] = "start"
    BY DEF Send, Goto, IInv, TypeOK
  <2>2. gen[c] \in Gens /\ tokens[gen[c]] \in Nat /\ tokens[gen[c]] + 1 \in Nat
    BY DEF IInv, TypeOK
  <2>3. token' \in [Calls -> Nat] /\ tokens' \in [Gens -> Nat]
    BY <2>2 DEF Send, IInv, TypeOK
  <2> QED BY <2>1, <2>3 DEF Send, IInv, TypeOK
<1>2. SentOnce' BY DEF Send, Goto, IInv, SentOnce, TypeOK, Calls
<1>3. Sessions' BY DEF Send, Goto, IInv, Sessions, TypeOK
<1>4. Uses' BY DEF Send, Goto, IInv, Uses, TypeOK, Sessions, SentOnce
<1>5. Routes' BY DEF Send, Goto, IInv, Routes, TypeOK, SentOnce
<1> QED BY <1>1, <1>2, <1>3, <1>4, <1>5 DEF IInv

(* A request that never left keeps its call unsent.                         *)
LEMMA SendFailsStep ==
  ASSUME IInv, NEW c \in Calls, SendFails(c) PROVE IInv'
<1> USE McpClientAssumption
<1>1. TypeOK' BY DEF SendFails, Goto, IInv, TypeOK
<1>2. SentOnce' BY DEF SendFails, Goto, IInv, SentOnce, TypeOK, Calls
<1>3. Sessions' BY DEF SendFails, Goto, IInv, Sessions, TypeOK
<1>4. Uses' BY DEF SendFails, Goto, IInv, Uses, TypeOK, Sessions, SentOnce
<1>5. Routes' BY DEF SendFails, Goto, IInv, Routes, TypeOK, SentOnce
<1> QED BY <1>1, <1>2, <1>3, <1>4, <1>5 DEF IInv

(* The route of a tool call is added under its token.                       *)
LEMMA AddRouteStep ==
  ASSUME IInv, NEW c \in Calls, AddRoute(c) PROVE IInv'
<1> USE McpClientAssumption
<1>1. TypeOK' BY DEF AddRoute, Goto, IInv, TypeOK
<1>2. SentOnce' BY DEF AddRoute, Goto, IInv, SentOnce, TypeOK, Calls
<1>3. Sessions' BY DEF AddRoute, Goto, IInv, Sessions, TypeOK
<1>4. Uses' BY DEF AddRoute, Goto, IInv, Uses, TypeOK, Sessions, SentOnce
<1>5. Routes'
  <2>1. pc[c] = "route" /\ c \in ToolCalls /\ request[c] # "none"
    BY DEF AddRoute, IInv, SentOnce, Uses, TypeOK
  <2> QED BY <2>1, SMTT(30) DEF AddRoute, Goto, IInv, Routes, TypeOK
<1> QED BY <1>1, <1>2, <1>3, <1>4, <1>5 DEF IInv

(* The answer comes, the connection is lost, or the call gives up.           *)
LEMMA AnsweredStep ==
  ASSUME IInv, NEW c \in Calls, Answered(c) PROVE IInv'
<1> USE McpClientAssumption
<1>0. Return(c) /\ UNCHANGED <<token, request, runs>> BY DEF Answered
<1>1. TypeOK'
  <2>1. pc' = [pc EXCEPT ![c] = "done"] BY <1>0, Returned
  <2>2. \A d \in Calls : owner' = d <=> pc'[d] = "start"
    BY <2>1 DEF Answered, IInv, TypeOK
  <2>3. owner' \in Calls \cup {NoCall} /\ pc' \in [Calls -> Stages]
    BY <2>1 DEF Answered, IInv, TypeOK
  <2>4. UNCHANGED <<retried, gen, token, request, runs, slot, next, service, tokens, closed, shut>>
    BY DEF Answered
  <2> QED BY <1>0, <2>2, <2>3, <2>4, ReturnedTypes
<1>2. SentOnce' BY <1>0, Returned
<1>3. Sessions' BY <1>0, Returned DEF Answered, IInv, Sessions, TypeOK
<1>4. Uses'
  <2>1. pc' = [pc EXCEPT ![c] = "done"] BY <1>0, Returned
  <2>2. UNCHANGED <<gen, next, service>> BY DEF Answered
  <2> QED BY <2>1, <2>2, ReturnedUses
<1>5. Routes' BY <1>0, Returned
<1> QED BY <1>1, <1>2, <1>3, <1>4, <1>5 DEF IInv

(* An answer is lost with its session, which is over.                       *)
LEMMA ConnectionLostStep ==
  ASSUME IInv, NEW c \in Calls, ConnectionLost(c) PROVE IInv'
<1> USE McpClientAssumption
<1>1. TypeOK' BY DEF ConnectionLost, MayRepeat, Goto, IInv, TypeOK
<1>2. SentOnce' BY DEF ConnectionLost, MayRepeat, Goto, IInv, SentOnce, TypeOK, Calls
<1>3. Sessions' BY DEF ConnectionLost, MayRepeat, Goto, IInv, Sessions, TypeOK
<1>4. Uses' BY DEF ConnectionLost, MayRepeat, Goto, IInv, Uses, TypeOK, Sessions, SentOnce
<1>5. Routes' BY DEF ConnectionLost, MayRepeat, Goto, IInv, Routes, TypeOK, SentOnce
<1> QED BY <1>1, <1>2, <1>3, <1>4, <1>5 DEF IInv

(* A call that gives up takes its start and its route with it.              *)
LEMMA GiveUpStep ==
  ASSUME IInv, NEW c \in Calls, GiveUp(c) PROVE IInv'
<1> USE McpClientAssumption
<1>0. Return(c) /\ UNCHANGED <<token, request, runs>> BY DEF GiveUp, Bounded, Released
<1>1. TypeOK'
  <2>1. pc' = [pc EXCEPT ![c] = "done"] BY <1>0, Returned
  <2>2. \A d \in Calls : owner' = d <=> pc'[d] = "start"
    BY <2>1 DEF GiveUp, Bounded, Released, IInv, TypeOK
  <2>3. owner' \in Calls \cup {NoCall} /\ pc' \in [Calls -> Stages]
    BY <2>1 DEF GiveUp, Bounded, Released, IInv, TypeOK
  <2>4. UNCHANGED <<retried, gen, token, request, runs, slot, next, service, tokens, closed, shut>>
    BY DEF GiveUp, Bounded, Released
  <2> QED BY <1>0, <2>2, <2>3, <2>4, ReturnedTypes
<1>2. SentOnce' BY <1>0, Returned
<1>3. Sessions' BY <1>0, Returned DEF GiveUp, Bounded, Released, IInv, Sessions, TypeOK
<1>4. Uses'
  <2>1. pc' = [pc EXCEPT ![c] = "done"] BY <1>0, Returned
  <2>2. UNCHANGED <<gen, next, service>> BY DEF GiveUp
  <2> QED BY <2>1, <2>2, ReturnedUses
<1>5. Routes' BY <1>0, Returned
<1> QED BY <1>1, <1>2, <1>3, <1>4, <1>5 DEF IInv

(* reset_session: the failed session is gone already, so nothing is lost.    *)
LEMMA ResetStep ==
  ASSUME IInv, NEW c \in Calls, Reset(c) \/ ResetTimesOut(c) PROVE IInv'
<1> USE McpClientAssumption
<1>1. pc[c] \in {"retry", "fail"} /\ UNCHANGED <<retried, gen, token, request, runs, owner, next,
                                                tokens, closed, shut>>
  BY DEF Reset, ResetTimesOut
<1>2. service[gen[c]] = "gone" /\ gen[c] \in Gens BY <1>1 DEF IInv, Uses, TypeOK
<1>3. service' = service
  BY <1>2 DEF Reset, ResetTimesOut, IsFailed, Dropped, IInv, TypeOK
<1>4. slot' \in {slot, None} /\ (slot' # slot => owner = NoCall /\ service[slot] = "gone")
  BY <1>2 DEF Reset, ResetTimesOut, IsFailed
<1>5. /\ pc' = [pc EXCEPT ![c] = IF pc[c] = "retry" THEN "peer" ELSE "done"]
      /\ DOMAIN routes' \subseteq Nat /\ (\A t \in DOMAIN routes' : routes'[t] \in Calls)
      /\ Routes'
  <2>1. CASE pc[c] = "retry"
    <3>1. pc' = [pc EXCEPT ![c] = "peer"] /\ routes' = routes
      BY <2>1 DEF Reset, ResetTimesOut, AfterReset, Goto
    <3>2. Routes' BY <1>1, <2>1, <3>1 DEF IInv, Routes, TypeOK
    <3> QED BY <2>1, <3>1, <3>2 DEF IInv, TypeOK
  <2>2. CASE pc[c] # "retry"
    <3>1. Return(c) BY <2>2 DEF Reset, ResetTimesOut, AfterReset
    <3> QED BY <1>1, <2>2, <3>1, Returned DEF IInv, TypeOK
  <2> QED BY <2>1, <2>2
<1>6. TypeOK' BY <1>1, <1>3, <1>4, <1>5 DEF IInv, TypeOK
<1>7. SentOnce' BY <1>1, <1>5 DEF IInv, SentOnce, TypeOK, Calls
<1>8. Sessions' BY <1>1, <1>3, <1>4 DEF IInv, Sessions, TypeOK
<1>9. Uses' BY <1>1, <1>3, <1>5 DEF IInv, Uses, TypeOK
<1> QED BY <1>5, <1>6, <1>7, <1>8, <1>9 DEF IInv

(* shutdown(), the server and rmcp's service.                                *)
LEMMA ShutdownStep ==
  ASSUME IInv, Shutdown PROVE IInv'
<1> USE McpClientAssumption
<1>1. TypeOK' BY DEF Shutdown, IInv, TypeOK
<1>2. SentOnce' BY DEF Shutdown, IInv, SentOnce, TypeOK, Calls
<1>3. Sessions' BY DEF Shutdown, IInv, Sessions, TypeOK
<1>4. Uses' BY DEF Shutdown, IInv, Uses, TypeOK, Sessions, SentOnce
<1>5. Routes' BY DEF Shutdown, IInv, Routes, TypeOK, SentOnce
<1> QED BY <1>1, <1>2, <1>3, <1>4, <1>5 DEF IInv

(* shutdown() empties the slot and drops the session.                       *)
LEMMA TakeSessionStep ==
  ASSUME IInv, TakeSession PROVE IInv'
<1> USE McpClientAssumption
<1>1. TypeOK' BY DEF TakeSession, Dropped, IInv, TypeOK
<1>2. SentOnce' BY DEF TakeSession, Dropped, IInv, SentOnce, TypeOK, Calls
<1>3. Sessions' BY DEF TakeSession, Dropped, IInv, Sessions, TypeOK
<1>4. Uses' BY DEF TakeSession, Dropped, IInv, Uses, TypeOK, Sessions, SentOnce
<1>5. Routes' BY DEF TakeSession, Dropped, IInv, Routes, TypeOK, SentOnce
<1> QED BY <1>1, <1>2, <1>3, <1>4, <1>5 DEF IInv

(* The server runs a queued request, once.                                  *)
LEMMA RunStep ==
  ASSUME IInv, NEW c \in Calls, Run(c) PROVE IInv'
<1> USE McpClientAssumption
<1>1. TypeOK' BY SMTT(30) DEF Run, IInv, TypeOK
<1>2. SentOnce' BY SMTT(30) DEF Run, IInv, SentOnce, TypeOK, Calls
<1>3. Sessions' BY DEF Run, IInv, Sessions, TypeOK
<1>4. Uses' BY DEF Run, IInv, Uses, TypeOK, Sessions, SentOnce
<1>5. Routes' BY DEF Run, IInv, Routes, TypeOK, SentOnce
<1> QED BY <1>1, <1>2, <1>3, <1>4, <1>5 DEF IInv

(* The server dies: the session in the slot is closing.                     *)
LEMMA ServerDiesStep ==
  ASSUME IInv, NEW g \in Gens, ServerDies(g) PROVE IInv'
<1> USE McpClientAssumption
<1>1. TypeOK' BY DEF ServerDies, IInv, TypeOK
<1>2. SentOnce' BY DEF ServerDies, IInv, SentOnce, TypeOK, Calls
<1>3. Sessions' BY DEF ServerDies, IInv, Sessions, TypeOK
<1>4. Uses' BY DEF ServerDies, IInv, Uses, TypeOK, Sessions, SentOnce
<1>5. Routes' BY DEF ServerDies, IInv, Routes, TypeOK, SentOnce
<1> QED BY <1>1, <1>2, <1>3, <1>4, <1>5 DEF IInv

(* The service of a dead server ends.                                       *)
LEMMA ServiceEndsStep ==
  ASSUME IInv, NEW g \in Gens, ServiceEnds(g) PROVE IInv'
<1> USE McpClientAssumption
<1>1. TypeOK' BY DEF ServiceEnds, IInv, TypeOK
<1>2. SentOnce' BY DEF ServiceEnds, IInv, SentOnce, TypeOK, Calls
<1>3. Sessions' BY DEF ServiceEnds, IInv, Sessions, TypeOK
<1>4. Uses' BY DEF ServiceEnds, IInv, Uses, TypeOK, Sessions, SentOnce
<1>5. Routes' BY DEF ServiceEnds, IInv, Routes, TypeOK, SentOnce
<1> QED BY <1>1, <1>2, <1>3, <1>4, <1>5 DEF IInv

(* Every step keeps the invariant.                                           *)
LEMMA StepIInv == IInv /\ [Next]_vars => IInv'
<1> SUFFICES ASSUME IInv, [Next]_vars PROVE IInv' OBVIOUS
<1>1. ASSUME NEW c \in Calls, CallStep(c) PROVE IInv'
  BY <1>1, AcquirePermitStep, UsePeerStep, StartAgainStep, ClientClosedStep, SendStep, SendFailsStep,
     AddRouteStep, AnsweredStep, ConnectionLostStep, ResetStep, GiveUpStep DEF CallStep
<1>2. CASE UNCHANGED vars BY <1>2 DEF vars, IInv, TypeOK, SentOnce, Sessions, Uses, Routes
<1> QED BY <1>1, <1>2, BeginStep, StartOkStep, StartFailsStep, RunStep, ServerDiesStep,
           ServiceEndsStep, ShutdownStep, TakeSessionStep DEF Next

-----------------------------------------------------------------------------
(* What a reader should know of.                                             *)

(* The inductive invariant holds in every reachable state.                   *)
THEOREM Invariance == Spec => []IInv
BY InitIInv, StepIInv, PTL DEF Spec

(* Type correctness; the session mutex is held by a call that starts the     *)
(* server, and by no other.                                                  *)
THEOREM TypeCorrect == Spec => []TypeOK
<1>1. IInv => TypeOK BY DEF IInv
<1> QED BY <1>1, Invariance, PTL

(* However often servers die and are started again, and whoever retries, no  *)
(* tool call is run twice.                                                   *)
THEOREM RunAtMostOnceAlways == Spec => []RunAtMostOnce
<1>1. ASSUME IInv, NEW c \in ToolCalls PROVE runs[c] <= 1
  <2>1. runs[c] \in {0, 1} BY <1>1 DEF IInv, SentOnce
  <2> QED BY <2>1
<1>2. IInv => RunAtMostOnce BY <1>1 DEF RunAtMostOnce
<1> QED BY <1>2, Invariance, PTL

(* No server runs beside the one of the session in place, and none after     *)
(* shutdown() has returned.                                                  *)
THEOREM NoStrayServerAlways == Spec => []NoStrayServer
<1>1. IInv => NoStrayServer
  BY McpClientAssumption DEF IInv, Sessions, NoStrayServer, TypeOK
<1> QED BY <1>1, Invariance, PTL

(* The progress route of a call goes when the call returns, though tokens    *)
(* start over with each session.                                             *)
THEOREM ProgressClosesAlways == Spec => []ProgressCloses
<1>1. IInv => ProgressCloses BY DEF IInv, Routes, ProgressCloses
<1> QED BY <1>1, Invariance, PTL

(* A call that resets the session it saw fail never takes a live one from    *)
(* the others: a session goes when it is over, or with the client.           *)
THEOREM LiveSessionKeptAlways == Spec => LiveSessionKept
<1>1. ASSUME IInv, Next PROVE slot # None /\ slot' # slot => service[slot] = "gone" \/ closed
  <2>1. ASSUME NEW c \in Calls, StartOk(c) PROVE slot = None
    <3>1. owner = c /\ c # NoCall BY <1>1, <2>1, McpClientAssumption DEF StartOk, IInv, TypeOK
    <3> QED BY <1>1, <3>1 DEF IInv, Sessions
  <2>2. ASSUME NEW c \in Calls, StartAgain(c) PROVE slot = None \/ service[slot] = "gone"
    BY <2>2 DEF StartAgain, Live
  <2>3. ASSUME NEW c \in Calls, Reset(c) PROVE slot' = slot \/ service[slot] = "gone"
    BY <1>1, <2>3 DEF Reset, IsFailed, IInv, Uses
  <2>4. ASSUME TakeSession PROVE closed
    BY <1>1, <2>4 DEF TakeSession, IInv, Sessions
  <2>5. ASSUME NEW c \in Calls,
               \/ Begin(c) \/ AcquirePermit(c) \/ UsePeer(c) \/ ClientClosed(c) \/ StartFails(c)
               \/ Send(c) \/ SendFails(c) \/ AddRoute(c) \/ Answered(c) \/ ConnectionLost(c)
               \/ ResetTimesOut(c) \/ GiveUp(c) \/ Run(c)
        PROVE  slot' = slot
    BY <2>5 DEF Begin, AcquirePermit, UsePeer, ClientClosed, StartFails, Send, SendFails, AddRoute,
                Answered, ConnectionLost, ResetTimesOut, GiveUp, Run, sessionVars
  <2>6. ASSUME NEW g \in Gens, ServerDies(g) \/ ServiceEnds(g) PROVE slot' = slot
    BY <2>6 DEF ServerDies, ServiceEnds
  <2>7. Shutdown => slot' = slot BY DEF Shutdown
  <2> QED BY <1>1, <2>1, <2>2, <2>3, <2>4, <2>5, <2>6, <2>7 DEF Next, CallStep
<1>2. IInv /\ [Next]_vars => [slot # None /\ slot' # slot => service[slot] = "gone" \/ closed]_vars
  BY <1>1
<1> QED BY <1>2, Invariance, PTL DEF Spec, LiveSessionKept
=============================================================================
