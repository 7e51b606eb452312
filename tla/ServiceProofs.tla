---------------------------- MODULE ServiceProofs ----------------------------
(***************************************************************************)
(* Proofs about SidecarService: however many requests and restarts there   *)
(* are, a call of the node returns its own answer or an error, and only    *)
(* cancelled requests leave a goroutine without its handler.               *)
(***************************************************************************)
EXTENDS SidecarService, TLAPS

(***************************************************************************)
(* What is true of a request at any time: its goroutine holds the answer   *)
(* to it and to no other, there is no goroutine before there is a handler, *)
(* and one without its handler was cancelled.                              *)
(***************************************************************************)
IsOwn(r, x) ==
  /\ x.found \in {Error, r}
  /\ x.handler = "none" => x.worker = "none"
  /\ x.worker \in {"query", "send"} => x.handler = "select" \/ x.done

IInv ==
  /\ TypeOK
  /\ \A r \in Requests : IsOwn(r, req[r])
  /\ AnswersAreOwn

(* A step that changes requests, and at most the process with them.        *)
LEMMA RequestsStep ==
  ASSUME IInv, UNCHANGED <<node, call, result, issued>>,
         server' \in {"up", "closing", "draining", "failed", "down"},
         sidecar' \in {"starting", "running", "stopped"}, restarts' \in 0..MaxRestarts,
         req' = [r \in Requests |-> req'[r]],
         \A r \in Requests : req'[r] \in Request /\ IsOwn(r, req'[r])
  PROVE  IInv'
<1>1. req' \in [Requests -> Request]
  OBVIOUS
<1>2. TypeOK'
  BY <1>1 DEF IInv, TypeOK, node
<1> QED
  BY <1>2 DEF IInv, AnswersAreOwn, node

(* A step that changes one request only.                                   *)
LEMMA OneRequestStep ==
  ASSUME IInv, UNCHANGED <<node, call, result, issued, process>>, NEW r \in Requests,
         NEW x \in Request, IsOwn(r, x), req' = [req EXCEPT ![r] = x]
  PROVE  IInv'
<1>1. req \in [Requests -> Request]
  BY DEF IInv, TypeOK
<1>2. /\ req' = [q \in Requests |-> req'[q]]
      /\ \A q \in Requests : req'[q] = IF q = r THEN x ELSE req[q]
  BY <1>1, Zenon
<1>3. \A q \in Requests : req'[q] \in Request /\ IsOwn(q, req'[q])
  BY <1>1, <1>2 DEF IInv
<1>4. /\ server' \in {"up", "closing", "draining", "failed", "down"}
      /\ sidecar' \in {"starting", "running", "stopped"} /\ restarts' \in 0..MaxRestarts
  BY DEF IInv, TypeOK, process
<1> QED
  BY <1>2, <1>3, <1>4, RequestsStep

(* No request was made yet.                                                *)
LEMMA InitIInv == Init => IInv
BY ServiceAssumption
DEF Init, IInv, IsOwn, TypeOK, AnswersAreOwn, Request, NoRequest, NoResult, Requests, Error

(* The end of the process leaves requests of their type.                   *)
LEMMA AbandonedRequests ==
  ASSUME IInv
  PROVE  /\ Abandoned = [r \in Requests |-> Abandoned[r]]
         /\ \A r \in Requests :
              Abandoned[r] \in Request /\ IsOwn(r, Abandoned[r])
<1>1. Abandoned = [r \in Requests |-> Abandoned[r]]
  BY DEF Abandoned
<1>2. ASSUME NEW r \in Requests
      PROVE  Abandoned[r] \in Request /\ IsOwn(r, Abandoned[r])
  <2>1. req[r] \in Request /\ IsOwn(r, req[r])
    BY DEF IInv, TypeOK
  <2>2. PICK h, w : /\ h = IF req[r].handler = "select" THEN "lost" ELSE req[r].handler
                    /\ w = IF req[r].worker = "none" THEN req[r].worker ELSE "done"
    OBVIOUS
  <2>3. PICK x : x = [req[r] EXCEPT !.handler = h, !.worker = w]
    OBVIOUS
  <2>4. Abandoned[r] = x
    BY <2>2, <2>3, Zenon DEF Abandoned
  <2>5. /\ h \in {"none", "select", "answered", "failed", "lost"}
        /\ w \in {"none", "query", "send", "done"}
    BY <2>1, <2>2 DEF Request
  <2>6. x \in Request /\ x.handler = h /\ x.worker = w /\ x.found = req[r].found
    BY ONLY <2>1, <2>3, <2>5, Zenon DEF Request
  <2> QED
    BY ONLY <2>1, <2>2, <2>4, <2>6 DEF IsOwn
<1> QED
  BY <1>1, <1>2

(* Every step keeps the invariant.                                         *)
LEMMA NextIInv == IInv /\ [Next]_vars => IInv'
<1> SUFFICES ASSUME IInv, [Next]_vars PROVE IInv'
  OBVIOUS
<1> USE ServiceAssumption DEF IInv, TypeOK, AnswersAreOwn, Requests, Error
<1>1. CASE StartClient
  BY <1>1, Zenon DEF StartClient, process
<1>2. CASE GetBlockEvents
  BY <1>2 DEF GetBlockEvents, Issue, NoResult, node, process
<1>3. CASE CallFails
  BY <1>3 DEF CallFails, Return, node, process
<1>4. CASE Receive
  BY <1>4 DEF IsOwn, Receive, Return, node, process
<1>5. CASE Close
  BY <1>5 DEF Close, process
<1>6. CASE StopClient
  BY <1>6 DEF StopClient, process
<1>7. CASE OtherRequest
  BY <1>7 DEF OtherRequest, Issue, node, process
<1>8. ASSUME NEW r \in Requests, Handle(r) PROVE IInv'
  <2>1. req \in [Requests -> Request] /\ req[r] \in Request
    OBVIOUS
  <2>2. ASSUME NEW x, x = [req[r] EXCEPT !.handler = "failed"]
                        \/ x = [req[r] EXCEPT !.handler = "select", !.worker = "query"]
        PROVE  x \in Request /\ IsOwn(r, x)
    <3>1. /\ x \in Request /\ x.found = req[r].found
          /\ \/ x.handler = "failed" /\ x.worker = req[r].worker
             \/ x.handler = "select" /\ x.worker = "query"
      BY ONLY <2>1, <2>2, Zenon DEF Request
    <3>2. req[r].handler = "none" /\ IsOwn(r, req[r])
      BY <1>8 DEF Handle
    <3> QED
      BY ONLY <3>1, <3>2 DEF IsOwn
  <2>3. UNCHANGED <<node, call, result, issued, process>>
    BY <1>8 DEF Handle
  <2>4. \/ req' = [req EXCEPT ![r] = [req[r] EXCEPT !.handler = "failed"]]
        \/ req' = [req EXCEPT ![r] = [req[r] EXCEPT !.handler = "select", !.worker = "query"]]
    BY <1>8, <2>1, Zenon DEF Handle, Request
  <2> QED
    BY <2>2, <2>3, <2>4, OneRequestStep
<1>9. ASSUME NEW r \in Requests, QueryBlockEvents(r) PROVE IInv'
  <2>1. req \in [Requests -> Request] /\ req[r] \in Request
    OBVIOUS
  <2>2. PICK found \in {Error, r} :
          req' = [req EXCEPT ![r] = [req[r] EXCEPT !.worker = "send", !.found = found]]
    BY <1>9, <2>1, ZenonT(30) DEF QueryBlockEvents, Request
  <2> DEFINE x == [req[r] EXCEPT !.worker = "send", !.found = found]
  <2>3. x \in Request /\ IsOwn(r, x)
    <3>1. found \in 0..MaxRequests
      OBVIOUS
    <3>2. x \in Request
      BY ONLY <2>1, <3>1, Zenon DEF Request
    <3>3. /\ x.found = found /\ x.worker = "send" /\ x.done = req[r].done
          /\ x.handler = req[r].handler
      BY ONLY <2>1, Zenon DEF Request
    <3>4. IsOwn(r, req[r]) /\ req[r].worker = "query"
      BY <1>9 DEF QueryBlockEvents
    <3> QED
      BY ONLY <2>2, <3>2, <3>3, <3>4 DEF IsOwn
  <2>4. UNCHANGED <<node, call, result, issued, process>>
    BY <1>9 DEF QueryBlockEvents
  <2> QED
    BY <2>2, <2>3, <2>4, OneRequestStep, Zenon
<1>10. ASSUME NEW r \in Requests, Answer(r) PROVE IInv'
  <2> DEFINE x == [req[r] EXCEPT !.worker = "done", !.handler = "answered"]
  <2>1. req \in [Requests -> Request] /\ req[r] \in Request
    OBVIOUS
  <2>2. x \in Request /\ IsOwn(r, x)
    <3>1. /\ x \in Request /\ x.found = req[r].found /\ x.handler = "answered" /\ x.worker = "done"
      BY ONLY <2>1, Zenon DEF Request
    <3>2. IsOwn(r, req[r])
      BY <1>10 DEF Answer
    <3> QED
      BY ONLY <3>1, <3>2 DEF IsOwn
  <2>3. req' = [req EXCEPT ![r] = x] /\ UNCHANGED <<node, call, result, issued, process>>
    BY <1>10, <2>1, ZenonT(30) DEF Answer, Request
  <2> QED
    BY <2>2, <2>3, OneRequestStep, Zenon
<1>11. ASSUME NEW r \in Requests, ContextDone(r) PROVE IInv'
  <2> DEFINE x == [req[r] EXCEPT !.done = TRUE]
  <2>1. req \in [Requests -> Request] /\ req[r] \in Request
    OBVIOUS
  <2>2. x \in Request /\ IsOwn(r, x)
    <3>1. /\ x \in Request /\ x.found = req[r].found /\ x.handler = req[r].handler
          /\ x.worker = req[r].worker /\ x.done
      BY ONLY <2>1, Zenon DEF Request
    <3>2. IsOwn(r, req[r])
      BY <1>11 DEF ContextDone
    <3> QED
      BY ONLY <3>1, <3>2 DEF IsOwn
  <2>3. req' = [req EXCEPT ![r] = x] /\ UNCHANGED <<node, call, result, issued, process>>
    BY <1>11, <2>1 DEF ContextDone, Request
  <2> QED
    BY <2>2, <2>3, OneRequestStep, Zenon
<1>12. ASSUME NEW r \in Requests, HandlerCancelled(r) PROVE IInv'
  <2> DEFINE x == [req[r] EXCEPT !.handler = "failed"]
  <2>1. req \in [Requests -> Request] /\ req[r] \in Request
    OBVIOUS
  <2>2. x \in Request /\ IsOwn(r, x)
    <3>1. /\ x \in Request /\ x.found = req[r].found /\ x.handler = "failed"
          /\ x.worker = req[r].worker /\ x.done = req[r].done
      BY ONLY <2>1, Zenon DEF Request
    <3>2. IsOwn(r, req[r]) /\ req[r].done
      BY <1>12 DEF HandlerCancelled
    <3> QED
      BY ONLY <3>1, <3>2 DEF IsOwn
  <2>3. req' = [req EXCEPT ![r] = x] /\ UNCHANGED <<node, call, result, issued, process>>
    BY <1>12, <2>1 DEF HandlerCancelled, Request
  <2> QED
    BY <2>2, <2>3, OneRequestStep, Zenon
<1>13. CASE SidecarStarts \/ SidecarFails \/ SidecarStops
  BY <1>13 DEF SidecarStarts, SidecarFails, SidecarStops, node
<1>14. CASE CancelContext \/ ShutdownServer \/ ShutdownTimeout \/ GracefulStop
  BY <1>14 DEF CancelContext, ShutdownServer, ShutdownTimeout, GracefulStop, node
<1>15. CASE GracefulStopPanics
  BY <1>15, AbandonedRequests, RequestsStep DEF GracefulStopPanics
<1>16. CASE Restart
  BY <1>16, AbandonedRequests, RequestsStep DEF Restart
<1>17. CASE UNCHANGED vars
  BY <1>17 DEF vars, node, process
<1> QED
  BY <1>1, <1>2, <1>3, <1>4, <1>5, <1>6, <1>7, <1>8, <1>9, <1>10, <1>11, <1>12, <1>13,
     <1>14, <1>15, <1>16, <1>17, ZenonT(30) DEF Next, Finished

(* The inductive invariant holds in every state.                           *)
LEMMA InvariantHolds == Spec => []IInv
<1>1. Init => IInv
  BY InitIInv
<1>2. IInv /\ [Next]_vars => IInv'
  BY NextIInv
<1> QED
  BY <1>1, <1>2, PTL DEF Spec

(* Every variable always holds a value of its type.                        *)
THEOREM ServiceTypeCorrect == Spec => []TypeOK
<1>1. IInv => TypeOK
  BY DEF IInv
<1> QED
  BY <1>1, InvariantHolds, PTL

(***************************************************************************)
(* A call of GetBlockEvents returns an error or the answer for the block   *)
(* it asked for, for any number of requests, of clients that gave up and   *)
(* of restarts.                                                            *)
(***************************************************************************)
THEOREM AnswersAlwaysOwn == Spec => []AnswersAreOwn
<1>1. IInv => AnswersAreOwn
  BY DEF IInv
<1> QED
  BY <1>1, InvariantHolds, PTL

(***************************************************************************)
(* A goroutine of GetBlockEvents whose handler is gone belongs to a        *)
(* request that was cancelled, for any number of requests, shutdowns and   *)
(* restarts.                                                               *)
(***************************************************************************)
THEOREM OnlyCancelledStranded == Spec => []StrandedWereCancelled
<1>1. IInv => StrandedWereCancelled
  BY DEF IInv, IsOwn, StrandedWereCancelled
<1> QED
  BY <1>1, InvariantHolds, PTL
=============================================================================
