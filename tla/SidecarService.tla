--------------------------- MODULE SidecarService ---------------------------
(***************************************************************************)
(* How a query of the node reaches its sidecar: the gRPC client of the     *)
(* application (sidecar/client/client.go), the server in the process of    *)
(* the sidecar with one handler and one goroutine per request, and the     *)
(* orderly and disorderly ends of that process (sidecar/service/server.go, *)
(* the command that starts it).  BlockProduction takes such a query for    *)
(* one step that ends with an answer or an error; this module shows what   *)
(* that rests on.                                                          *)
(*                                                                         *)
(* Consensus calls the application one request at a time, so the node has  *)
(* at most one call; other clients use the same server.  Whether the store *)
(* of the sidecar has a block is the matter of Sidecar and left open here. *)
(* The mutex of the client is held exactly while a call waits for its      *)
(* answer.                                                                 *)
(***************************************************************************)
EXTENDS Integers

CONSTANTS
  MaxRequests,  \* bound: requests to the server
  MaxRestarts   \* bound: restarts of the sidecar's process

ASSUME ServiceAssumption ==
  MaxRequests \in Nat /\ MaxRestarts \in Nat

Requests == 1..MaxRequests

VARIABLES
  conn,      \* GRPCClient.conn and client: "nil", "open" or "closed"
  starting,  \* the goroutine that runs GRPCClient.Start is not done
  closing,   \* Close of the application: "no", "called" or "returned"
  call,      \* the node's call: 0, or the number of its request
  result,    \* history: what the node's last call asked for and returned
  req,       \* the requests, by number
  issued,    \* number of requests so far
  server,    \* "up", "closing" (ShutdownServer is called), "draining"
             \* (GracefulStop), "failed" or "down"
  sidecar,   \* Sidecar.Start: "starting", "running" or "stopped"
  restarts

node == <<conn, starting, closing>>
process == <<server, sidecar, restarts>>
vars == <<node, call, result, req, issued, process>>

Error == 0   \* no request's events: the call or the lookup returned an error

(***************************************************************************)
(* A request: whether the context of its handler is done, the handler      *)
(* ("none" until the server gets the request, "lost" if its process        *)
(* ended), the goroutine that looks up the events, and what it found.  The *)
(* events of the block that request r asks for are r itself.               *)
(***************************************************************************)
Request ==
  [done : BOOLEAN, handler : {"none", "select", "answered", "failed", "lost"},
   worker : {"none", "query", "send", "done"}, found : 0..MaxRequests]

NoRequest == [done |-> FALSE, handler |-> "none", worker |-> "none", found |-> Error]

NoResult == [request |-> 0, answer |-> Error]

Init ==
  /\ conn = "nil" /\ starting = TRUE /\ closing = "no"
  /\ call = 0 /\ result = NoResult
  /\ req = [r \in Requests |-> NoRequest] /\ issued = 0
  /\ server = "up" /\ sidecar = "starting" /\ restarts = 0

-----------------------------------------------------------------------------
(* The application                                                         *)

(* The end of GRPCClient.Start; dialling does not wait for the server.     *)
StartClient ==
  /\ starting /\ call = 0
  /\ starting' = FALSE /\ conn' = "open"
  /\ UNCHANGED <<closing, call, result, req, issued, process>>

Issue == issued < MaxRequests /\ issued' = issued + 1

(***************************************************************************)
(* GRPCClient.GetBlockEvents.  Without a connection it returns at once;    *)
(* otherwise it waits for the server to be ready, under its deadline.      *)
(***************************************************************************)
GetBlockEvents ==
  /\ call = 0
  /\ IF conn = "open" THEN Issue /\ call' = issued + 1 /\ UNCHANGED result
     ELSE result' = NoResult /\ UNCHANGED <<call, issued>>
  /\ UNCHANGED <<node, req, process>>

Return(answer) ==
  /\ call' = 0
  /\ result' = [request |-> call, answer |-> answer]

(* Mutant: no deadline, so only a broken connection ends the call.         *)
CallFailsBroken ==
  /\ call # 0 /\ req[call].handler = "lost"
  /\ Return(Error)
  /\ UNCHANGED <<node, req, issued, process>>

(* The deadline of the call passes, or its connection breaks.              *)
CallFails ==
  /\ call # 0
  /\ Return(Error)
  /\ UNCHANGED <<node, req, issued, process>>

(* Mutant: the error of a handler is lost, and there is no answer either.  *)
ReceiveNil ==
  /\ call # 0 /\ req[call].handler \in {"answered", "failed"}
  /\ Return(IF req[call].handler = "answered" THEN req[call].found ELSE -1)
  /\ UNCHANGED <<node, req, issued, process>>

Receive ==
  /\ call # 0 /\ req[call].handler \in {"answered", "failed"}
  /\ Return(IF req[call].handler = "answered" THEN req[call].found ELSE Error)
  /\ UNCHANGED <<node, req, issued, process>>

(* An error of the base application ends Close before the client stops.    *)
Close ==
  /\ closing = "no" /\ closing' \in {"called", "returned"}
  /\ UNCHANGED <<conn, starting, call, result, req, issued, process>>

(* GRPCClient.Stop, which waits for the mutex.                             *)
StopClient ==
  /\ closing = "called" /\ call = 0
  /\ closing' = "returned"
  /\ conn' = IF conn = "open" THEN "closed" ELSE conn
  /\ UNCHANGED <<starting, call, result, req, issued, process>>

-----------------------------------------------------------------------------
(* The server                                                              *)

(* A request of another client: the HTTP gateway, or the query command.    *)
OtherRequest ==
  /\ Issue
  /\ UNCHANGED <<node, call, result, req, process>>

(***************************************************************************)
(* The handler of a request that reaches the server, perhaps after its     *)
(* client gave up: an error if the sidecar is stopped or the number of the *)
(* block does not parse, which the node never sends, and otherwise a       *)
(* goroutine.                                                              *)
(***************************************************************************)
Handle(r) ==
  /\ r <= issued /\ req[r].handler = "none" /\ server \in {"up", "closing"}
  /\ \/ /\ sidecar = "stopped" \/ r # call
        /\ req' = [req EXCEPT ![r].handler = "failed"]
     \/ /\ sidecar # "stopped"
        /\ req' = [req EXCEPT ![r].handler = "select", ![r].worker = "query"]
  /\ UNCHANGED <<node, call, result, issued, process>>

(* The goroutine looks up the events.                                      *)
QueryBlockEvents(r) ==
  /\ req[r].worker = "query"
  /\ \E found \in {Error} \cup (IF sidecar = "starting" THEN {} ELSE {r}) :
       req' = [req EXCEPT ![r].worker = "send", ![r].found = found]
  /\ UNCHANGED <<node, call, result, issued, process>>

(* Mutant: one channel for all the requests.                               *)
AnswerShared(r) ==
  \E w \in Requests :
    /\ req[r].handler = "select" /\ req[w].worker = "send"
    /\ req' = [req EXCEPT ![w].worker = "done", ![r].handler = "answered",
                          ![r].found = req[w].found]
    /\ UNCHANGED <<node, call, result, issued, process>>

(* The goroutine and the handler meet at the channel, which has no buffer. *)
Answer(r) ==
  /\ req[r].handler = "select" /\ req[r].worker = "send"
  /\ req' = [req EXCEPT ![r].worker = "done", ![r].handler = "answered"]
  /\ UNCHANGED <<node, call, result, issued, process>>

(* The deadline reaches the handler, or its client is gone.                *)
ContextDone(r) ==
  /\ req[r].handler = "select" /\ ~req[r].done
  /\ req' = [req EXCEPT ![r].done = TRUE]
  /\ UNCHANGED <<node, call, result, issued, process>>

(* Mutant: the handler leaves as soon as the server is shut down.          *)
HandlerCancelledByShutdown(r) ==
  /\ req[r].handler = "select" /\ (req[r].done \/ server = "closing")
  /\ req' = [req EXCEPT ![r].handler = "failed"]
  /\ UNCHANGED <<node, call, result, issued, process>>

(* The handler leaves, and nobody receives from the channel any more.      *)
HandlerCancelled(r) ==
  /\ req[r].handler = "select" /\ req[r].done
  /\ req' = [req EXCEPT ![r].handler = "failed"]
  /\ UNCHANGED <<node, call, result, issued, process>>

-----------------------------------------------------------------------------
(* The process of the sidecar                                              *)

(* The first calls to the Ethereum clients succeed.                        *)
SidecarStarts ==
  /\ sidecar = "starting" /\ sidecar' = "running"
  /\ UNCHANGED <<node, call, result, req, issued, server, restarts>>

(* One of them fails, which cancels the context of the errgroup.           *)
SidecarFails ==
  /\ sidecar = "starting" /\ sidecar' = "stopped"
  /\ server' = IF server = "up" THEN "closing" ELSE server
  /\ UNCHANGED <<node, call, result, req, issued, restarts>>

(* The thread that follows Ethereum sees that the context is done.         *)
SidecarStops ==
  /\ sidecar = "running" /\ server # "up" /\ sidecar' = "stopped"
  /\ UNCHANGED <<node, call, result, req, issued, server, restarts>>

(* A signal, or ListenAndServe fails: the context of the errgroup is done. *)
CancelContext ==
  /\ server = "up" /\ server' = "closing"
  /\ UNCHANGED <<node, call, result, req, issued, sidecar, restarts>>

(* Shutdown of the HTTP server ends in time.                               *)
ShutdownServer ==
  /\ server = "closing" /\ server' = "draining"
  /\ UNCHANGED <<node, call, result, req, issued, sidecar, restarts>>

(* It does not, and GracefulStop is left out.                              *)
ShutdownTimeout ==
  /\ server = "closing" /\ server' = "failed"
  /\ UNCHANGED <<node, call, result, req, issued, sidecar, restarts>>

(* Mutant: also waits for the goroutines.                                  *)
IsDrainedOfWorkers ==
  \A r \in Requests : req[r].handler # "select" /\ req[r].worker \notin {"query", "send"}

IsDrained == \A r \in Requests : req[r].handler # "select"

GracefulStop ==
  /\ server = "draining" /\ IsDrained
  /\ server' = "down"
  /\ UNCHANGED <<node, call, result, req, issued, sidecar, restarts>>

(* What is left of the requests when the process ends.                     *)
Abandoned ==
  [r \in Requests |->
     [req[r] EXCEPT !.handler = IF @ = "select" THEN "lost" ELSE @,
                    !.worker = IF @ = "none" THEN @ ELSE "done"]]

(***************************************************************************)
(* GracefulStop does not support draining requests that came through       *)
(* ServeHTTP, and Shutdown of the HTTP server does not wait for the        *)
(* hijacked connections of h2c: a handler that still runs may make it      *)
(* panic, which ends the process.                                          *)
(***************************************************************************)
GracefulStopPanics ==
  /\ server = "draining" /\ ~IsDrained
  /\ server' = "failed" /\ sidecar' = "stopped" /\ req' = Abandoned
  /\ UNCHANGED <<node, call, result, issued, restarts>>

(* The process ends, in order or by a crash, and another one is started.   *)
Restart ==
  /\ restarts < MaxRestarts /\ restarts' = restarts + 1
  /\ req' = Abandoned
  /\ server' = "up" /\ sidecar' = "starting"
  /\ UNCHANGED <<node, call, result, issued>>

(* The bound on the requests is met.                                       *)
Finished == issued = MaxRequests /\ UNCHANGED vars

Next ==
  \/ StartClient
  \/ GetBlockEvents
  \/ CallFails
  \/ Receive
  \/ Close
  \/ StopClient
  \/ OtherRequest
  \/ \E r \in Requests : Handle(r)
  \/ \E r \in Requests : QueryBlockEvents(r)
  \/ \E r \in Requests : Answer(r)
  \/ \E r \in Requests : ContextDone(r)
  \/ \E r \in Requests : HandlerCancelled(r)
  \/ SidecarStarts
  \/ SidecarFails
  \/ CancelContext
  \/ SidecarStops
  \/ ShutdownServer
  \/ ShutdownTimeout
  \/ GracefulStop
  \/ GracefulStopPanics
  \/ Restart
  \/ Finished

Spec == Init /\ [][Next]_vars

(***************************************************************************)
(* The deadline of a call passes; a goroutine goes on, and a handler takes *)
(* one of the cases of its select that are ready; Shutdown returns within  *)
(* its three seconds, one way or the other, and GracefulStop when it can;  *)
(* a mutex is not withheld for ever from a goroutine that waits for it.    *)
(* Nothing is assumed of clients, of the network or of restarts.           *)
(***************************************************************************)
Fairness ==
  /\ WF_vars(CallFails)
  /\ SF_vars(StopClient)
  /\ \A r \in Requests :
       WF_vars(QueryBlockEvents(r)) /\ WF_vars(Answer(r) \/ HandlerCancelled(r))
  /\ WF_vars(ShutdownServer \/ ShutdownTimeout)
  /\ WF_vars(GracefulStop)

FairSpec == Spec /\ Fairness

-----------------------------------------------------------------------------
(* Properties                                                              *)

(* Every variable holds a value of its type.                               *)
TypeOK ==
  /\ conn \in {"nil", "open", "closed"} /\ starting \in BOOLEAN
  /\ closing \in {"no", "called", "returned"}
  /\ call \in 0..issued /\ issued \in 0..MaxRequests
  /\ result \in [request : 0..issued, answer : 0..issued]
  /\ req \in [Requests -> Request]
  /\ server \in {"up", "closing", "draining", "failed", "down"}
  /\ sidecar \in {"starting", "running", "stopped"} /\ restarts \in 0..MaxRestarts

(***************************************************************************)
(* What a call returns is an error or the answer for the block it asked    *)
(* for, although goroutines of requests that were given up still hold the  *)
(* answers for other blocks: the channel belongs to one request.           *)
(***************************************************************************)
AnswersAreOwn == result.answer \in {Error, result.request}

(***************************************************************************)
(* A goroutine that looks up events ends, or its request was cancelled     *)
(* while it ran: only a cancelled request leaves a goroutine blocked at    *)
(* the channel that nobody reads, however the server is shut down.         *)
(***************************************************************************)
OnlyCancelledLeak ==
  \A r \in Requests :
    req[r].worker = "query" ~> req[r].worker = "done" \/ req[r].done

(***************************************************************************)
(* A goroutine that still works for a request whose handler is gone works  *)
(* for a cancelled one: neither a shutdown, a panic of GracefulStop nor a  *)
(* restart leaves a goroutine behind.                                      *)
(***************************************************************************)
StrandedWereCancelled ==
  \A r \in Requests :
    req[r].worker \in {"query", "send"} /\ req[r].handler # "select" => req[r].done

(***************************************************************************)
(* Once its context is done, the server is shut down, unless its process   *)
(* is restarted: GracefulStop waits for handlers, never for a goroutine    *)
(* that is blocked for ever.                                               *)
(***************************************************************************)
ShutdownReturns == server = "closing" ~> server \in {"down", "failed", "up"}

(***************************************************************************)
(* Close of the application returns, although it needs the mutex that a    *)
(* call holds while it waits for a sidecar that may be down: a call ends   *)
(* at its deadline.                                                        *)
(***************************************************************************)
CloseReturns == closing = "called" ~> closing = "returned"
=============================================================================
