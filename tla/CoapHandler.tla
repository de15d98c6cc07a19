---------------------------- MODULE CoapHandler ----------------------------
(***************************************************************************)
(* The CoAP request handler of the agent (agent/src/                       *)
(* tmuxremote_coap_handler.c), one instance per endpoint.  The Nabto core  *)
(* hands a request to request_callback, which queues it and listens again; *)
(* the worker thread runs the endpoint's handler on each queued request    *)
(* and frees it; main stops the handler and frees its resources.           *)
(*                                                                         *)
(* One critical section under queueMutex is one step.  The linked list is  *)
(* the set of queued requests ordered by the ticket they drew when they    *)
(* were queued.  A thread in pthread_cond_wait is "waiting" until a signal *)
(* moves it on.  What the endpoint does with a request is left out.        *)
(***************************************************************************)
EXTENDS Naturals

CONSTANTS Requests,
          NoRequest

ASSUME HandlerAssumption == NoRequest \notin Requests

VARIABLES req,     \* [Requests -> where the request is]
          reply,   \* [Requests -> how it was answered]
          frees,   \* [Requests -> how often it was freed]
          ticket, nextTicket,
          flags,   \* which of stopping, armed, listenerStopped, deviceStopped,
                   \* destroyed hold
          activeCallbacks,
          core, cur,     \* request_callback and the request it holds
          worker, node,  \* coap_worker_thread and the request it handles
          main

requests == <<req, reply, frees, ticket, nextTicket>>
callback == <<core, cur, activeCallbacks>>
vars == <<requests, flags, callback, worker, node, main>>

Flags == {"stopping", "armed", "listenerStopped", "deviceStopped", "destroyed"}
Is(flag) == flag \in flags
Queue == {r \in Requests : req[r] = "queued"}

\* tmuxremote_coap_handler_init.
Init == /\ req = [r \in Requests |-> "new"]
        /\ reply = [r \in Requests |-> "none"]
        /\ frees = [r \in Requests |-> 0]
        /\ ticket = [r \in Requests |-> 0] /\ nextTicket = 0
        /\ flags = {"armed"}
        /\ activeCallbacks = 0
        /\ core = "idle" /\ cur = NoRequest
        /\ worker = "lock" /\ node = NoRequest
        /\ main = "run"

\* The request is answered and freed.
Finish(r, how) == /\ req' = [req EXCEPT ![r] = "freed"]
                  /\ reply' = [reply EXCEPT ![r] = how]
                  /\ frees' = [frees EXCEPT ![r] = @ + 1]

Woken(t) == IF t = "waiting" THEN "lock" ELSE t

-----------------------------------------------------------------------------
(***************************************************************************)
(* The SDK: requests arrive, and an armed listener takes one at a time or  *)
(* learns that it was stopped.                                             *)
(***************************************************************************)
Send(r) ==
    /\ req[r] = "new"
    /\ req' = [req EXCEPT ![r] = "sent"]
    /\ UNCHANGED <<reply, frees, ticket, nextTicket, flags, callback, worker, node, main>>

Deliver(r) ==
    /\ core = "idle"
    /\ Is("armed") /\ ~Is("listenerStopped") /\ ~Is("deviceStopped")
    /\ req[r] = "sent"
    /\ req' = [req EXCEPT ![r] = "taken"]
    /\ flags' = flags \ {"armed"}
    /\ core' = "enter" /\ cur' = r
    /\ UNCHANGED <<reply, frees, ticket, nextTicket, activeCallbacks, worker, node, main>>

\* request_callback with an error returns at once.
DeliverStopped ==
    /\ core = "idle"
    /\ Is("armed") /\ Is("listenerStopped") /\ ~Is("deviceStopped")
    /\ flags' = flags \ {"armed"}
    /\ UNCHANGED <<requests, callback, worker, node, main>>

-----------------------------------------------------------------------------
(***************************************************************************)
(* request_callback.                                                       *)
(***************************************************************************)
CallbackEnter ==
    /\ core = "enter"
    /\ IF Is("stopping")
       THEN /\ Finish(cur, "dropped")
            /\ core' = "idle" /\ cur' = NoRequest
            /\ UNCHANGED activeCallbacks
       ELSE /\ activeCallbacks' = activeCallbacks + 1
            /\ core' = "enqueue"
            /\ UNCHANGED <<req, reply, frees, cur>>
    /\ UNCHANGED <<ticket, nextTicket, flags, worker, node, main>>

Enqueue ==
    /\ core = "enqueue"
    /\ ~Is("stopping")
    /\ req' = [req EXCEPT ![cur] = "queued"]
    /\ ticket' = [ticket EXCEPT ![cur] = nextTicket]
    /\ nextTicket' = nextTicket + 1
    /\ worker' = Woken(worker)
    /\ core' = "rearm" /\ cur' = NoRequest
    /\ UNCHANGED <<reply, frees, flags, activeCallbacks, node, main>>

\* Mutant of EnqueueFails: the callback returns without listening again.
EnqueueFailsReturns ==
    /\ core = "enqueue"
    /\ Finish(cur, "busy")
    /\ core' = "leave" /\ cur' = NoRequest
    /\ UNCHANGED <<ticket, nextTicket, flags, activeCallbacks, worker, node, main>>

\* Mutant of EnqueueFails: the request is freed but stays in the queue.
EnqueueFailsLinked ==
    /\ core = "enqueue"
    /\ req' = [req EXCEPT ![cur] = "queued"]
    /\ frees' = [frees EXCEPT ![cur] = @ + 1]
    /\ core' = "rearm" /\ cur' = NoRequest
    /\ UNCHANGED <<reply, ticket, nextTicket, flags, activeCallbacks, worker, node, main>>

\* enqueue_request fails, without memory or because of a stop: 503.
EnqueueFails ==
    /\ core = "enqueue"
    /\ Finish(cur, "busy")
    /\ core' = "rearm" /\ cur' = NoRequest
    /\ UNCHANGED <<ticket, nextTicket, flags, activeCallbacks, worker, node, main>>

\* The decision to listen again is taken under the mutex, and carried out after.
Rearm ==
    /\ core = "rearm"
    /\ core' = IF Is("stopping") THEN "leave" ELSE "listen"
    /\ UNCHANGED <<requests, flags, cur, activeCallbacks, worker, node, main>>

StartListen ==
    /\ core = "listen"
    /\ flags' = flags \cup {"armed"}
    /\ core' = "leave"
    /\ UNCHANGED <<requests, cur, activeCallbacks, worker, node, main>>

\* Mutant of CallbackLeave: nobody is told that the last callback has left.
CallbackLeaveSilent ==
    /\ core = "leave"
    /\ core' = "idle"
    /\ activeCallbacks' = activeCallbacks - 1
    /\ UNCHANGED <<requests, flags, cur, worker, node, main>>

CallbackLeave ==
    /\ core = "leave"
    /\ core' = "idle"
    /\ activeCallbacks' = activeCallbacks - 1
    /\ main' = IF Is("stopping") /\ activeCallbacks = 1 /\ main = "waitCallbacks"
               THEN "deinit" ELSE main
    /\ UNCHANGED <<requests, flags, cur, worker, node>>

Callback == \/ CallbackEnter \/ Enqueue \/ EnqueueFails
            \/ Rearm \/ StartListen \/ CallbackLeave

-----------------------------------------------------------------------------
(***************************************************************************)
(* coap_worker_thread.  It goes on when the handler is stopping until the  *)
(* queue is empty.                                                         *)
(***************************************************************************)
IsHead(r) == r \in Queue /\ \A q \in Queue : ticket[r] <= ticket[q]

WorkerTakes(r) ==
    /\ worker = "lock"
    /\ IsHead(r)
    /\ req' = [req EXCEPT ![r] = "handling"]
    /\ node' = r
    /\ worker' = "handle"
    /\ UNCHANGED <<reply, frees, ticket, nextTicket, flags, callback, main>>

\* Mutant of WorkerPauses: a stop ends the worker whatever is queued.
WorkerQuits ==
    /\ worker = "lock"
    /\ Queue = {} \/ Is("stopping")
    /\ worker' = IF Is("stopping") THEN "done" ELSE "waiting"
    /\ UNCHANGED <<requests, flags, callback, node, main>>

WorkerPauses ==
    /\ worker = "lock"
    /\ Queue = {}
    /\ worker' = IF Is("stopping") THEN "done" ELSE "waiting"
    /\ UNCHANGED <<requests, flags, callback, node, main>>

WorkerHandles ==
    /\ worker = "handle"
    /\ Finish(node, "handled")
    /\ node' = NoRequest
    /\ worker' = "lock"
    /\ UNCHANGED <<ticket, nextTicket, flags, callback, main>>

SpuriousWakeup ==
    /\ worker = "waiting"
    /\ worker' = "lock"
    /\ UNCHANGED <<requests, flags, callback, node, main>>

Worker == (\E r \in Requests : WorkerTakes(r)) \/ WorkerPauses \/ WorkerHandles

-----------------------------------------------------------------------------
(***************************************************************************)
(* main: tmuxremote_coap_handler_stop, the stop of the device, and         *)
(* tmuxremote_coap_handler_deinit.                                         *)
(***************************************************************************)
Stop ==
    /\ main = "run"
    /\ flags' = flags \cup {"stopping"}
    /\ worker' = Woken(worker)
    /\ main' = "stopListener"
    /\ UNCHANGED <<requests, callback, node>>

StopListener ==
    /\ main = "stopListener"
    /\ flags' = flags \cup {"listenerStopped"}
    /\ main' = "stopDevice"
    /\ UNCHANGED <<requests, callback, worker, node>>

\* nabto_device_stop: no callback starts any more, but one that has entered the
\* handler may still be running.
StopDevice ==
    /\ main = "stopDevice"
    /\ core # "enter"
    /\ flags' = flags \cup {"deviceStopped"}
    /\ main' = "deinit"
    /\ UNCHANGED <<requests, callback, worker, node>>

\* Mutant of DeinitWait: the callbacks are not waited for.
DeinitProceeds ==
    /\ main = "deinit"
    /\ main' = "broadcast"
    /\ UNCHANGED <<requests, flags, callback, worker, node>>

DeinitWait ==
    /\ main = "deinit"
    /\ main' = IF activeCallbacks > 0 THEN "waitCallbacks" ELSE "broadcast"
    /\ UNCHANGED <<requests, flags, callback, worker, node>>

DeinitBroadcast ==
    /\ main = "broadcast"
    /\ worker' = Woken(worker)
    /\ main' = "join"
    /\ UNCHANGED <<requests, flags, callback, node>>

\* The worker is joined, what is still queued is freed, then the future, the
\* listener, the mutex and the condition variables are destroyed.
DeinitFree ==
    /\ main = "join"
    /\ worker = "done"
    /\ req' = [r \in Requests |-> IF r \in Queue THEN "freed" ELSE req[r]]
    /\ reply' = [r \in Requests |-> IF r \in Queue THEN "dropped" ELSE reply[r]]
    /\ frees' = [r \in Requests |-> IF r \in Queue THEN frees[r] + 1 ELSE frees[r]]
    /\ flags' = flags \cup {"destroyed"}
    /\ main' = "done"
    /\ UNCHANGED <<ticket, nextTicket, callback, worker, node>>

Main == \/ Stop \/ StopListener \/ StopDevice
        \/ DeinitWait \/ DeinitBroadcast \/ DeinitFree

-----------------------------------------------------------------------------
Next == \/ \E r \in Requests : Send(r) \/ Deliver(r)
        \/ DeliverStopped
        \/ Callback
        \/ Worker \/ SpuriousWakeup
        \/ Main

Spec == Init /\ [][Next]_vars

(***************************************************************************)
(* The SDK delivers what was sent, and every thread that can run does.     *)
(* Nothing makes clients send or main stop.                                *)
(***************************************************************************)
FairSpec == /\ Spec
            /\ \A r \in Requests : SF_vars(Deliver(r))
            /\ WF_vars(Callback)
            /\ WF_vars(Worker)
            /\ WF_vars(Main /\ main # "run")

-----------------------------------------------------------------------------
Calling == core \in {"enqueue", "rearm", "listen", "leave"}

\* Types; no request is freed twice.
TypeOK ==
    /\ req \in [Requests -> {"new", "sent", "taken", "queued", "handling", "freed"}]
    /\ reply \in [Requests -> {"none", "dropped", "busy", "handled"}]
    /\ frees \in [Requests -> {0, 1}]
    /\ ticket \in [Requests -> Nat] /\ nextTicket \in Nat
    /\ flags \subseteq Flags
    /\ activeCallbacks \in Nat
    /\ core \in {"idle", "enter", "enqueue", "rearm", "listen", "leave"}
    /\ cur \in Requests \cup {NoRequest}
    /\ worker \in {"lock", "waiting", "handle", "done"}
    /\ node \in Requests \cup {NoRequest}
    /\ main \in {"run", "stopListener", "stopDevice", "deinit", "waitCallbacks",
                  "broadcast", "join", "done"}

\* Once the mutex, the future and the listener are gone no callback is in the
\* handler, the worker has ended and no request is left with it.
NoUseAfterDestroy ==
    Is("destroyed") => /\ core = "idle"
                       /\ worker = "done"
                       /\ \A r \in Requests : req[r] \in {"new", "sent", "freed"}

\* Until the handler is stopped the listener is armed whenever no callback is
\* running: no refused request leaves the endpoint deaf.
ListenerStaysArmed == core = "idle" /\ ~Is("stopping") => Is("armed")

(***************************************************************************)
(* The inductive invariant behind the two invariants above.                *)
(***************************************************************************)

\* A request that is taken or handled is so by the one thread that holds it, and
\* only a freed one was freed.
RequestsOwned ==
    /\ core \in {"enter", "enqueue"} => cur \in Requests /\ req[cur] = "taken"
    /\ worker = "handle" => node \in Requests /\ req[node] = "handling"
    /\ \A r \in Requests :
          /\ req[r] = "taken" => r = cur /\ core \in {"enter", "enqueue"}
          /\ req[r] = "handling" => r = node /\ worker = "handle"
          /\ req[r] # "freed" => frees[r] = 0

\* activeCallbacks counts the callback that has entered, if any, and how far main
\* has come tells what the others can still be doing.
ShutdownPhases ==
    /\ activeCallbacks = IF Calling THEN 1 ELSE 0
    /\ main # "run" <=> Is("stopping")
    /\ Is("listenerStopped") => Is("stopping")
    /\ main \in {"deinit", "waitCallbacks", "broadcast", "join", "done"}
          => core # "enter" /\ Is("deviceStopped")
    /\ main \in {"broadcast", "join", "done"} => core = "idle"
    /\ worker = "done" => Is("stopping") /\ Queue = {}
    /\ Is("destroyed") => main = "done" /\ worker = "done"
    /\ core \in {"idle", "leave"} /\ ~Is("stopping") => Is("armed")

HandlerInv == RequestsOwned /\ ShutdownPhases

\* A request is answered unless the handler is being stopped, and one that was
\* queued is handled by the endpoint even then: none is dropped by a stop, not
\* even when main frees the queue.
RequestsAreAnswered ==
    \A r \in Requests : /\ req[r] = "sent" ~> (req[r] = "freed" \/ Is("stopping"))
                        /\ req[r] = "queued" ~> reply[r] = "handled"

\* A stop comes to its end: the callbacks and the worker are never waited for
\* in vain.
StopEnds == Is("stopping") ~> main = "done"
=============================================================================
