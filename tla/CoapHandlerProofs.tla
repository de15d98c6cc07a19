------------------------- MODULE CoapHandlerProofs -------------------------
(***************************************************************************)
(* Proofs about CoapHandler, for every set of requests.                    *)
(***************************************************************************)
EXTENDS CoapHandler, TLAPS

IInv == TypeOK /\ HandlerInv

\* The inductive invariant holds initially.
LEMMA InitInv == Init => IInv
  BY DEF Init, IInv, TypeOK, HandlerInv, RequestsOwned, ShutdownPhases, Calling, Is,
         Queue, Flags

\* Every step of the SDK, the callback, the worker and main preserves it.
LEMMA NextInv == IInv /\ [Next]_vars => IInv'
<1> SUFFICES ASSUME IInv, [Next]_vars PROVE IInv'
  OBVIOUS
<1> USE HandlerAssumption
        DEF IInv, TypeOK, HandlerInv, RequestsOwned, ShutdownPhases, Calling, Is, Queue,
            Flags, requests, callback, Finish, Woken
<1>1. ASSUME NEW r \in Requests, Send(r) PROVE IInv'
  BY <1>1 DEF Send
<1>2. ASSUME NEW r \in Requests, Deliver(r) PROVE IInv'
  BY <1>2 DEF Deliver
<1>3. CASE DeliverStopped
  BY <1>3 DEF DeliverStopped
<1>4. CASE CallbackEnter
  BY <1>4 DEF CallbackEnter
<1>5. CASE Enqueue
  BY <1>5 DEF Enqueue
<1>6. CASE EnqueueFails
  BY <1>6 DEF EnqueueFails
<1>7. CASE Rearm
  BY <1>7 DEF Rearm
<1>8. CASE StartListen
  BY <1>8 DEF StartListen
<1>9. CASE CallbackLeave
  BY <1>9 DEF CallbackLeave
<1>10. ASSUME NEW r \in Requests, WorkerTakes(r) PROVE IInv'
  BY <1>10 DEF WorkerTakes, IsHead
<1>11. CASE WorkerPauses
  BY <1>11 DEF WorkerPauses
<1>12. CASE WorkerHandles
  BY <1>12 DEF WorkerHandles
<1>13. CASE SpuriousWakeup
  BY <1>13 DEF SpuriousWakeup
<1>14. CASE Stop
  BY <1>14 DEF Stop
<1>15. CASE StopListener
  BY <1>15 DEF StopListener
<1>16. CASE StopDevice
  BY <1>16 DEF StopDevice
<1>17. CASE DeinitWait
  BY <1>17 DEF DeinitWait
<1>18. CASE DeinitBroadcast
  BY <1>18 DEF DeinitBroadcast
<1>19. CASE DeinitFree
  BY <1>19 DEF DeinitFree
<1>20. CASE UNCHANGED vars
  BY <1>20 DEF vars
<1> QED
  BY <1>1, <1>2, <1>3, <1>4, <1>5, <1>6, <1>7, <1>8, <1>9, <1>10, <1>11, <1>12, <1>13,
     <1>14, <1>15, <1>16, <1>17, <1>18, <1>19, <1>20 DEF Next, Callback, Worker, Main

\* What is invariant of the handler.
THEOREM Invariance == Spec => []IInv
  BY InitInv, NextInv, PTL DEF Spec

\* The types, and that no request is ever freed twice, by the callback, the
\* worker or main.
THEOREM TypeCorrectness == Spec => []TypeOK
<1>1. IInv => TypeOK
  BY DEF IInv
<1> QED
  BY <1>1, Invariance, PTL

\* The handler's mutex, future and listener are destroyed only when no callback,
\* no worker and no request of it is left.
THEOREM DestroyedAlone == Spec => []NoUseAfterDestroy
<1>1. IInv => NoUseAfterDestroy
  BY DEF IInv, TypeOK, HandlerInv, RequestsOwned, ShutdownPhases, NoUseAfterDestroy, Is,
         Queue, Calling
<1> QED
  BY <1>1, Invariance, PTL

\* The endpoint listens whenever it is neither in a callback nor being stopped.
THEOREM StaysArmed == Spec => []ListenerStaysArmed
<1>1. IInv => ListenerStaysArmed
  BY DEF IInv, HandlerInv, ShutdownPhases, ListenerStaysArmed
<1> QED
  BY <1>1, Invariance, PTL
=============================================================================
