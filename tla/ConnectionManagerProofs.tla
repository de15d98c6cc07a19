----------------------- MODULE ConnectionManagerProofs -----------------------
(***************************************************************************)
(* Proofs about the connection manager of the iOS client, for any number   *)
(* of connects, pairings, losses and late CLOSED events.  The invariants   *)
(* are inductive together, and no other fact is needed.                    *)
(***************************************************************************)
EXTENDS ConnectionManager, TLAPS

IInv == TypeOK /\ SerializedConnect /\ ControlFollowsCache /\ StateIsHonest

LEMMA Initially == Init => IInv
  BY NoneAssumption DEF Init, IInv, TypeOK, SerializedConnect, ControlFollowsCache,
     StateIsHonest, InFlight

\* Every step keeps the invariant, one case per action.
LEMMA Step == IInv /\ [Next]_vars => IInv'
<1> SUFFICES ASSUME IInv, [Next]_vars PROVE IInv'
  OBVIOUS
<1> USE NoneAssumption DEF IInv, app
<1>1. ASSUME NEW c \in Conns, Connect(c) PROVE IInv'
  <2>1. TypeOK'
    BY <1>1 DEF TypeOK, InFlight, Connect, Is, Becomes, sdk, streams
  <2>2. SerializedConnect'
    BY <1>1 DEF SerializedConnect, TypeOK, InFlight, Connect, Is, Becomes, sdk, streams
  <2>3. ControlFollowsCache'
    BY <1>1 DEF ControlFollowsCache, TypeOK, Connect, Is, Becomes, sdk, streams
  <2>4. StateIsHonest'
    BY <1>1 DEF StateIsHonest, TypeOK, Connect, Is, Becomes, sdk, streams
  <2> QED
    BY <2>1, <2>2, <2>3, <2>4
<1>2. ASSUME NEW c \in Conns, TaskStarts(c) PROVE IInv'
  <2>1. TypeOK'
    BY <1>2 DEF TypeOK, InFlight, TaskStarts, Stopped, Is, Becomes, streams
  <2>2. SerializedConnect'
    BY <1>2
       DEF SerializedConnect, TypeOK, InFlight, TaskStarts, Stopped, Is, Becomes,
           streams
  <2>3. ControlFollowsCache'
    BY <1>2 DEF ControlFollowsCache, TypeOK, TaskStarts, Stopped, Is, Becomes, streams
  <2>4. StateIsHonest'
    BY <1>2 DEF StateIsHonest, TypeOK, TaskStarts, Stopped, Is, Becomes, streams
  <2> QED
    BY <2>1, <2>2, <2>3, <2>4
<1>3. ASSUME NEW c \in Conns, Connected(c) PROVE IInv'
  <2>1. TypeOK'
    BY <1>3 DEF TypeOK, InFlight, Connected, Is, Becomes, manager, streams
  <2>2. SerializedConnect'
    BY <1>3
       DEF SerializedConnect, TypeOK, InFlight, Connected, Is, Becomes, manager,
           streams
  <2>3. ControlFollowsCache'
    BY <1>3 DEF ControlFollowsCache, TypeOK, Connected, Is, Becomes, manager, streams
  <2>4. StateIsHonest'
    BY <1>3 DEF StateIsHonest, TypeOK, Connected, Is, Becomes, manager, streams
  <2> QED
    BY <2>1, <2>2, <2>3, <2>4
<1>4. ASSUME NEW c \in Conns, ConnectFails(c) PROVE IInv'
  <2>1. TypeOK'
    BY <1>4 DEF TypeOK, InFlight, ConnectFails, Stopped, Is, Becomes, manager, streams
  <2>2. SerializedConnect'
    BY <1>4
       DEF SerializedConnect, TypeOK, InFlight, ConnectFails, Stopped, Is, Becomes,
           manager, streams
  <2>3. ControlFollowsCache'
    BY <1>4
       DEF ControlFollowsCache, TypeOK, ConnectFails, Stopped, Is, Becomes, manager,
           streams
  <2>4. StateIsHonest'
    BY <1>4
       DEF StateIsHonest, TypeOK, ConnectFails, Stopped, Is, Becomes, manager, streams
  <2> QED
    BY <2>1, <2>2, <2>3, <2>4
<1>5. ASSUME NEW c \in Conns, LateTimeout(c) PROVE IInv'
  <2>1. TypeOK'
    BY <1>5 DEF TypeOK, InFlight, LateTimeout, Stopped, Is, manager, streams
  <2>2. SerializedConnect'
    BY <1>5
       DEF SerializedConnect, TypeOK, InFlight, LateTimeout, Stopped, Is, manager,
           streams
  <2>3. ControlFollowsCache'
    BY <1>5 DEF ControlFollowsCache, TypeOK, LateTimeout, Stopped, Is, manager, streams
  <2>4. StateIsHonest'
    BY <1>5 DEF StateIsHonest, TypeOK, LateTimeout, Stopped, Is, manager, streams
  <2> QED
    BY <2>1, <2>2, <2>3, <2>4
<1>6. ASSUME NEW c \in Conns, TaskCaches(c) PROVE IInv'
  <2>1. TypeOK'
    BY <1>6 DEF TypeOK, InFlight, TaskCaches, OpenControl, Is, Becomes
  <2>2. SerializedConnect'
    BY <1>6
       DEF SerializedConnect, TypeOK, InFlight, TaskCaches, OpenControl, Is, Becomes
  <2>3. ControlFollowsCache'
    BY <1>6 DEF ControlFollowsCache, TypeOK, TaskCaches, OpenControl, Is, Becomes
  <2>4. StateIsHonest'
    BY <1>6 DEF StateIsHonest, TypeOK, TaskCaches, OpenControl, Is, Becomes
  <2> QED
    BY <2>1, <2>2, <2>3, <2>4
<1>7. ASSUME NEW c \in Conns, TaskGivesUp(c) PROVE IInv'
  <2>1. TypeOK'
    BY <1>7 DEF TypeOK, InFlight, TaskGivesUp, Stopped, Is, Becomes, manager, streams
  <2>2. SerializedConnect'
    BY <1>7
       DEF SerializedConnect, TypeOK, InFlight, TaskGivesUp, Stopped, Is, Becomes,
           manager, streams
  <2>3. ControlFollowsCache'
    BY <1>7
       DEF ControlFollowsCache, TypeOK, TaskGivesUp, Stopped, Is, Becomes, manager,
           streams
  <2>4. StateIsHonest'
    BY <1>7
       DEF StateIsHonest, TypeOK, TaskGivesUp, Stopped, Is, Becomes, manager, streams
  <2> QED
    BY <2>1, <2>2, <2>3, <2>4
<1>8. ASSUME NEW c \in Conns, CleanUp(c) PROVE IInv'
  <2>1. TypeOK'
    BY <1>8 DEF TypeOK, InFlight, CleanUp, Is, Becomes, sdk, streams
  <2>2. SerializedConnect'
    BY <1>8 DEF SerializedConnect, TypeOK, InFlight, CleanUp, Is, Becomes, sdk, streams
  <2>3. ControlFollowsCache'
    BY <1>8 DEF ControlFollowsCache, TypeOK, CleanUp, Is, Becomes, sdk, streams
  <2>4. StateIsHonest'
    BY <1>8 DEF StateIsHonest, TypeOK, CleanUp, Is, Becomes, sdk, streams
  <2> QED
    BY <2>1, <2>2, <2>3, <2>4
<1>9. ASSUME Disconnect PROVE IInv'
  <2>1. TypeOK'
    BY <1>9 DEF TypeOK, InFlight, Disconnect, Drop, Stopped, CloseControl
  <2>2. SerializedConnect'
    BY <1>9
       DEF SerializedConnect, TypeOK, InFlight, Disconnect, Drop, Stopped, CloseControl
  <2>3. ControlFollowsCache'
    BY <1>9 DEF ControlFollowsCache, TypeOK, Disconnect, Drop, Stopped, CloseControl
  <2>4. StateIsHonest'
    BY <1>9 DEF StateIsHonest, TypeOK, Disconnect, Is, Drop, Stopped, CloseControl
  <2> QED
    BY <2>1, <2>2, <2>3, <2>4
<1>10. ASSUME DeleteDevice PROVE IInv'
  <2>1. TypeOK'
    BY <1>10 DEF TypeOK, InFlight, DeleteDevice, Drop, Stopped, CloseControl
  <2>2. SerializedConnect'
    BY <1>10
       DEF SerializedConnect, TypeOK, InFlight, DeleteDevice, Drop, Stopped,
           CloseControl
  <2>3. ControlFollowsCache'
    BY <1>10 DEF ControlFollowsCache, TypeOK, DeleteDevice, Drop, Stopped, CloseControl
  <2>4. StateIsHonest'
    BY <1>10 DEF StateIsHonest, TypeOK, DeleteDevice, Is, Drop, Stopped, CloseControl
  <2> QED
    BY <2>1, <2>2, <2>3, <2>4
<1>11. ASSUME NEW c \in Conns, Reconnect(c) PROVE IInv'
  <2>1. TypeOK'
    BY <1>11 DEF TypeOK, InFlight, Reconnect, Drop, Stopped, CloseControl, Is, Becomes
  <2>2. SerializedConnect'
    BY <1>11
       DEF SerializedConnect, TypeOK, InFlight, Reconnect, Drop, Stopped, CloseControl,
           Is, Becomes
  <2>3. ControlFollowsCache'
    BY <1>11
       DEF ControlFollowsCache, TypeOK, Reconnect, Drop, Stopped, CloseControl, Is,
           Becomes
  <2>4. StateIsHonest'
    BY <1>11
       DEF StateIsHonest, TypeOK, Reconnect, Drop, Stopped, CloseControl, Is, Becomes
  <2> QED
    BY <2>1, <2>2, <2>3, <2>4
<1>12. ASSUME CancelPendingConnect PROVE IInv'
  <2>1. TypeOK'
    BY <1>12 DEF TypeOK, InFlight, CancelPendingConnect, Stopped, streams
  <2>2. SerializedConnect'
    BY <1>12
       DEF SerializedConnect, TypeOK, InFlight, CancelPendingConnect, Stopped, streams
  <2>3. ControlFollowsCache'
    BY <1>12 DEF ControlFollowsCache, TypeOK, CancelPendingConnect, Stopped, streams
  <2>4. StateIsHonest'
    BY <1>12 DEF StateIsHonest, TypeOK, CancelPendingConnect, Is, Stopped, streams
  <2> QED
    BY <2>1, <2>2, <2>3, <2>4
<1>13. ASSUME SetDeviceState PROVE IInv'
  <2>1. TypeOK'
    BY <1>13 DEF TypeOK, InFlight, SetDeviceState, sdk, streams
  <2>2. SerializedConnect'
    BY <1>13 DEF SerializedConnect, TypeOK, InFlight, SetDeviceState, sdk, streams
  <2>3. ControlFollowsCache'
    BY <1>13 DEF ControlFollowsCache, TypeOK, SetDeviceState, sdk, streams
  <2>4. StateIsHonest'
    BY <1>13 DEF StateIsHonest, TypeOK, SetDeviceState, Is, sdk, streams
  <2> QED
    BY <2>1, <2>2, <2>3, <2>4
<1>14. ASSUME NEW c \in Conns, PairBegin(c) PROVE IInv'
  <2>1. TypeOK'
    BY <1>14 DEF TypeOK, InFlight, PairBegin, Is, Becomes, sdk, streams
  <2>2. SerializedConnect'
    BY <1>14
       DEF SerializedConnect, TypeOK, InFlight, PairBegin, Is, Becomes, sdk, streams
  <2>3. ControlFollowsCache'
    BY <1>14 DEF ControlFollowsCache, TypeOK, PairBegin, Is, Becomes, sdk, streams
  <2>4. StateIsHonest'
    BY <1>14 DEF StateIsHonest, TypeOK, PairBegin, Is, Becomes, sdk, streams
  <2> QED
    BY <2>1, <2>2, <2>3, <2>4
<1>15. ASSUME NEW c \in Conns, PairConnected(c) PROVE IInv'
  <2>1. TypeOK'
    BY <1>15 DEF TypeOK, InFlight, PairConnected, Is, Becomes, streams
  <2>2. SerializedConnect'
    BY <1>15
       DEF SerializedConnect, TypeOK, InFlight, PairConnected, Is, Becomes, streams
  <2>3. ControlFollowsCache'
    BY <1>15 DEF ControlFollowsCache, TypeOK, PairConnected, Is, Becomes, streams
  <2>4. StateIsHonest'
    BY <1>15 DEF StateIsHonest, TypeOK, PairConnected, Is, Becomes, streams
  <2> QED
    BY <2>1, <2>2, <2>3, <2>4
<1>16. ASSUME NEW c \in Conns, PairFails(c) PROVE IInv'
  <2>1. TypeOK'
    BY <1>16 DEF TypeOK, InFlight, PairFails, Stopped, Is, Becomes, streams
  <2>2. SerializedConnect'
    BY <1>16
       DEF SerializedConnect, TypeOK, InFlight, PairFails, Stopped, Is, Becomes,
           streams
  <2>3. ControlFollowsCache'
    BY <1>16 DEF ControlFollowsCache, TypeOK, PairFails, Stopped, Is, Becomes, streams
  <2>4. StateIsHonest'
    BY <1>16 DEF StateIsHonest, TypeOK, PairFails, Stopped, Is, Becomes, streams
  <2> QED
    BY <2>1, <2>2, <2>3, <2>4
<1>17. ASSUME NEW c \in Conns, AdoptConnection(c) PROVE IInv'
  <2>1. TypeOK'
    BY <1>17 DEF TypeOK, InFlight, AdoptConnection, OpenControl, Is, Becomes
  <2>2. SerializedConnect'
    BY <1>17
       DEF SerializedConnect, TypeOK, InFlight, AdoptConnection, OpenControl, Is,
           Becomes
  <2>3. ControlFollowsCache'
    BY <1>17 DEF ControlFollowsCache, TypeOK, AdoptConnection, OpenControl, Is, Becomes
  <2>4. StateIsHonest'
    BY <1>17 DEF StateIsHonest, TypeOK, AdoptConnection, OpenControl, Is, Becomes
  <2> QED
    BY <2>1, <2>2, <2>3, <2>4
<1>18. ASSUME NEW c \in Conns, Lost(c) PROVE IInv'
  <2>1. TypeOK'
    BY <1>18 DEF TypeOK, InFlight, Lost, manager, streams
  <2>2. SerializedConnect'
    BY <1>18 DEF SerializedConnect, TypeOK, InFlight, Lost, manager, streams
  <2>3. ControlFollowsCache'
    BY <1>18 DEF ControlFollowsCache, TypeOK, Lost, manager, streams
  <2>4. StateIsHonest'
    BY <1>18 DEF StateIsHonest, TypeOK, Lost, Is, manager, streams
  <2> QED
    BY <2>1, <2>2, <2>3, <2>4
<1>19. ASSUME NEW c \in Conns, HandleConnectionClosed(c) PROVE IInv'
  <2>1. TypeOK'
    BY <1>19 DEF TypeOK, InFlight, HandleConnectionClosed, CloseControl
  <2>2. SerializedConnect'
    BY <1>19
       DEF SerializedConnect, TypeOK, InFlight, HandleConnectionClosed, CloseControl
  <2>3. ControlFollowsCache'
    BY <1>19 DEF ControlFollowsCache, TypeOK, HandleConnectionClosed, CloseControl
  <2>4. StateIsHonest'
    BY <1>19 DEF StateIsHonest, TypeOK, HandleConnectionClosed, Is, CloseControl
  <2> QED
    BY <2>1, <2>2, <2>3, <2>4
<1>20. ASSUME NEW c \in Conns, ControlOpened(c) PROVE IInv'
  <2>1. TypeOK'
    BY <1>20 DEF TypeOK, InFlight, ControlOpened, manager, sdk
  <2>2. SerializedConnect'
    BY <1>20 DEF SerializedConnect, TypeOK, InFlight, ControlOpened, manager, sdk
  <2>3. ControlFollowsCache'
    BY <1>20 DEF ControlFollowsCache, TypeOK, ControlOpened, manager, sdk
  <2>4. StateIsHonest'
    BY <1>20 DEF StateIsHonest, TypeOK, ControlOpened, Is, manager, sdk
  <2> QED
    BY <2>1, <2>2, <2>3, <2>4
<1>21. ASSUME NEW c \in Conns, ControlSessions(c) PROVE IInv'
  <2>1. TypeOK'
    BY <1>21 DEF TypeOK, InFlight, ControlSessions, manager, sdk
  <2>2. SerializedConnect'
    BY <1>21 DEF SerializedConnect, TypeOK, InFlight, ControlSessions, manager, sdk
  <2>3. ControlFollowsCache'
    BY <1>21 DEF ControlFollowsCache, TypeOK, ControlSessions, manager, sdk
  <2>4. StateIsHonest'
    BY <1>21 DEF StateIsHonest, TypeOK, ControlSessions, Is, manager, sdk
  <2> QED
    BY <2>1, <2>2, <2>3, <2>4
<1>22. ASSUME NEW c \in Conns, ControlEnds(c) PROVE IInv'
  <2>1. TypeOK'
    BY <1>22 DEF TypeOK, InFlight, ControlEnds, CloseControl, manager, sdk
  <2>2. SerializedConnect'
    BY <1>22
       DEF SerializedConnect, TypeOK, InFlight, ControlEnds, CloseControl, manager, sdk
  <2>3. ControlFollowsCache'
    BY <1>22 DEF ControlFollowsCache, TypeOK, ControlEnds, CloseControl, manager, sdk
  <2>4. StateIsHonest'
    BY <1>22 DEF StateIsHonest, TypeOK, ControlEnds, Is, CloseControl, manager, sdk
  <2> QED
    BY <2>1, <2>2, <2>3, <2>4
<1>23. CASE UNCHANGED vars
  BY <1>23
     DEF TypeOK, SerializedConnect, ControlFollowsCache, StateIsHonest, Is, vars,
         manager, sdk, streams
<1> QED
  BY <1>1, <1>2, <1>3, <1>4, <1>5, <1>6, <1>7, <1>8, <1>9, <1>10, <1>11, <1>12, <1>13,
     <1>14, <1>15, <1>16, <1>17, <1>18, <1>19, <1>20, <1>21, <1>22, <1>23
     DEF Next, ConnectTask, Progress, Pair, ControlTask

LEMMA Invariance == Spec => []IInv
  BY Initially, Step, PTL DEF Spec

\* Type correctness of the manager.
THEOREM TypeCorrectness == Spec => []TypeOK
<1>1. IInv => TypeOK
  BY DEF IInv
<1> QED
  BY <1>1, Invariance, PTL

\* Connects are serialized: a connect task that still runs is the pending one or
\* was cancelled, however disconnects, reconnect attempts and late answers
\* interleave.
THEOREM ConnectsSerialized == Spec => []SerializedConnect
<1>1. IInv => SerializedConnect
  BY DEF IInv
<1> QED
  BY <1>1, Invariance, PTL

\* The control stream in use belongs to the cached connection.
THEOREM ControlOfCache == Spec => []ControlFollowsCache
<1>1. IInv => ControlFollowsCache
  BY DEF IInv
<1> QED
  BY <1>1, Invariance, PTL

\* The state shown agrees with the cache, except after a pairing that failed beside
\* a cached connection; any number of pairings may overlap, with each other and
\* with connects of a device that was deleted.
THEOREM HonestState == Spec => []StateIsHonest
<1>1. IInv => StateIsHonest
  BY DEF IInv
<1> QED
  BY <1>1, Invariance, PTL
=============================================================================
