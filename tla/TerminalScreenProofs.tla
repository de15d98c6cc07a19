------------------------ MODULE TerminalScreenProofs ------------------------
(***************************************************************************)
(* Proofs about the terminal screen of the iOS client, for any number of   *)
(* reconnect loops and attempts, whether or not the user retries: types,   *)
(* and that the overlay of a screen is backed by a loop that is alive.     *)
(*                                                                         *)
(* The second is about one screen: with two, a task of the screen that is  *)
(* gone can tear down the loop of the other. It is not inductive. That a   *)
(* loop which was cut off in the background has a successor needs that the *)
(* return finds no session and the first connect done; that nobody else    *)
(* ends the loop, that an open screen is the one the service reconnects.   *)
(***************************************************************************)
EXTENDS TerminalScreen, TLAPS

\* What an await can throw.
Reasons == {"cancelled", "notFound", "refused", "other"}

OneScreen == \A r, s \in Screens : r = s

\* An open screen is the one NabtoService reconnects; a screen that was never
\* opened has started nothing.
OwnerInv ==
    /\ \A s \in Screens : scr[s] = "open" => context = s
    /\ \A s \in Screens : scr[s] = "new" => context # s /\ at[s] = "idle" /\ s \notin done

\* Before the first connect of a screen is done there is no stream that could
\* end, hence no loop and no overlay.
FirstInv ==
    \A s \in Screens : scr[s] \in {"new", "open"} /\ s \notin done =>
        /\ stream = "none" /\ s \notin reconnecting
        /\ \A l \in Loops : at[l] = "idle"

\* Only a task that asks for a connection has an answer to hear.
AnswerInv == \A t \in Tasks : at[t] \notin Asking => answer[t] = "none"

\* The background takes the session of an open screen, and nobody gives it one
\* back unseen: so the return starts a loop.
SessionInv ==
    fg = "background" => \A s \in Screens : scr[s] = "open" /\ s \notin stray => session = None

ScreenInv == TypeOK /\ OwnerInv /\ FirstInv /\ AnswerInv /\ SessionInv /\ OverlayHasLoop

-----------------------------------------------------------------------------
(* Every step keeps the types, and the invariant                           *)

\* Every action keeps the types.
LEMMA TypeStep ==
  ASSUME TypeOK, [Next]_vars
  PROVE  TypeOK'
<1> USE ScreenAssumption DEF Tasks, Sessions
<1>1. ASSUME TaskStarts PROVE TypeOK'
  BY <1>1 DEF TaskStarts, screen, service, loop, TypeOK, Connecting
<1>2. ASSUME Connected PROVE TypeOK'
  BY <1>2 DEF Connected, Told, screen, service, loop, TypeOK
<1>3. ASSUME ConnectFails PROVE TypeOK'
  BY <1>3 DEF ConnectFails, Told, screen, service, loop, TypeOK
<1>4. ASSUME ConnectionClosed PROVE TypeOK'
  BY <1>4 DEF ConnectionClosed, screen, service, loop, TypeOK, Connecting
<1>5. ASSUME OthersConnect PROVE TypeOK'
  BY <1>5 DEF OthersConnect, screen, service, loop, TypeOK, Connecting
<1>6. ASSUME Refresh PROVE TypeOK'
  BY <1>6 DEF Refresh, Disconnected, Told, screen, service, loop, TypeOK
<1>7. ASSUME NEW t \in Tasks, GotConnection(t) PROVE TypeOK'
  BY <1>7
     DEF GotConnection, Proceed, Enter, Goes, Heard, Call, screen, service, loop,
         TypeOK, Connecting, Asking, Busy
<1>8. ASSUME NEW t \in Tasks, Attached(t) PROVE TypeOK'
  BY <1>8
     DEF Attached, Proceed, Enter, Goes, Heard, Call, Of, loop, TypeOK, Connecting,
         Asking, Busy
<1>9. ASSUME NEW t \in Tasks, Opened(t) PROVE TypeOK'
  BY <1>9
     DEF Opened, FirstEnds, Enter, Goes, Call, loop, TypeOK, Connecting, Asking, Busy
<1>10. ASSUME NEW t \in Screens, NEW e \in Reasons, FirstFails(t, e) PROVE TypeOK'
  BY <1>10
     DEF FirstFails, Heard, FirstEnds, Goes, Teardown, Disconnected, Told, service,
         TypeOK, Connecting
<1>11. ASSUME NEW t \in Loops, NEW e \in Reasons, LoopFails(t, e) PROVE TypeOK'
  BY <1>11
     DEF LoopFails, GiveUp, LoopEnds, Teardown, Disconnected, Told, Heard, Goes,
         screen, service, loop, TypeOK, Connecting, Busy
<1>12. ASSUME NEW t \in Loops, LoopStops(t) PROVE TypeOK'
  BY <1>12 DEF LoopStops, LoopEnds, Goes, screen, service, TypeOK, Connecting, Asking
<1>13. ASSUME NEW t \in Loops, LoopGivesUp(t) PROVE TypeOK'
  BY <1>13
     DEF LoopGivesUp, GiveUp, LoopEnds, Teardown, Disconnected, Told, Heard, Goes,
         TypeOK, Connecting
<1>14. ASSUME NEW t \in Loops, LoopAttempt(t) PROVE TypeOK'
  BY <1>14 DEF LoopAttempt, Told, Goes, screen, TypeOK, Connecting, Asking, Busy
<1>15. ASSUME NEW t \in Loops, LoopWakes(t) PROVE TypeOK'
  BY <1>15 DEF LoopWakes, Goes, screen, service, loop, TypeOK, Connecting, Asking, Busy
<1>16. ASSUME NEW t \in Loops, LoopSucceeds(t) PROVE TypeOK'
  BY <1>16
     DEF LoopSucceeds, LoopEnds, Goes, Heard, Disconnected, Told, service, TypeOK,
         Connecting
<1>17. ASSUME NEW s \in Screens, Open(s) PROVE TypeOK'
  BY <1>17 DEF Open, Noticed, Enter, Goes, Call, loop, TypeOK, Connecting, Asking, Busy
<1>18. ASSUME NEW s \in Screens, Retry(s) PROVE TypeOK'
  BY <1>18 DEF Retry, Enter, Goes, Call, loop, TypeOK, Connecting, Asking, Busy
<1>19. ASSUME NEW s \in Screens, Back(s) PROVE TypeOK'
  BY <1>19 DEF Back, Teardown, Disconnected, Told, TypeOK, Connecting
<1>20. ASSUME NEW s \in Screens, Disappear(s) PROVE TypeOK'
  BY <1>20 DEF Disappear, Teardown, Disconnected, Told, TypeOK, Connecting
<1>21. ASSUME NEW s \in Screens, StateChanged(s) PROVE TypeOK'
  BY <1>21
     DEF StateChanged, Noticed, HandleStreamClosed, StartLoop, Goes, loop, TypeOK,
         Connecting, Asking, Busy
<1>22. ASSUME StreamClosed PROVE TypeOK'
  BY <1>22
     DEF StreamClosed, HandleStreamClosed, StartLoop, Goes, loop, TypeOK, Connecting,
         Asking, Busy
<1>23. ASSUME GoBackground PROVE TypeOK'
  BY <1>23 DEF GoBackground, Disconnected, Told, loop, TypeOK, Connecting
<1>24. ASSUME GoForeground PROVE TypeOK'
  BY <1>24
     DEF GoForeground, HandleForegroundReturn, StartLoop, Goes, loop, TypeOK,
         Connecting, Asking, Busy
<1>25. ASSUME GoInactive PROVE TypeOK'
  BY <1>25 DEF GoInactive, service, loop, TypeOK, Connecting
<1>26. CASE UNCHANGED vars
  BY <1>26 DEF vars, screen, service, loop, TypeOK, Connecting
<1> QED
  BY <1>1, <1>2, <1>3, <1>4, <1>5, <1>6, <1>7, <1>8, <1>9, <1>10, <1>11, <1>12, <1>13,
     <1>14, <1>15, <1>16, <1>17, <1>18, <1>19, <1>20, <1>21, <1>22, <1>23, <1>24, <1>25,
     <1>26
     DEF Next, Manager, Step, Reasons

\* Every action keeps the invariant of a single screen.
LEMMA ScreenStep ==
  ASSUME OneScreen, ScreenInv, [Next]_vars
  PROVE  ScreenInv'
<1> USE ScreenAssumption DEF Tasks, Sessions
<1>1. ASSUME TaskStarts PROVE ScreenInv'
  <2>1. OwnerInv'
    BY <1>1 DEF TaskStarts, screen, service, ScreenInv, OwnerInv
  <2>2. FirstInv'
    BY <1>1 DEF TaskStarts, screen, service, ScreenInv, FirstInv
  <2>3. AnswerInv'
    BY <1>1 DEF TaskStarts, ScreenInv, AnswerInv
  <2>4. SessionInv'
    BY <1>1 DEF TaskStarts, screen, service, ScreenInv, SessionInv
  <2>5. OverlayHasLoop'
    BY <1>1 DEF TaskStarts, screen, service, loop, ScreenInv, OverlayHasLoop
  <2> QED
    BY <2>1, <2>2, <2>3, <2>4, <2>5, TypeStep DEF ScreenInv
<1>2. ASSUME Connected PROVE ScreenInv'
  <2>1. OwnerInv'
    BY <1>2 DEF Connected, screen, service, ScreenInv, OwnerInv
  <2>2. FirstInv'
    BY <1>2 DEF Connected, screen, service, ScreenInv, FirstInv
  <2>3. AnswerInv'
    BY <1>2 DEF Connected, Told, ScreenInv, AnswerInv
  <2>4. SessionInv'
    BY <1>2 DEF Connected, screen, service, ScreenInv, SessionInv
  <2>5. OverlayHasLoop'
    BY <1>2 DEF Connected, Told, screen, service, loop, ScreenInv, OverlayHasLoop
  <2> QED
    BY <2>1, <2>2, <2>3, <2>4, <2>5, TypeStep DEF ScreenInv
<1>3. ASSUME ConnectFails PROVE ScreenInv'
  <2>1. OwnerInv'
    BY <1>3 DEF ConnectFails, screen, service, ScreenInv, OwnerInv
  <2>2. FirstInv'
    BY <1>3 DEF ConnectFails, screen, service, ScreenInv, FirstInv
  <2>3. AnswerInv'
    BY <1>3 DEF ConnectFails, Told, ScreenInv, AnswerInv
  <2>4. SessionInv'
    BY <1>3 DEF ConnectFails, screen, service, ScreenInv, SessionInv
  <2>5. OverlayHasLoop'
    BY <1>3 DEF ConnectFails, Told, screen, service, loop, ScreenInv, OverlayHasLoop
  <2> QED
    BY <2>1, <2>2, <2>3, <2>4, <2>5, TypeStep DEF ScreenInv
<1>4. ASSUME ConnectionClosed PROVE ScreenInv'
  <2>1. OwnerInv'
    BY <1>4 DEF ConnectionClosed, screen, service, ScreenInv, OwnerInv
  <2>2. FirstInv'
    BY <1>4 DEF ConnectionClosed, screen, service, ScreenInv, FirstInv
  <2>3. AnswerInv'
    BY <1>4 DEF ConnectionClosed, ScreenInv, AnswerInv
  <2>4. SessionInv'
    BY <1>4 DEF ConnectionClosed, screen, service, ScreenInv, SessionInv
  <2>5. OverlayHasLoop'
    BY <1>4 DEF ConnectionClosed, screen, service, loop, ScreenInv, OverlayHasLoop
  <2> QED
    BY <2>1, <2>2, <2>3, <2>4, <2>5, TypeStep DEF ScreenInv
<1>5. ASSUME OthersConnect PROVE ScreenInv'
  <2>1. OwnerInv'
    BY <1>5 DEF OthersConnect, screen, service, ScreenInv, OwnerInv
  <2>2. FirstInv'
    BY <1>5 DEF OthersConnect, screen, service, ScreenInv, FirstInv
  <2>3. AnswerInv'
    BY <1>5 DEF OthersConnect, ScreenInv, AnswerInv
  <2>4. SessionInv'
    BY <1>5 DEF OthersConnect, screen, SessionInv
  <2>5. OverlayHasLoop'
    BY <1>5 DEF OthersConnect, screen, service, loop, ScreenInv, OverlayHasLoop
  <2> QED
    BY <2>1, <2>2, <2>3, <2>4, <2>5, TypeStep DEF ScreenInv
<1>6. ASSUME Refresh PROVE ScreenInv'
  <2>1. OwnerInv'
    BY <1>6 DEF Refresh, screen, service, ScreenInv, OwnerInv
  <2>2. FirstInv'
    BY <1>6 DEF Refresh, screen, service, ScreenInv, FirstInv
  <2>3. AnswerInv'
    BY <1>6 DEF Refresh, Disconnected, Told, ScreenInv, AnswerInv
  <2>4. SessionInv'
    BY <1>6 DEF Refresh, screen, SessionInv
  <2>5. OverlayHasLoop'
    BY <1>6 DEF Refresh, Shown, screen, TypeOK, ScreenInv, OverlayHasLoop
  <2> QED
    BY <2>1, <2>2, <2>3, <2>4, <2>5, TypeStep DEF ScreenInv
<1>7. ASSUME NEW t \in Tasks, GotConnection(t) PROVE ScreenInv'
  <2>1. OwnerInv'
    BY <1>7
       DEF GotConnection, Proceed, Enter, Goes, screen, service, TypeOK, ScreenInv,
           Asking, OwnerInv
  <2>2. FirstInv'
    BY <1>7
       DEF GotConnection, Proceed, Enter, Goes, screen, service, TypeOK, ScreenInv,
           Asking, FirstInv
  <2>3. AnswerInv'
    BY <1>7
       DEF GotConnection, Proceed, Enter, Goes, Heard, TypeOK, ScreenInv, Asking,
           AnswerInv
  <2>4. SessionInv'
    BY <1>7 DEF GotConnection, screen, service, ScreenInv, SessionInv
  <2>5. OverlayHasLoop'
    BY <1>7
       DEF GotConnection, Proceed, Enter, Goes, Heard, Call, screen, service, loop,
           TypeOK, ScreenInv, Asking, Busy, OverlayHasLoop
  <2> QED
    BY <2>1, <2>2, <2>3, <2>4, <2>5, TypeStep DEF ScreenInv
<1>8. ASSUME NEW t \in Tasks, Attached(t) PROVE ScreenInv'
  <2>1. OwnerInv'
    BY <1>8 DEF Attached, Proceed, Enter, Goes, TypeOK, ScreenInv, OwnerInv
  <2>2. FirstInv'
    BY <1>8 DEF Attached, Proceed, Enter, Goes, TypeOK, ScreenInv, FirstInv
  <2>3. AnswerInv'
    BY <1>8
       DEF Attached, Proceed, Enter, Goes, Heard, TypeOK, ScreenInv, Asking, AnswerInv
  <2>4. SessionInv'
    BY <1>8 DEF Attached, Of, OneScreen, TypeOK, ScreenInv, SessionInv
  <2>5. OverlayHasLoop'
    BY <1>8
       DEF Attached, Proceed, Enter, Goes, Heard, Call, loop, TypeOK, ScreenInv,
           Asking, Busy, OverlayHasLoop
  <2> QED
    BY <2>1, <2>2, <2>3, <2>4, <2>5, TypeStep DEF ScreenInv
<1>9. ASSUME NEW t \in Tasks, Opened(t) PROVE ScreenInv'
  <2>1. OwnerInv'
    BY <1>9 DEF Opened, FirstEnds, Enter, Goes, TypeOK, ScreenInv, OwnerInv
  <2>2. FirstInv'
    BY <1>9 DEF Opened, FirstEnds, OneScreen, ScreenInv, OwnerInv, FirstInv
  <2>3. AnswerInv'
    BY <1>9 DEF Opened, FirstEnds, Enter, Goes, TypeOK, ScreenInv, Asking, AnswerInv
  <2>4. SessionInv'
    BY <1>9 DEF Opened, ScreenInv, SessionInv
  <2>5. OverlayHasLoop'
    BY <1>9
       DEF Opened, FirstEnds, Enter, Goes, Call, loop, TypeOK, ScreenInv, Asking, Busy,
           OverlayHasLoop
  <2> QED
    BY <2>1, <2>2, <2>3, <2>4, <2>5, TypeStep DEF ScreenInv
<1>10. ASSUME NEW t \in Screens, NEW e \in Reasons, FirstFails(t, e) PROVE ScreenInv'
  <2>1. OwnerInv'
    BY <1>10
       DEF FirstFails, FirstEnds, Goes, Teardown, service, OneScreen, TypeOK,
           ScreenInv, OwnerInv
  <2>2. FirstInv'
    BY <1>10
       DEF FirstFails, FirstEnds, Goes, Teardown, service, TypeOK, ScreenInv, FirstInv
  <2>3. AnswerInv'
    BY <1>10
       DEF FirstFails, Heard, FirstEnds, Goes, Teardown, Disconnected, Told, TypeOK,
           ScreenInv, AnswerInv
  <2>4. SessionInv'
    BY <1>10 DEF FirstFails, Teardown, service, ScreenInv, SessionInv
  <2>5. OverlayHasLoop'
    BY <1>10
       DEF FirstFails, Heard, FirstEnds, Goes, Teardown, service, OneScreen, TypeOK,
           ScreenInv, OverlayHasLoop
  <2> QED
    BY <2>1, <2>2, <2>3, <2>4, <2>5, TypeStep DEF ScreenInv
<1>11. ASSUME NEW t \in Loops, NEW e \in Reasons, LoopFails(t, e) PROVE ScreenInv'
  <2>1. OwnerInv'
    BY <1>11
       DEF LoopFails, GiveUp, LoopEnds, Teardown, Goes, screen, service, OneScreen,
           TypeOK, ScreenInv, OwnerInv
  <2>2. FirstInv'
    BY <1>11
       DEF LoopFails, Errors, GiveUp, Teardown, screen, TypeOK, ScreenInv, Asking,
           FirstInv
  <2>3. AnswerInv'
    BY <1>11
       DEF LoopFails, GiveUp, LoopEnds, Teardown, Disconnected, Told, Heard, Goes,
           TypeOK, ScreenInv, AnswerInv
  <2>4. SessionInv'
    BY <1>11 DEF LoopFails, GiveUp, Teardown, screen, service, ScreenInv, SessionInv
  <2>5. OverlayHasLoop'
    BY <1>11
       DEF LoopFails, Errors, GiveUp, LoopEnds, Heard, Goes, Wanted, CanAutoReconnect,
           screen, service, loop, OneScreen, TypeOK, ScreenInv, Busy, OwnerInv,
           OverlayHasLoop
  <2> QED
    BY <2>1, <2>2, <2>3, <2>4, <2>5, TypeStep DEF ScreenInv
<1>12. ASSUME NEW t \in Loops, LoopStops(t) PROVE ScreenInv'
  <2>1. OwnerInv'
    BY <1>12 DEF LoopStops, LoopEnds, Goes, screen, service, ScreenInv, OwnerInv
  <2>2. FirstInv'
    BY <1>12 DEF LoopStops, screen, ScreenInv, FirstInv
  <2>3. AnswerInv'
    BY <1>12 DEF LoopStops, LoopEnds, Goes, ScreenInv, Asking, AnswerInv
  <2>4. SessionInv'
    BY <1>12 DEF LoopStops, screen, service, ScreenInv, SessionInv
  <2>5. OverlayHasLoop'
    BY <1>12
       DEF LoopStops, LoopEnds, Goes, Wanted, CanAutoReconnect, screen, service,
           TypeOK, ScreenInv, OwnerInv, OverlayHasLoop
  <2> QED
    BY <2>1, <2>2, <2>3, <2>4, <2>5, TypeStep DEF ScreenInv
<1>13. ASSUME NEW t \in Loops, LoopGivesUp(t) PROVE ScreenInv'
  <2>1. OwnerInv'
    BY <1>13 DEF LoopGivesUp, GiveUp, Teardown, OneScreen, TypeOK, ScreenInv, OwnerInv
  <2>2. FirstInv'
    BY <1>13 DEF LoopGivesUp, GiveUp, Teardown, ScreenInv, FirstInv
  <2>3. AnswerInv'
    BY <1>13
       DEF LoopGivesUp, GiveUp, LoopEnds, Teardown, Disconnected, Told, Heard, Goes,
           TypeOK, ScreenInv, AnswerInv
  <2>4. SessionInv'
    BY <1>13 DEF LoopGivesUp, GiveUp, Teardown, SessionInv
  <2>5. OverlayHasLoop'
    BY <1>13 DEF LoopGivesUp, GiveUp, Teardown, Wanted, ScreenInv, OverlayHasLoop
  <2> QED
    BY <2>1, <2>2, <2>3, <2>4, <2>5, TypeStep DEF ScreenInv
<1>14. ASSUME NEW t \in Loops, LoopAttempt(t) PROVE ScreenInv'
  <2>1. OwnerInv'
    BY <1>14 DEF LoopAttempt, Goes, screen, ScreenInv, OwnerInv
  <2>2. FirstInv'
    BY <1>14 DEF LoopAttempt, screen, ScreenInv, FirstInv
  <2>3. AnswerInv'
    BY <1>14 DEF LoopAttempt, Told, Goes, TypeOK, ScreenInv, Asking, AnswerInv
  <2>4. SessionInv'
    BY <1>14 DEF LoopAttempt, screen, ScreenInv, SessionInv
  <2>5. OverlayHasLoop'
    BY <1>14
       DEF LoopAttempt, Told, Goes, Wanted, screen, ScreenInv, Asking, Busy,
           OverlayHasLoop
  <2> QED
    BY <2>1, <2>2, <2>3, <2>4, <2>5, TypeStep DEF ScreenInv
<1>15. ASSUME NEW t \in Loops, LoopWakes(t) PROVE ScreenInv'
  <2>1. OwnerInv'
    BY <1>15 DEF LoopWakes, Goes, screen, service, ScreenInv, OwnerInv
  <2>2. FirstInv'
    BY <1>15 DEF LoopWakes, screen, ScreenInv, FirstInv
  <2>3. AnswerInv'
    BY <1>15 DEF LoopWakes, Goes, ScreenInv, Asking, AnswerInv
  <2>4. SessionInv'
    BY <1>15 DEF LoopWakes, screen, service, ScreenInv, SessionInv
  <2>5. OverlayHasLoop'
    BY <1>15 DEF LoopWakes, Goes, screen, service, loop, ScreenInv, Busy, OverlayHasLoop
  <2> QED
    BY <2>1, <2>2, <2>3, <2>4, <2>5, TypeStep DEF ScreenInv
<1>16. ASSUME NEW t \in Loops, LoopSucceeds(t) PROVE ScreenInv'
  <2>1. OwnerInv'
    BY <1>16 DEF LoopSucceeds, LoopEnds, Goes, service, ScreenInv, OwnerInv
  <2>2. FirstInv'
    BY <1>16 DEF LoopSucceeds, ScreenInv, FirstInv
  <2>3. AnswerInv'
    BY <1>16
       DEF LoopSucceeds, LoopEnds, Goes, Heard, Disconnected, Told, TypeOK, ScreenInv,
           AnswerInv
  <2>4. SessionInv'
    BY <1>16 DEF LoopSucceeds, service, ScreenInv, SessionInv
  <2>5. OverlayHasLoop'
    BY <1>16
       DEF LoopSucceeds, CanAutoReconnect, OneScreen, TypeOK, ScreenInv, OwnerInv,
           OverlayHasLoop
  <2> QED
    BY <2>1, <2>2, <2>3, <2>4, <2>5, TypeStep DEF ScreenInv
<1>17. ASSUME NEW s \in Screens, Open(s) PROVE ScreenInv'
  <2>1. OwnerInv'
    BY <1>17 DEF Open, Shown, Enter, Goes, TypeOK, ScreenInv, OwnerInv
  <2>2. FirstInv'
    BY <1>17 DEF Open, Enter, Goes, ScreenInv, FirstInv
  <2>3. AnswerInv'
    BY <1>17 DEF Open, Enter, Goes, TypeOK, ScreenInv, Asking, AnswerInv
  <2>4. SessionInv'
    BY <1>17 DEF Open, SessionInv
  <2>5. OverlayHasLoop'
    BY <1>17 DEF Open, Enter, Goes, loop, ScreenInv, OwnerInv, FirstInv, OverlayHasLoop
  <2> QED
    BY <2>1, <2>2, <2>3, <2>4, <2>5, TypeStep DEF ScreenInv
<1>18. ASSUME NEW s \in Screens, Retry(s) PROVE ScreenInv'
  <2>1. OwnerInv'
    BY <1>18 DEF Retry, Enter, Goes, ScreenInv, OwnerInv
  <2>2. FirstInv'
    BY <1>18 DEF Retry, Enter, Goes, ScreenInv, FirstInv
  <2>3. AnswerInv'
    BY <1>18 DEF Retry, Enter, Goes, TypeOK, ScreenInv, Asking, AnswerInv
  <2>4. SessionInv'
    BY <1>18 DEF Retry, SessionInv
  <2>5. OverlayHasLoop'
    BY <1>18 DEF Retry, Enter, Goes, loop, ScreenInv, OverlayHasLoop
  <2> QED
    BY <2>1, <2>2, <2>3, <2>4, <2>5, TypeStep DEF ScreenInv
<1>19. ASSUME NEW s \in Screens, Back(s) PROVE ScreenInv'
  <2>1. OwnerInv'
    BY <1>19 DEF Back, Teardown, OneScreen, TypeOK, ScreenInv, OwnerInv
  <2>2. FirstInv'
    BY <1>19 DEF Back, Teardown, ScreenInv, FirstInv
  <2>3. AnswerInv'
    BY <1>19 DEF Back, Teardown, Disconnected, Told, ScreenInv, AnswerInv
  <2>4. SessionInv'
    BY <1>19 DEF Back, SessionInv
  <2>5. OverlayHasLoop'
    BY <1>19 DEF Back, Teardown, OneScreen, TypeOK, ScreenInv, OverlayHasLoop
  <2> QED
    BY <2>1, <2>2, <2>3, <2>4, <2>5, TypeStep DEF ScreenInv
<1>20. ASSUME NEW s \in Screens, Disappear(s) PROVE ScreenInv'
  <2>1. OwnerInv'
    BY <1>20 DEF Disappear, Teardown, OneScreen, TypeOK, ScreenInv, OwnerInv
  <2>2. FirstInv'
    BY <1>20 DEF Disappear, Teardown, ScreenInv, FirstInv
  <2>3. AnswerInv'
    BY <1>20 DEF Disappear, Teardown, Disconnected, Told, ScreenInv, AnswerInv
  <2>4. SessionInv'
    BY <1>20 DEF Disappear, Teardown, SessionInv
  <2>5. OverlayHasLoop'
    BY <1>20 DEF Disappear, Teardown, OneScreen, TypeOK, ScreenInv, OverlayHasLoop
  <2> QED
    BY <2>1, <2>2, <2>3, <2>4, <2>5, TypeStep DEF ScreenInv
<1>21. ASSUME NEW s \in Screens, StateChanged(s) PROVE ScreenInv'
  <2>1. OwnerInv'
    BY <1>21 DEF StateChanged, OneScreen, ScreenInv, OwnerInv
  <2>2. FirstInv'
    BY <1>21 DEF StateChanged, OneScreen, ScreenInv, FirstInv
  <2>3. AnswerInv'
    BY <1>21
       DEF StateChanged, HandleStreamClosed, StartLoop, Goes, TypeOK, ScreenInv,
           Asking, AnswerInv
  <2>4. SessionInv'
    BY <1>21 DEF StateChanged, ScreenInv, SessionInv
  <2>5. OverlayHasLoop'
    BY <1>21
       DEF StateChanged, HandleStreamClosed, StartLoop, Goes, loop, TypeOK, ScreenInv,
           Asking, Busy, OwnerInv, AnswerInv, OverlayHasLoop
  <2> QED
    BY <2>1, <2>2, <2>3, <2>4, <2>5, TypeStep DEF ScreenInv
<1>22. ASSUME StreamClosed PROVE ScreenInv'
  <2>1. OwnerInv'
    BY <1>22
       DEF StreamClosed, HandleStreamClosed, StartLoop, Goes, TypeOK, ScreenInv,
           OwnerInv
  <2>2. FirstInv'
    BY <1>22 DEF StreamClosed, ScreenInv, FirstInv
  <2>3. AnswerInv'
    BY <1>22
       DEF StreamClosed, HandleStreamClosed, StartLoop, Goes, TypeOK, ScreenInv,
           Asking, AnswerInv
  <2>4. SessionInv'
    BY <1>22 DEF StreamClosed, ScreenInv, SessionInv
  <2>5. OverlayHasLoop'
    BY <1>22
       DEF StreamClosed, HandleStreamClosed, StartLoop, Goes, loop, TypeOK, ScreenInv,
           Asking, Busy, OwnerInv, AnswerInv, OverlayHasLoop
  <2> QED
    BY <2>1, <2>2, <2>3, <2>4, <2>5, TypeStep DEF ScreenInv
<1>23. ASSUME GoBackground PROVE ScreenInv'
  <2>1. OwnerInv'
    BY <1>23 DEF GoBackground, ScreenInv, OwnerInv
  <2>2. FirstInv'
    BY <1>23 DEF GoBackground, ScreenInv, FirstInv
  <2>3. AnswerInv'
    BY <1>23 DEF GoBackground, Disconnected, Told, ScreenInv, AnswerInv
  <2>4. SessionInv'
    BY <1>23 DEF GoBackground, Shown, SessionInv
  <2>5. OverlayHasLoop'
    BY <1>23 DEF GoBackground, OverlayHasLoop
  <2> QED
    BY <2>1, <2>2, <2>3, <2>4, <2>5, TypeStep DEF ScreenInv
<1>24. ASSUME GoForeground PROVE ScreenInv'
  <2>1. OwnerInv'
    BY <1>24
       DEF GoForeground, HandleForegroundReturn, StartLoop, Goes, TypeOK, ScreenInv,
           OwnerInv
  <2>2. FirstInv'
    BY <1>24 DEF GoForeground, OneScreen, TypeOK, ScreenInv, FirstInv
  <2>3. AnswerInv'
    BY <1>24
       DEF GoForeground, HandleForegroundReturn, StartLoop, Goes, TypeOK, ScreenInv,
           Asking, AnswerInv
  <2>4. SessionInv'
    BY <1>24 DEF GoForeground, SessionInv
  <2>5. OverlayHasLoop'
    <3>1. CASE fg = "background"
      BY <1>24, <3>1
         DEF GoForeground, Shown, HandleForegroundReturn, CanAutoReconnect, StartLoop,
             Goes, OneScreen, TypeOK, ScreenInv, Asking, Busy, OwnerInv, FirstInv,
             AnswerInv, SessionInv, OverlayHasLoop
    <3>2. ASSUME fg = "inactive", NEW s \in Screens, StartLoop(s)
          PROVE  OverlayHasLoop'
      BY <1>24, <3>2
         DEF GoForeground, StartLoop, Goes, OneScreen, TypeOK, ScreenInv, Asking, Busy,
             AnswerInv, OverlayHasLoop
    <3>3. CASE fg = "inactive" /\ UNCHANGED <<reconnecting, loopTask, at, loop>>
      BY <1>24, <3>3 DEF GoForeground, loop, ScreenInv, OverlayHasLoop
    <3>4. fg = "inactive" => \/ \E s \in Screens : StartLoop(s)
                             \/ UNCHANGED <<reconnecting, loopTask, at, loop>>
      BY <1>24 DEF GoForeground, HandleForegroundReturn, TypeOK, ScreenInv
    <3> QED
      BY <1>24, <3>1, <3>2, <3>3, <3>4 DEF GoForeground
  <2> QED
    BY <2>1, <2>2, <2>3, <2>4, <2>5, TypeStep DEF ScreenInv
<1>25. ASSUME GoInactive PROVE ScreenInv'
  <2>1. OwnerInv' /\ FirstInv' /\ AnswerInv' /\ SessionInv'
    BY <1>25
       DEF GoInactive, service, loop, ScreenInv, OwnerInv, FirstInv, AnswerInv, SessionInv
  <2>2. OverlayHasLoop'
    BY <1>25 DEF GoInactive, service, loop, ScreenInv, OverlayHasLoop
  <2> QED
    BY <2>1, <2>2, TypeStep DEF ScreenInv
<1>26. CASE UNCHANGED vars
  BY <1>26
     DEF vars, screen, service, loop, TypeOK, ScreenInv, Connecting, OwnerInv,
         FirstInv, AnswerInv, SessionInv, OverlayHasLoop
<1> QED
  BY <1>1, <1>2, <1>3, <1>4, <1>5, <1>6, <1>7, <1>8, <1>9, <1>10, <1>11, <1>12, <1>13,
     <1>14, <1>15, <1>16, <1>17, <1>18, <1>19, <1>20, <1>21, <1>22, <1>23, <1>24, <1>25,
     <1>26
     DEF Next, Manager, Step, Reasons

LEMMA Initially == Init => ScreenInv
<1> SUFFICES ASSUME Init PROVE ScreenInv
  OBVIOUS
<1>1. TypeOK
  BY ScreenAssumption DEF Init, TypeOK
<1>2. OwnerInv
  BY ScreenAssumption DEF Init, OwnerInv, Tasks
<1>3. FirstInv /\ AnswerInv /\ SessionInv /\ OverlayHasLoop
  BY ScreenAssumption DEF Init, FirstInv, AnswerInv, SessionInv, OverlayHasLoop, Tasks
<1> QED
  BY <1>1, <1>2, <1>3 DEF ScreenInv

-----------------------------------------------------------------------------
(* The theorems                                                            *)

(***************************************************************************)
(* The types, for any number of screens, loops and attempts, and with them *)
(* that no task is ever left waiting: whoever waits for a connection waits *)
(* for a connect that is under way, since whoever ends or drops a connect  *)
(* answers all who wait for it.                                            *)
(***************************************************************************)
THEOREM TypeCorrectness == Spec => []TypeOK
<1>1. Init => TypeOK
  BY Initially DEF ScreenInv
<1>2. TypeOK /\ [Next]_vars => TypeOK'
  BY TypeStep
<1> QED
  BY <1>1, <1>2, PTL DEF Spec

(***************************************************************************)
(* Where one screen is opened, its overlay is backed by a loop that nobody *)
(* has cancelled or cut off, however losses, answers, retries and the      *)
(* phases of the app follow one another.                                   *)
(***************************************************************************)
THEOREM OverlayIsBacked == OneScreen => (Spec => []OverlayHasLoop)
<1> SUFFICES ASSUME OneScreen PROVE Spec => []OverlayHasLoop
  OBVIOUS
<1>1. ScreenInv /\ [Next]_vars => ScreenInv'
  BY ScreenStep
<1>2. ScreenInv => OverlayHasLoop
  BY DEF ScreenInv
<1> QED
  BY Initially, <1>1, <1>2, PTL DEF Spec

=============================================================================
