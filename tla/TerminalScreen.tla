--------------------------- MODULE TerminalScreen ---------------------------
(***************************************************************************)
(* The terminal screens of the iOS client, opened one after another for    *)
(* the same device, and the NabtoService they share: the first connect and *)
(* attach, the data stream, and the reconnect loops                        *)
(* (clients/ios/TmuxRemote/Views/TerminalScreen.swift,                     *)
(* Services/NabtoService.swift).                                           *)
(*                                                                         *)
(* All of it runs on the main actor: a step is a job, from one await to    *)
(* the next.  A task that was cancelled goes on when its await ends, since *)
(* no call of the SDK and no await of another task's value hears of it.    *)
(* The tasks are the connectAndAttach of each screen, named like the       *)
(* screen, and the reconnect loops.  The connection manager appears as     *)
(* what it promises its callers (module ConnectionManager has its inside): *)
(* those that find no connection wait for one and the same connect, and    *)
(* who drops that connect cuts off all of them.                            *)
(***************************************************************************)
EXTENDS Naturals, FiniteSets

CONSTANTS Screens,      \* screens that can be opened
          NLoops,       \* reconnect loops that can be under way at a time
          Session,      \* [Screens -> the tmux session of the screen]
          MaxAttempts,  \* attempts that fit into maxTotalTime
          MaxTasks,     \* tasks under way when a loop or a retry can start
          None

Sessions == {Session[s] : s \in Screens}
Loops == 1 .. NLoops
Tasks == Screens \cup Loops

ASSUME ScreenAssumption ==
    /\ NLoops \in Nat /\ MaxAttempts \in Nat \ {0} /\ MaxTasks \in Nat
    /\ Screens \cap Loops = {}
    /\ None \notin Tasks /\ None \notin Sessions

VARIABLES
    fg,            \* scenePhase; "background" until it is "active" again
    scr,           \* [Screens -> "new", "open", "leaving" (dismissing), "gone"]
    done,          \* screens with initialConnectionDone
    reconnecting,  \* screens with isReconnecting: they show the overlay
    alert,         \* screens with showError
    stray,         \* history: screens attached while the app was in the background
    seen,          \* the device state that onChange has seen last, as "disconnected"
                   \* or "other"
    context,       \* the screen whose reconnectContext and onStreamClosed are set
    loopTask,      \* reconnectTask; every other loop has been cancelled
    stream,        \* "open" if the stream has a read task, else "none"
    session,       \* currentSession
    device,        \* "yes" if there is a currentDeviceId
    conn,          \* the manager: "none", "created", "pending" connect, or "up"
    state,         \* deviceStates[deviceId]; what the code does not tell apart
                   \* (connecting, reconnecting, offline) is "other"
    at,            \* [Tasks -> where the task is]
    answer,        \* [Tasks -> what connection(for:) has answered it]
    of,            \* [Loops -> the screen the loop was started by]
    tries          \* [Loops -> attempts it has begun]

screen == <<fg, scr, done, reconnecting, alert, stray, seen>>
service == <<context, loopTask, stream, session, device>>
loop == <<of, tries>>
vars == <<screen, service, conn, state, at, answer, loop>>

\* Awaiting connection(for:), and the call to the SDK that comes after it.
Asking == {"connect", "attach", "open", "resize"}
Call(p) == CASE p = "connect" -> "attaching"
             [] p = "attach" -> "attaching"
             [] p = "open" -> "opening"
             [] p = "resize" -> "resizing"
Busy == Asking \cup {"attaching", "opening", "resizing", "top", "sleep"}

Init ==
    /\ fg = "active"
    /\ scr = [s \in Screens |-> "new"]
    /\ done = {} /\ reconnecting = {} /\ alert = {} /\ stray = {}
    /\ seen = "disconnected"
    /\ context = None /\ loopTask = None
    /\ stream = "none" /\ session = None /\ device = "no"
    /\ conn = "none" /\ state = "disconnected"
    /\ at = [t \in Tasks |-> "idle"]
    /\ answer = [t \in Tasks |-> "none"]
    /\ of \in [Loops -> Screens]
    /\ tries = [l \in Loops |-> 0]

Noticed == IF state = "disconnected" THEN state ELSE "other"
Shown(s) == scr[s] \in {"open", "leaving"}
Of(t) == IF t \in Screens THEN t ELSE of[t]
CanAutoReconnect(s) == context # None /\ Session[context] = Session[s]

Goes(t, p) == at' = [at EXCEPT ![t] = p]
\* One more task fits under the bound.
Fits == Cardinality({t \in Tasks : at[t] # "idle"}) < MaxTasks

Heard(t) == [answer EXCEPT ![t] = "none"]

-----------------------------------------------------------------------------
(* The connection manager                                                  *)

Connecting == conn \in {"created", "pending"}

\* What the tasks that wait for the connect are answered.
Told(ans, a) == [t \in Tasks |-> IF ans[t] = "wait" THEN a ELSE ans[t]]

\* Task t calls connection(for:) for step p, and goes on at once if it can.
Enter(t, p) ==
    /\ Goes(t, IF conn = "up" THEN Call(p) ELSE p)
    /\ answer' = [answer EXCEPT ![t] = IF conn = "up" THEN "none" ELSE "wait"]
    /\ conn' = IF conn = "none" THEN "created" ELSE conn
    /\ UNCHANGED state

\* disconnect(deviceId:), by a task whose answers are ans.
Disconnected(ans) ==
    /\ conn' = "none"
    /\ state' = "disconnected"
    /\ answer' = Told(ans, "cut")

TaskStarts ==
    /\ conn = "created"
    /\ conn' = "pending"
    /\ state' = "other"
    /\ UNCHANGED <<screen, service, at, answer, loop>>

Connected ==
    /\ conn = "pending"
    /\ conn' = "up"
    /\ state' = "connected"
    /\ answer' = Told(answer, "ok")
    /\ UNCHANGED <<screen, service, at, loop>>

\* Mutant of ConnectFails: its callers are left waiting.
ConnectFailsSilently ==
    /\ Connecting
    /\ conn' = "none"
    /\ state' = "disconnected"
    /\ UNCHANGED <<screen, service, at, answer, loop>>

ConnectFails ==
    /\ Connecting
    /\ conn' = "none"
    /\ state' = "disconnected"
    /\ answer' = Told(answer, "failed")
    /\ UNCHANGED <<screen, service, at, loop>>

\* handleConnectionClosed; the event may be late and meet the next connect.
ConnectionClosed ==
    /\ conn # "none"
    /\ conn' = IF conn = "up" THEN "none" ELSE conn
    /\ state' = "disconnected"
    /\ UNCHANGED <<screen, service, at, answer, loop>>

\* The warmed cache and the device list want a connection too.
OthersConnect ==
    /\ fg = "active"
    /\ conn = "none"
    /\ conn' = "created"
    /\ UNCHANGED <<screen, service, state, at, answer, loop>>

\* Only the device list drops connections, where no screen covers it.
Refresh ==
    /\ fg = "active" /\ \A s \in Screens : ~Shown(s)
    /\ Disconnected(answer)
    /\ UNCHANGED <<screen, service, at, loop>>

Manager == \/ TaskStarts \/ Connected \/ ConnectFails
           \/ ConnectionClosed \/ OthersConnect \/ Refresh

-----------------------------------------------------------------------------
(* Leaving a screen                                                        *)

\* What dismissToDevices and onDisappear do, NabtoService.disconnect(keepConnection:
\* true) included; st and ans are the state and the answers until then.
Teardown(s, phase, st, ans) ==
    /\ scr' = [scr EXCEPT ![s] = IF @ = "gone" THEN "gone" ELSE phase]
    /\ context' = None /\ loopTask' = None
    /\ stream' = "none" /\ session' = None /\ device' = "no"
    /\ IF device = "yes" /\ Connecting
         THEN Disconnected(ans)
         ELSE conn' = conn /\ state' = st /\ answer' = ans

\* The "Agents" button, the overlay's button, or "Back" in the alert.
Back(s) ==
    /\ fg = "active" /\ Shown(s)
    /\ Teardown(s, "leaving", state, answer)
    /\ alert' = alert \ {s}
    /\ UNCHANGED <<fg, done, reconnecting, stray, seen, at, of, tries>>

\* onDisappear: the screen is popped, with or without dismissToDevices.
Disappear(s) ==
    /\ Shown(s)
    /\ Teardown(s, "gone", state, answer)
    /\ UNCHANGED <<fg, done, reconnecting, alert, stray, seen, at, of, tries>>

-----------------------------------------------------------------------------
(* The first connect: onReady, the task it starts, connectAndAttach        *)

Open(s) ==
    /\ fg = "active"
    /\ scr[s] = "new" /\ \A r \in Screens : ~Shown(r)
    /\ scr' = [scr EXCEPT ![s] = "open"]
    /\ context' = s /\ device' = "yes"
    /\ seen' = Noticed
    /\ Enter(s, "connect")
    /\ UNCHANGED <<fg, done, reconnecting, alert, stray, loopTask, stream, session, loop>>

\* "Retry" in the alert.
Retry(s) ==
    /\ Fits
    /\ fg = "active"
    /\ scr[s] = "open" /\ s \in alert /\ at[s] = "idle"
    /\ alert' = alert \ {s}
    /\ device' = "yes"
    /\ Enter(s, "connect")
    /\ UNCHANGED <<fg, scr, done, reconnecting, stray, seen,
                   context, loopTask, stream, session, loop>>

\* The task ends and, unless the screen is being left, the first connect is done.
FirstEnds(s) ==
    /\ Goes(s, "idle")
    /\ done' = IF scr'[s] = "open" THEN done \cup {s} ELSE done

\* Between its steps connectAndAttach looks whether it is still wanted.
Proceed(t, p) ==
    IF t \in Loops \/ scr[t] = "open"
      THEN Enter(t, p)
      ELSE Goes(t, "idle") /\ answer' = Heard(t) /\ UNCHANGED <<conn, state>>

\* The error that ends a step: a connect that was cut off throws what came
\* first, CancellationError or the SDK's; "refused" stands for connectionFailed
\* and for a device that is offline, "notFound" for a 404.
Errors(t) ==
    CASE at[t] \in Asking /\ answer[t] = "failed" -> {"refused", "other"}
      [] at[t] \in Asking /\ answer[t] = "cut"    -> {"cancelled", "other"}
      [] at[t] = "attaching"                      -> {"notFound", "refused", "other"}
      [] at[t] = "opening"                        -> {"refused", "other"}
      [] OTHER                                    -> {}

FirstFails(s, e) ==
    /\ e \in Errors(s)
    /\ \/ /\ e \in {"cancelled", "other"}
          /\ answer' = Heard(s)
          /\ alert' = IF e = "other" THEN alert \cup {s} ELSE alert
          /\ UNCHANGED <<scr, service, conn, state>>
       \/ /\ e \in {"notFound", "refused"}
          /\ Teardown(s, "leaving", state, Heard(s))
          /\ UNCHANGED alert
    /\ FirstEnds(s)
    /\ UNCHANGED <<fg, reconnecting, stray, seen, of, tries>>

-----------------------------------------------------------------------------
(* The steps of connectAndAttach and of a reconnect attempt                *)

\* connection(for:) returns; connect has no use for the connection.
GotConnection(t) ==
    /\ at[t] \in Asking /\ answer[t] = "ok"
    /\ IF at[t] = "connect"
         THEN Proceed(t, "attach")
         ELSE Goes(t, Call(at[t])) /\ answer' = Heard(t) /\ UNCHANGED <<conn, state>>
    /\ UNCHANGED <<screen, service, loop>>

\* attach: the agent answers 201.
Attached(t) ==
    /\ at[t] = "attaching"
    /\ session' = Session[Of(t)]
    /\ device' = "yes"
    /\ stray' = IF fg = "background" THEN stray \cup {Of(t)} ELSE stray
    /\ Proceed(t, "open")
    /\ UNCHANGED <<fg, scr, done, reconnecting, alert, seen,
                   context, loopTask, stream, loop>>

\* openStream: the stream is kept and read, whoever still wants it.
Opened(t) ==
    /\ at[t] = "opening"
    /\ stream' = "open"
    /\ UNCHANGED <<fg, scr, reconnecting, alert, stray, seen,
                   context, loopTask, session, device, loop>>
    /\ IF t \in Loops
         THEN Enter(t, "resize") /\ UNCHANGED done
         ELSE /\ FirstEnds(t)
              /\ UNCHANGED <<conn, state, answer>>

-----------------------------------------------------------------------------
(* attemptReconnect                                                        *)

Wanted(l) == l = loopTask /\ CanAutoReconnect(of[l])

LoopEnds(l) == Goes(l, "idle") /\ tries' = [tries EXCEPT ![l] = 0]

\* onGiveUp, which takes the screen away.
GiveUp(l) ==
    /\ Teardown(of[l], "leaving", "other", Heard(l))
    /\ reconnecting' = reconnecting \ {of[l]}
    /\ LoopEnds(l)
    /\ UNCHANGED <<fg, done, alert, stray, seen, of>>

LoopStops(l) ==
    /\ at[l] = "top"
    /\ ~Wanted(l)
    /\ LoopEnds(l)
    /\ UNCHANGED <<screen, service, conn, state, answer, of>>

\* maxTotalTime is over: with backoff and timeouts after some attempts, the more
\* of them the faster they fail.
LoopGivesUp(l) ==
    /\ at[l] = "top"
    /\ Wanted(l) /\ tries[l] > 0
    /\ GiveUp(l)

\* Mutant of LoopAttempt: the attempts are not counted.
LoopAttemptUncounted(l) ==
    /\ at[l] = "top"
    /\ Wanted(l) /\ tries[l] < MaxAttempts
    /\ conn' = "created"
    /\ state' = "other"
    /\ answer' = [Told(answer, "cut") EXCEPT ![l] = "wait"]
    /\ device' = "yes"
    /\ Goes(l, "connect")
    /\ UNCHANGED <<screen, context, loopTask, stream, session, loop>>

\* An attempt drops the connection and the connect there is, and asks anew.
LoopAttempt(l) ==
    /\ at[l] = "top"
    /\ Wanted(l) /\ tries[l] < MaxAttempts
    /\ tries' = [tries EXCEPT ![l] = @ + 1]
    /\ conn' = "created"
    /\ state' = "other"
    /\ answer' = [Told(answer, "cut") EXCEPT ![l] = "wait"]
    /\ device' = "yes"
    /\ Goes(l, "connect")
    /\ UNCHANGED <<screen, context, loopTask, stream, session, of>>

(***************************************************************************)
(* The step of an attempt fails.  A CancellationError ends the loop        *)
(* without a word, whoever caused it; a session that is gone makes it give *)
(* up, wanted or not; after any other error it backs off.                  *)
(***************************************************************************)
LoopFails(l, e) ==
    /\ at[l] # "resize"
    /\ e \in Errors(l)
    /\ \/ e = "notFound" /\ GiveUp(l)
       \/ /\ e = "cancelled" \/ (e # "notFound" /\ ~Wanted(l))
          /\ LoopEnds(l)
          /\ answer' = Heard(l)
          /\ UNCHANGED <<screen, service, conn, state, of>>
       \/ /\ e \in {"refused", "other"} /\ Wanted(l)
          /\ Goes(l, "sleep")
          /\ state' = "other"
          /\ answer' = Heard(l)
          /\ UNCHANGED <<screen, service, conn, loop>>

\* The backoff is over, or was cut short because the loop was cancelled.
LoopWakes(l) ==
    /\ at[l] = "sleep"
    /\ Goes(l, "top")
    /\ UNCHANGED <<screen, service, conn, state, answer, loop>>

\* resize has come to an end, whatever its outcome.
LoopSucceeds(l) ==
    /\ \/ at[l] = "resizing"
       \/ at[l] = "resize" /\ answer[l] \in {"failed", "cut"}
    /\ LoopEnds(l)
    /\ IF CanAutoReconnect(of[l])
         THEN /\ reconnecting' = reconnecting \ {of[l]}
              /\ answer' = Heard(l)
              /\ UNCHANGED <<conn, state>>
         ELSE /\ Disconnected(Heard(l))
              /\ UNCHANGED reconnecting
    /\ UNCHANGED <<fg, scr, done, alert, stray, seen, service, of>>

-----------------------------------------------------------------------------
(* What makes a screen reconnect                                           *)

\* The rest of attemptReconnect: another loop takes the place of the last one.
StartLoop(s) ==
    \E l \in Loops :
        /\ Fits /\ at[l] = "idle" /\ \A k \in 1 .. l - 1 : at[k] # "idle"
        /\ reconnecting' = reconnecting \cup {s}
        /\ loopTask' = l
        /\ of' = [of EXCEPT ![l] = s]
        /\ tries' = [tries EXCEPT ![l] = 0]
        /\ Goes(l, "top")

HandleStreamClosed(s) ==
    IF CanAutoReconnect(s) /\ s \notin reconnecting
      THEN StartLoop(s)
      ELSE UNCHANGED <<reconnecting, loopTask, at, loop>>

\* The read loop of the stream ends with an error.
StreamClosed ==
    /\ stream = "open"
    /\ stream' = "none"
    /\ IF context = None
         THEN UNCHANGED <<reconnecting, loopTask, at, loop>>
         ELSE HandleStreamClosed(context)
    /\ UNCHANGED <<fg, scr, done, alert, stray, seen, context, session,
                   device, conn, state, answer>>

\* onChange of the device's state.
StateChanged(s) ==
    /\ Shown(s)
    /\ seen # Noticed
    /\ seen' = Noticed
    /\ IF state = "disconnected" /\ s \in done /\ scr[s] = "open" /\ fg = "active"
         THEN HandleStreamClosed(s)
         ELSE UNCHANGED <<reconnecting, loopTask, at, loop>>
    /\ UNCHANGED <<fg, scr, done, alert, stray, context, stream, session,
                   device, conn, state, answer>>

\* Control Center or the app switcher covers the screen: nobody is told.
GoInactive ==
    /\ fg = "active"
    /\ fg' = "inactive"
    /\ UNCHANGED <<scr, done, reconnecting, alert, stray, seen, service,
                   conn, state, at, answer, loop>>

\* The screen's closeStream and RootView's disconnectAll.
GoBackground ==
    /\ fg \in {"active", "inactive"}
    /\ fg' = "background"
    /\ IF \E s \in Screens : Shown(s)
         THEN stream' = "none" /\ session' = None
         ELSE UNCHANGED <<stream, session>>
    /\ IF conn = "none"
         THEN UNCHANGED <<conn, state, answer>>
         ELSE Disconnected(answer)
    /\ UNCHANGED <<scr, done, reconnecting, alert, stray, seen,
                   context, loopTask, device, at, loop>>

\* Mutant of HandleForegroundReturn: a screen that is reconnecting is left alone.
HandleForegroundReturnOnce(s) ==
    IF /\ CanAutoReconnect(s) /\ s \notin reconnecting
       /\ state # "connected" \/ session = None
      THEN StartLoop(s)
      ELSE UNCHANGED <<reconnecting, loopTask, at, loop>>

\* A loop is started even if there is one: its connect may have been cut off.
HandleForegroundReturn(s) ==
    IF /\ CanAutoReconnect(s)
       /\ state # "connected" \/ session = None
      THEN StartLoop(s)
      ELSE UNCHANGED <<reconnecting, loopTask, at, loop>>

GoForeground ==
    /\ fg \in {"inactive", "background"}
    /\ fg' = "active"
    /\ \/ \E s \in done : Shown(s) /\ HandleForegroundReturn(s)
       \/ /\ \A s \in done : ~Shown(s)
          /\ UNCHANGED <<reconnecting, loopTask, at, loop>>
    /\ UNCHANGED <<scr, done, alert, stray, seen, context, stream, session,
                   device, conn, state, answer>>

-----------------------------------------------------------------------------

\* The jobs of a task that is under way.
Step(t) ==
    \/ GotConnection(t) \/ Attached(t) \/ Opened(t)
    \/ \E e \in {"cancelled", "notFound", "refused", "other"} :
          \/ t \in Screens /\ FirstFails(t, e)
          \/ t \in Loops /\ LoopFails(t, e)
    \/ /\ t \in Loops
       /\ \/ LoopStops(t) \/ LoopGivesUp(t) \/ LoopAttempt(t) \/ LoopWakes(t)
          \/ LoopSucceeds(t)

Next ==
    \/ Manager
    \/ \E t \in Tasks : Step(t)
    \/ \E s \in Screens : \/ Open(s) \/ Retry(s) \/ Back(s) \/ Disappear(s)
                          \/ StateChanged(s)
    \/ StreamClosed \/ GoInactive \/ GoBackground \/ GoForeground

Spec == Init /\ [][Next]_vars

(***************************************************************************)
(* The main actor runs every job, and the SDK answers every call: a        *)
(* connect at the latest after ten seconds.                                *)
(***************************************************************************)
FairSpec ==
    /\ Spec
    /\ WF_vars(TaskStarts \/ Connected \/ ConnectFails)
    /\ \A t \in Tasks : WF_vars(Step(t))

-----------------------------------------------------------------------------

\* Types; and a task waits for a connection only while a connect is under way.
TypeOK ==
    /\ fg \in {"active", "inactive", "background"}
    /\ scr \in [Screens -> {"new", "open", "leaving", "gone"}]
    /\ {done, reconnecting, alert, stray} \subseteq SUBSET Screens
    /\ state \in {"disconnected", "connected", "other"} /\ seen \in {"disconnected", "other"}
    /\ session \in Sessions \cup {None}
    /\ context \in Screens \cup {None} /\ loopTask \in Loops \cup {None}
    /\ stream \in {"none", "open"} /\ device \in {"yes", "no"}
    /\ conn \in {"none", "created", "pending", "up"}
    /\ at \in [Tasks -> Busy \cup {"idle"}]
    /\ answer \in [Tasks -> {"none", "wait", "ok", "failed", "cut"}]
    /\ of \in [Loops -> Screens] /\ tries \in [Loops -> 0 .. MaxAttempts]
    /\ \A t \in Tasks : answer[t] = "wait" => Connecting /\ at[t] \in Asking

(***************************************************************************)
(* The "Reconnecting..." overlay of a screen is backed by a loop that will *)
(* take it away: one that nobody has cancelled or cut off.  A loop whose   *)
(* connect is cancelled by disconnectAll ends without a word, and only the *)
(* loop started on the return to the foreground, reconnecting or not,      *)
(* makes up for that.                                                      *)
(***************************************************************************)
OverlayHasLoop ==
    \A s \in reconnecting \ stray : scr[s] = "open" /\ fg # "background" =>
        \E l \in Loops : l = loopTask /\ of[l] = s /\ at[l] \in Busy /\ answer[l] # "cut"

\* The overlay goes away: by success or with the screen, unless the app stops being
\* active, each return from which starts the loop and its attempts over.
ReconnectSettles ==
    \A s \in Screens :
        (scr[s] = "open" /\ s \in reconnecting)
            ~> (scr[s] # "open" \/ s \notin reconnecting \/ s \in stray \/ fg # "active")

(***************************************************************************)
(* "an orphaned reconnect task ... kept interfering with subsequent        *)
(* connection attempts": the loop of a screen that is gone neither cuts    *)
(* off a task of the screen that is open nor takes its reconnect context.  *)
(***************************************************************************)
OrphansStayAway ==
    [][\A l \in Loops, s \in Screens :
          scr[of[l]] = "gone" /\ at'[l] # at[l] /\ scr[s] = "open" =>
              /\ CanAutoReconnect(s) => CanAutoReconnect(s)'
              /\ \A t \in Tasks : Of(t) = s /\ answer[t] = "wait" => answer'[t] # "cut"]_vars

=============================================================================
