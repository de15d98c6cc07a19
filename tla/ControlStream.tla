--------------------------- MODULE ControlStream ---------------------------
(***************************************************************************)
(* The control streams of the agent (agent/src/tmuxremote_control_stream.c)*)
(* and every thread that touches them:                                     *)
(*   - "core", the Nabto event loop: it runs the SDK's callbacks and        *)
(*     completes reads and writes on live connections (DESIGN.md 7.11);     *)
(*   - the reader thread of each control stream, named by the stream;      *)
(*   - "monitor", the one session and prompt synchronisation thread;       *)
(*   - "pty", the PTY reader of the data stream, whose detector emits the  *)
(*     prompt events;                                                      *)
(*   - "main", which shuts the agent down (agent/src/main.c).              *)
(* They share four kinds of mutex: A (activeStreamsMutex of the data       *)
(* streams), D (the detector's), L (streamListMutex) and W (one writeMutex *)
(* per control stream).  Control stream objects are reference counted: the *)
(* list owns one reference, a thread that sends retains another, and the   *)
(* last release joins the reader thread and frees the object.              *)
(*                                                                         *)
(* The control streams belong to the connection of the one data stream.    *)
(* The prompt is abstracted to active or not, the tmux session list to a   *)
(* version number, and the frames to their kind.                           *)
(***************************************************************************)
EXTENDS Naturals, FiniteSets

CONSTANTS Streams,         \* control stream objects, and their reader threads
          NoThread,
          MaxSessionChanges,\* bound: changes of the tmux session list
          MaxFeeds,        \* bound: prompts that come and go on the screen
          ClientResolves,  \* BOOLEAN: do clients send pattern_resolve?
          DataCallbacks,   \* BOOLEAN: do data streams open or close meanwhile?
          Shutdown,        \* BOOLEAN: may the agent be shut down?
          ResourcesFail    \* BOOLEAN: may a future or a thread not be created?

ASSUME ControlAssumption ==
    /\ IsFiniteSet(Streams)
    /\ MaxSessionChanges \in Nat /\ MaxFeeds \in Nat
    /\ {ClientResolves, DataCallbacks, Shutdown, ResourcesFail} \subseteq BOOLEAN
    /\ Streams \cap {"core", "monitor", "pty", "main"} = {}
    /\ NoThread \notin Streams \cup {"core", "monitor", "pty", "main"}

Threads == Streams \cup {"core", "monitor", "pty", "main"}
Senders == Streams \cup {"monitor", "pty"}
Owners == Senders \cup {"main"}

VARIABLES
    \* control stream objects
    listed,       \* activeStreams
    freed,        \* objects already freed
    closing,      \* closing flags that are set
    promptSync, sessionSync,  \* streams whose needs...Sync flag is set
    refs,         \* [Streams -> Nat] refCount
    \* threads
    pc,           \* [Threads -> program counter]
    target,       \* [Threads -> the stream it is busy with]
    todo,         \* [Owners -> streams still to be written to or released]
    msg,          \* [Senders -> frame being sent]
    lockA, lockD, lockL, lockW,
    retained,     \* what the monitor retained in this round
    \* the monitor's state and the agent's
    monitorStop, current, prev,
    active,       \* the detector has an active prompt
    dataClosing,  \* the data stream is being shut down
    destroyedA,   \* activeStreamsMutex was destroyed
    up,           \* the connection is up (the SDK's state)
    sessions,     \* the tmux server's list, as a version
    feeds,        \* snapshots so far that made or ended a prompt
    overlay, known \* what the client of each stream shows and knows

objects == <<listed, freed, closing, promptSync, sessionSync, refs>>
locks == <<lockA, lockD, lockL, lockW>>
sends == <<target, todo, msg, retained>>
agent == <<monitorStop, current, prev, active, dataClosing, destroyedA>>
world == <<up, sessions, feeds>>
client == <<overlay, known>>
vars == <<objects, pc, sends, locks, agent, world, client>>

NoList == 0   \* hasPrev is false; list versions start at 1

-----------------------------------------------------------------------------
Init == /\ listed = {} /\ freed = {} /\ closing = {}
        /\ promptSync = {} /\ sessionSync = {}
        /\ refs = [s \in Streams |-> 0]
        /\ pc = [t \in Threads |-> CASE t = "core" -> "idle"
                                     [] t = "pty" -> "read"
                                     [] t = "main" -> "run"
                                     [] OTHER -> "unborn"]
        /\ target = [t \in Threads |-> NoThread]
        /\ todo = [t \in Owners |-> {}]
        /\ msg = [t \in Senders |-> "none"]
        /\ lockA = NoThread /\ lockD = NoThread /\ lockL = NoThread
        /\ lockW = [s \in Streams |-> NoThread]
        /\ retained = {}
        /\ monitorStop = FALSE /\ current = NoList /\ prev = NoList
        /\ active = FALSE /\ dataClosing = FALSE /\ destroyedA = FALSE
        /\ up = TRUE /\ sessions = 1 /\ feeds = 0
        /\ overlay = [s \in Streams |-> FALSE]
        /\ known = [s \in Streams |-> NoList]

Goto(t, label) == pc' = [pc EXCEPT ![t] = label]

\* Mutant of Release: the reader thread is not joined.
ReleaseDetaches(t, s, label, joining) ==
    /\ refs' = [refs EXCEPT ![s] = @ - 1]
    /\ freed' = IF refs[s] > 1 THEN freed ELSE freed \cup {s}
    /\ Goto(t, label)

(***************************************************************************)
(* control_stream_release_impl by thread t, which goes on at "label", or   *)
(* at "joining" when it holds the last reference and the reader thread is  *)
(* still running.  A thread that would join itself gets EDEADLK and frees  *)
(* the object at once.                                                     *)
(***************************************************************************)
Release(t, s, label, joining) ==
    /\ refs' = [refs EXCEPT ![s] = @ - 1]
    /\ IF refs[s] > 1 \/ (t # s /\ pc[s] \notin {"unborn", "done"})
       THEN UNCHANGED freed
       ELSE freed' = freed \cup {s}
    /\ Goto(t, IF refs[s] = 1 /\ t # s /\ pc[s] \notin {"unborn", "done"}
               THEN joining ELSE label)

\* pthread_join(readerThread) returns once the reader is done.
Join(t, s, joining, label) ==
    /\ pc[t] = joining
    /\ pc[s] = "done"
    /\ freed' = freed \cup {s}
    /\ Goto(t, label)
    /\ UNCHANGED <<listed, closing, promptSync, sessionSync, refs,
                   sends, locks, agent, world, client>>

Retain(ss) == refs' = [s \in Streams |-> IF s \in ss THEN refs[s] + 1 ELSE refs[s]]

-----------------------------------------------------------------------------
(***************************************************************************)
(* send_to_ref and send_to_stream.  A sender t that reached "collect" has  *)
(* its frame in msg[t]; it collects the open listed streams, retaining     *)
(* each, and writes to and releases them one by one.                       *)
(***************************************************************************)
OpenListed == listed \ closing

\* Mutant of CollectTargets: the targets are not retained.
CollectUnretained(t) ==
    /\ pc[t] = "collect"
    /\ lockL = NoThread
    /\ todo' = [todo EXCEPT ![t] = OpenListed]
    /\ Goto(t, "next")
    /\ UNCHANGED <<objects, target, msg, retained, locks, agent, world, client>>

CollectTargets(t) ==
    /\ pc[t] = "collect"
    /\ lockL = NoThread
    /\ todo' = [todo EXCEPT ![t] = OpenListed]
    /\ Retain(OpenListed)
    /\ Goto(t, "next")
    /\ UNCHANGED <<listed, freed, closing, promptSync, sessionSync,
                   target, msg, retained, locks, agent, world, client>>

\* send_to_stream: a stream that is closing is skipped, before or after its
\* writeMutex is taken; else the write starts under the mutex.
StartWrite(t, s) ==
    IF s \in closing
    THEN Goto(t, "sent") /\ UNCHANGED lockW
    ELSE /\ lockW[s] = NoThread
         /\ lockW' = [lockW EXCEPT ![s] = t]
         /\ Goto(t, "writing")

NextTarget(t) ==
    /\ pc[t] = "next"
    /\ \E s \in todo[t] :
          /\ target' = [target EXCEPT ![t] = s]
          /\ todo' = [todo EXCEPT ![t] = @ \ {s}]
          /\ StartWrite(t, s)
    /\ UNCHANGED <<objects, msg, retained, lockA, lockD, lockL, agent, world, client>>

\* What the client of s does with the frame.
Deliver(s, m) ==
    /\ overlay' = CASE m = "PRESENT" -> [overlay EXCEPT ![s] = TRUE]
                    [] m = "GONE" -> [overlay EXCEPT ![s] = FALSE]
                    [] OTHER -> overlay
    /\ known' = IF m = "SESSIONS" THEN [known EXCEPT ![s] = current] ELSE known

\* The write ends: the core completes it on a live connection, it fails at
\* once on a dead one, and without a future nothing is written.
EndWrite(t) ==
    /\ pc[t] = "writing"
    /\ \/ /\ up /\ pc["core"] = "idle"
          /\ Deliver(target[t], msg[t])
          /\ UNCHANGED closing
       \/ /\ ~up
          /\ closing' = closing \cup {target[t]}
          /\ UNCHANGED client
       \/ /\ ResourcesFail
          /\ UNCHANGED <<closing, client>>
    /\ lockW' = [lockW EXCEPT ![target[t]] = NoThread]
    /\ Goto(t, "sent")
    /\ UNCHANGED <<listed, freed, promptSync, sessionSync, refs,
                   sends, lockA, lockD, lockL, agent, world>>

ReleaseTarget(t) ==
    /\ t # "monitor"
    /\ pc[t] = "sent"
    /\ Release(t, target[t], "next", "joining")
    /\ UNCHANGED <<listed, closing, promptSync, sessionSync,
                   sends, locks, agent, world, client>>

JoinTarget(t) == Join(t, target[t], "joining", "next")

Send(t) == \/ CollectTargets(t) \/ NextTarget(t) \/ EndWrite(t)
           \/ ReleaseTarget(t) \/ JoinTarget(t)

-----------------------------------------------------------------------------
(***************************************************************************)
(* The PTY reader: tmuxremote_prompt_detector_feed holds D while the       *)
(* lifecycle runs and while its event is sent.                             *)
(***************************************************************************)
PtyFeed ==
    /\ pc["pty"] = "read"
    /\ ~dataClosing
    /\ lockD = NoThread
    /\ feeds < MaxFeeds
    /\ feeds' = feeds + 1
    /\ active' = ~active
    /\ lockD' = "pty"
    /\ msg' = [msg EXCEPT !["pty"] = IF active THEN "GONE" ELSE "PRESENT"]
    /\ Goto("pty", "collect")
    /\ UNCHANGED <<objects, target, todo, retained, lockA, lockL, lockW,
                   monitorStop, current, prev, dataClosing, destroyedA, up, sessions, client>>

PtyFed ==
    /\ pc["pty"] = "next" /\ todo["pty"] = {}
    /\ lockD' = NoThread
    /\ Goto("pty", "read")
    /\ UNCHANGED <<objects, sends, lockA, lockL, lockW, agent, world, client>>

PtyExit ==
    /\ pc["pty"] = "read"
    /\ dataClosing
    /\ Goto("pty", "done")
    /\ UNCHANGED <<objects, sends, locks, agent, world, client>>

Pty == PtyFeed \/ PtyFed \/ PtyExit \/ Send("pty")

-----------------------------------------------------------------------------
(***************************************************************************)
(* The reader thread of control stream s.                                  *)
(***************************************************************************)

\* A complete pattern_resolve frame arrives, or any other frame, which the
\* decoder rejects and the loop skips.
ReadResolve(s) ==
    /\ ClientResolves
    /\ pc[s] = "read" /\ up /\ pc["core"] = "idle"
    /\ Goto(s, "wantA")
    /\ UNCHANGED <<objects, sends, locks, agent, world, client>>

\* The loop ends: the read fails on a dead connection, or a live client closes
\* the stream, sends a frame length of 0 or above 65536, or sends part of a
\* frame after closing was set.
ReaderEnds(s) ==
    /\ pc[s] = "read"
    /\ closing' = closing \cup {s}
    /\ Goto(s, "done")
    /\ UNCHANGED <<listed, freed, promptSync, sessionSync, refs,
                   sends, locks, agent, world, client>>

ReadFails(s) == ~up /\ ReaderEnds(s)
ReadBadFrame(s) == up /\ pc["core"] = "idle" /\ ReaderEnds(s)

\* tmuxremote_stream_resolve_prompt_for_ref takes A, and under it the
\* detector takes D; a data stream that is closing is passed over.
ResolveLockA(s) ==
    /\ pc[s] = "wantA"
    /\ lockA = NoThread
    /\ IF dataClosing
       THEN Goto(s, "loop") /\ UNCHANGED lockA
       ELSE Goto(s, "wantD") /\ lockA' = s
    /\ UNCHANGED <<objects, sends, lockD, lockL, lockW, agent, world, client>>

\* The client resolves the active prompt or one that is gone already.
ResolveLockD(s) ==
    /\ pc[s] = "wantD"
    /\ lockD = NoThread
    /\ IF active
       THEN /\ active' = FALSE
            /\ lockD' = s
            /\ msg' = [msg EXCEPT ![s] = "GONE"]
            /\ Goto(s, "collect")
            /\ UNCHANGED lockA
       ELSE /\ lockA' = NoThread
            /\ Goto(s, "loop")
            /\ UNCHANGED <<active, lockD, msg>>
    /\ UNCHANGED <<objects, target, todo, retained, lockL, lockW, monitorStop,
                   current, prev, dataClosing, destroyedA, world, client>>

ResolveDone(s) ==
    /\ pc[s] = "next" /\ todo[s] = {}
    /\ lockA' = NoThread /\ lockD' = NoThread
    /\ Goto(s, "loop")
    /\ UNCHANGED <<objects, sends, lockL, lockW, agent, world, client>>

\* The loop test reads the stream's closing flag, whatever it holds if the
\* reader's own release has just freed the stream.
ReaderLoop(s) ==
    /\ pc[s] = "loop"
    /\ \/ (s \in closing \/ s \in freed) /\ Goto(s, "done")
       \/ (s \notin closing \/ s \in freed) /\ Goto(s, "read")
    /\ UNCHANGED <<objects, sends, locks, agent, world, client>>

Reader(s) == \/ ReadResolve(s) \/ ReadFails(s) \/ ReadBadFrame(s) \/ ResolveLockA(s)
             \/ ResolveLockD(s) \/ ResolveDone(s) \/ ReaderLoop(s) \/ Send(s)

-----------------------------------------------------------------------------
(***************************************************************************)
(* monitor_thread_func, one round.                                         *)
(***************************************************************************)
\* Mutant: only the number of sessions is compared, which a change of name, of
\* size or of attachment keeps.
ChangedInNumber == prev = NoList

Changed == prev = NoList \/ prev # current

\* The loop test, and the list of tmux sessions as it is now.
MonitorRound ==
    /\ pc["monitor"] = "top"
    /\ IF monitorStop
       THEN Goto("monitor", "done") /\ UNCHANGED current
       ELSE Goto("monitor", "sessionCollect") /\ current' = sessions
    /\ UNCHANGED <<objects, sends, locks, monitorStop, prev, active, dataClosing,
                   destroyedA, world, client>>

\* Streams that still need the session list are retained and unflagged; when
\* the list did not change they are also the targets.
SessionCollect ==
    /\ pc["monitor"] = "sessionCollect"
    /\ lockL = NoThread
    /\ LET due == OpenListed \cap sessionSync
       IN /\ retained' = due
          /\ Retain(due)
          /\ sessionSync' = sessionSync \ due
          /\ todo' = [todo EXCEPT !["monitor"] = IF Changed THEN {} ELSE due]
          /\ Goto("monitor", IF Changed THEN "broadcast" ELSE "next")
    /\ msg' = [msg EXCEPT !["monitor"] = "SESSIONS"]
    /\ UNCHANGED <<listed, freed, closing, promptSync, target,
                   locks, agent, world, client>>

\* broadcast_to_all takes its targets without retaining them.
Broadcast ==
    /\ pc["monitor"] = "broadcast"
    /\ lockL = NoThread
    /\ todo' = [todo EXCEPT !["monitor"] = OpenListed]
    /\ Goto("monitor", "next")
    /\ UNCHANGED <<objects, target, msg, retained, locks, agent, world, client>>

\* Mutant of MonitorSent: a stream that closed meanwhile is not released.
MonitorSentLeaks ==
    /\ pc["monitor"] = "sent"
    /\ IF msg["monitor"] = "SESSIONS"
       THEN Goto("monitor", "next") /\ UNCHANGED <<refs, freed, retained>>
       ELSE /\ retained' = retained \ {target["monitor"]}
            /\ IF target["monitor"] \in closing
               THEN Goto("monitor", "promptNext") /\ UNCHANGED <<refs, freed>>
               ELSE Release("monitor", target["monitor"], "promptNext", "promptJoin")
    /\ UNCHANGED <<listed, closing, promptSync, sessionSync,
                   target, todo, msg, locks, agent, world, client>>

\* After a write: the session phase goes on with the next target, the prompt
\* phase releases the stream it synchronised.
MonitorSent ==
    /\ pc["monitor"] = "sent"
    /\ IF msg["monitor"] = "SESSIONS"
       THEN Goto("monitor", "next") /\ UNCHANGED <<refs, freed, retained>>
       ELSE /\ Release("monitor", target["monitor"], "promptNext", "promptJoin")
            /\ retained' = retained \ {target["monitor"]}
    /\ UNCHANGED <<listed, closing, promptSync, sessionSync,
                   target, todo, msg, locks, agent, world, client>>

SessionsSent ==
    /\ pc["monitor"] = "next" /\ todo["monitor"] = {}
    /\ prev' = current
    /\ Goto("monitor", "sessionRelease")
    /\ UNCHANGED <<objects, sends, locks, monitorStop, current, active,
                   dataClosing, destroyedA, world, client>>

SessionRelease ==
    /\ pc["monitor"] = "sessionRelease"
    /\ \E s \in retained :
          /\ target' = [target EXCEPT !["monitor"] = s]
          /\ retained' = retained \ {s}
          /\ Release("monitor", s, "sessionRelease", "sessionJoin")
    /\ UNCHANGED <<listed, closing, promptSync, sessionSync,
                   todo, msg, locks, agent, world, client>>

\* Streams that still need the active prompt are retained and unflagged.
PromptCollect ==
    /\ pc["monitor"] = "sessionRelease" /\ retained = {}
    /\ lockL = NoThread
    /\ LET due == OpenListed \cap promptSync
       IN /\ retained' = due
          /\ Retain(due)
          /\ promptSync' = promptSync \ due
    /\ msg' = [msg EXCEPT !["monitor"] = "PRESENT"]
    /\ Goto("monitor", "promptNext")
    /\ UNCHANGED <<listed, freed, closing, sessionSync, target, todo,
                   locks, agent, world, client>>

\* tmuxremote_stream_copy_active_prompt_for_ref takes A, and D under it.
PromptNext ==
    /\ pc["monitor"] = "promptNext"
    /\ \E s \in retained : target' = [target EXCEPT !["monitor"] = s]
    /\ lockA = NoThread
    /\ lockA' = "monitor"
    /\ Goto("monitor", "wantD")
    /\ UNCHANGED <<objects, todo, msg, retained, lockD, lockL, lockW, agent, world, client>>

\* Mutant of PromptCopy: a detector that is busy is passed over.
PromptCopyTry ==
    /\ pc["monitor"] = "wantD"
    /\ lockA' = NoThread
    /\ Goto("monitor", IF active /\ ~dataClosing /\ lockD = NoThread THEN "wantW" ELSE "sent")
    /\ UNCHANGED <<objects, sends, lockD, lockL, lockW, agent, world, client>>

\* The copy; A and D are released before it is sent.
PromptCopy ==
    /\ pc["monitor"] = "wantD"
    /\ dataClosing \/ lockD = NoThread
    /\ lockA' = NoThread
    /\ Goto("monitor", IF active /\ ~dataClosing THEN "wantW" ELSE "sent")
    /\ UNCHANGED <<objects, sends, lockD, lockL, lockW, agent, world, client>>

PromptSend ==
    /\ pc["monitor"] = "wantW"
    /\ StartWrite("monitor", target["monitor"])
    /\ UNCHANGED <<objects, sends, lockA, lockD, lockL, agent, world, client>>

\* Dead streams are unlinked and released while L is held.
PurgeLock ==
    /\ pc["monitor"] = "promptNext" /\ retained = {}
    /\ lockL = NoThread
    /\ lockL' = "monitor"
    /\ Goto("monitor", "purge")
    /\ UNCHANGED <<objects, sends, lockA, lockD, lockW, agent, world, client>>

PurgeDead ==
    /\ pc["monitor"] = "purge"
    /\ \E s \in listed \cap closing :
          /\ listed' = listed \ {s}
          /\ target' = [target EXCEPT !["monitor"] = s]
          /\ Release("monitor", s, "purge", "purgeJoin")
    /\ UNCHANGED <<closing, promptSync, sessionSync, todo, msg, retained,
                   locks, agent, world, client>>

\* L is released, a list without streams forgets what was sent, and the
\* thread waits for a notification or two seconds.
PurgeEnd ==
    /\ pc["monitor"] = "purge"
    /\ listed \cap closing = {}
    /\ lockL' = NoThread
    /\ prev' = IF listed = {} THEN NoList ELSE prev
    /\ Goto("monitor", "top")
    /\ UNCHANGED <<objects, sends, lockA, lockD, lockW, monitorStop, current,
                   active, dataClosing, destroyedA, world, client>>

MonitorJoin == \E p \in {<<"sessionJoin", "sessionRelease">>,
                         <<"promptJoin", "promptNext">>, <<"purgeJoin", "purge">>} :
                  Join("monitor", target["monitor"], p[1], p[2])

Monitor == \/ MonitorRound \/ SessionCollect \/ Broadcast \/ MonitorSent
           \/ SessionsSent \/ SessionRelease \/ PromptCollect \/ PromptNext
           \/ PromptCopy \/ PurgeLock \/ PurgeDead \/ PurgeEnd \/ MonitorJoin
           \/ NextTarget("monitor") \/ PromptSend \/ EndWrite("monitor")

-----------------------------------------------------------------------------
(***************************************************************************)
(* The core event loop and the world behind it.                            *)
(***************************************************************************)

\* stream_callback and stream_accepted of a new control stream: without the
\* IAM action the only reference is released, else the reader starts, if it can.
StreamAccepted(s) ==
    /\ pc["core"] = "idle"
    /\ pc[s] = "unborn" /\ refs[s] = 0 /\ s \notin freed
    /\ up
    /\ promptSync' = promptSync \cup {s}
    /\ sessionSync' = sessionSync \cup {s}
    /\ \/ /\ freed' = freed \cup {s}
          /\ UNCHANGED <<refs, pc, target>>
       \/ /\ refs' = [refs EXCEPT ![s] = 1]
          /\ \E label \in {"read"} \cup IF ResourcesFail THEN {"unborn"} ELSE {} :
                pc' = [pc EXCEPT ![s] = label, !["core"] = "wantL"]
          /\ target' = [target EXCEPT !["core"] = s]
          /\ UNCHANGED freed
    /\ UNCHANGED <<listed, closing, todo, msg, retained, locks, agent, world, client>>

\* The stream joins the list, the monitor is started if need be, and the core
\* returns to its loop.
StreamListed ==
    /\ pc["core"] = "wantL"
    /\ lockL = NoThread
    /\ listed' = listed \cup {target["core"]}
    /\ \E label \in {"top"} \cup IF ResourcesFail THEN {"unborn"} ELSE {} :
          pc' = [pc EXCEPT !["core"] = "idle",
                           !["monitor"] = IF @ = "unborn" THEN label ELSE @]
    /\ UNCHANGED <<freed, closing, promptSync, sessionSync, refs,
                   sends, locks, agent, world, client>>

\* A data stream callback (stream_callback, cleanup_active_stream) needs A.
DataCallback ==
    /\ DataCallbacks
    /\ pc["core"] = "idle"
    /\ Goto("core", "wantA")
    /\ UNCHANGED <<objects, sends, locks, agent, world, client>>

DataCallbackDone ==
    /\ pc["core"] = "wantA"
    /\ lockA = NoThread
    /\ Goto("core", "idle")
    /\ UNCHANGED <<objects, sends, locks, agent, world, client>>

\* The connection goes down: reads and writes on its streams fail from now on.
Disconnect ==
    /\ pc["core"] = "idle"
    /\ up
    /\ up' = FALSE
    /\ UNCHANGED <<objects, pc, sends, locks, agent, sessions, feeds, client>>

SessionChange ==
    /\ sessions <= MaxSessionChanges
    /\ sessions' = sessions + 1
    /\ UNCHANGED <<objects, pc, sends, locks, agent, up, feeds, client>>

Core == StreamListed \/ DataCallbackDone
World == \/ \E s \in Streams : StreamAccepted(s)
         \/ Disconnect \/ DataCallback \/ SessionChange

-----------------------------------------------------------------------------
(***************************************************************************)
(* The shutdown sequence of main.                                          *)
(***************************************************************************)

\* Mutant of StopDataStreams: the monitor is not told to stop.
StopDataStreamsOnly ==
    /\ Shutdown
    /\ pc["main"] = "run"
    /\ lockA = NoThread
    /\ dataClosing' = TRUE
    /\ Goto("main", "stopStreams")
    /\ UNCHANGED <<objects, sends, locks, monitorStop, current, prev, active,
                   destroyedA, world, client>>

\* tmuxremote_stream_listener_stop marks the data streams, under A; then
\* tmuxremote_control_stream_listener_stop tells the monitor to stop and marks
\* the control streams, under L.
StopDataStreams ==
    /\ Shutdown
    /\ pc["main"] = "run"
    /\ lockA = NoThread
    /\ dataClosing' = TRUE
    /\ monitorStop' = TRUE
    /\ Goto("main", "stopStreams")
    /\ UNCHANGED <<objects, sends, locks, current, prev, active, destroyedA, world, client>>

StopControlStreams ==
    /\ pc["main"] = "stopStreams"
    /\ lockL = NoThread
    /\ closing' = closing \cup listed
    /\ Goto("main", "stopDevice")
    /\ UNCHANGED <<listed, freed, promptSync, sessionSync, refs,
                   sends, locks, agent, world, client>>

\* nabto_device_close and nabto_device_stop: every connection goes down, and
\* no callback runs any more.
StopDevice ==
    /\ pc["main"] = "stopDevice"
    /\ pc["core"] = "idle"
    /\ up' = FALSE
    /\ pc' = [pc EXCEPT !["core"] = "stopped", !["main"] = "joinMonitor"]
    /\ UNCHANGED <<listed, freed, closing, promptSync, sessionSync, refs, sends,
                   locks, agent, sessions, feeds, client>>

JoinMonitor ==
    /\ pc["main"] = "joinMonitor"
    /\ pc["monitor"] \in {"unborn", "done"}
    /\ Goto("main", "dataDeinit")
    /\ UNCHANGED <<objects, sends, locks, agent, world, client>>

\* tmuxremote_stream_listener_deinit takes the data streams, under A, joins
\* their PTY reader and destroys A.
DataDeinit ==
    /\ pc["main"] = "dataDeinit"
    /\ lockA = NoThread
    /\ pc["pty"] = "done"
    /\ destroyedA' = TRUE
    /\ Goto("main", "controlDeinit")
    /\ UNCHANGED <<objects, sends, locks, monitorStop, current, prev, active,
                   dataClosing, world, client>>

\* tmuxremote_control_stream_listener_deinit empties the list, under L, and
\* releases what was on it.
ControlDeinit ==
    /\ pc["main"] = "controlDeinit"
    /\ lockL = NoThread
    /\ todo' = [todo EXCEPT !["main"] = listed]
    /\ listed' = {}
    /\ Goto("main", "deinitNext")
    /\ UNCHANGED <<freed, closing, promptSync, sessionSync, refs, target, msg,
                   retained, locks, agent, world, client>>

DeinitRelease ==
    /\ pc["main"] = "deinitNext"
    /\ \E s \in todo["main"] :
          /\ todo' = [todo EXCEPT !["main"] = @ \ {s}]
          /\ target' = [target EXCEPT !["main"] = s]
          /\ Release("main", s, "deinitNext", "deinitJoin")
    /\ UNCHANGED <<listed, closing, promptSync, sessionSync, msg, retained,
                   locks, agent, world, client>>

DeinitJoin == Join("main", target["main"], "deinitJoin", "deinitNext")

Exit ==
    /\ pc["main"] = "deinitNext" /\ todo["main"] = {}
    /\ Goto("main", "done")
    /\ UNCHANGED <<objects, sends, locks, agent, world, client>>

Main == \/ StopDataStreams \/ StopControlStreams \/ StopDevice
        \/ JoinMonitor \/ DataDeinit \/ ControlDeinit \/ DeinitRelease
        \/ DeinitJoin \/ Exit

-----------------------------------------------------------------------------
Next == \/ World
        \/ Core
        \/ Monitor
        \/ Pty
        \/ \E s \in Streams : Reader(s)
        \/ Main

Spec == Init /\ [][Next]_vars

(***************************************************************************)
(* Every thread that can run does, a write on a live connection completes, *)
(* and a read on a dead one fails; nothing makes clients send or hang up.  *)
(* A thread that wants L gets it in the end although the monitor keeps     *)
(* taking it: the monitor sleeps without it for two seconds in each round. *)
(***************************************************************************)
FairSpec == /\ Spec
            /\ SF_vars(Core)
            /\ WF_vars(Monitor)
            /\ WF_vars(PtyFed \/ PtyExit \/ Send("pty"))
            /\ \A t \in Senders : SF_vars(CollectTargets(t))
            /\ \A s \in Streams :
                  WF_vars(ReadFails(s) \/ ResolveLockA(s) \/ ResolveLockD(s)
                          \/ ResolveDone(s) \/ ReaderLoop(s) \/ Send(s))
            /\ WF_vars(Main /\ pc["main"] # "run")

-----------------------------------------------------------------------------
\* Types; a reference count is never below 0, and never above one reference for
\* the list and one for each thread.
TypeOK ==
    /\ {listed, freed, closing, promptSync, sessionSync, retained}
          \subseteq SUBSET Streams
    /\ refs \in [Streams -> 0 .. Cardinality(Senders) + 1]
    /\ target \in [Threads -> Streams \cup {NoThread}]
    /\ todo \in [Owners -> SUBSET Streams]
    /\ {lockA, lockD, lockL} \subseteq Threads \cup {NoThread}
    /\ lockW \in [Streams -> Senders \cup {NoThread}]

Sending(t) == IF pc[t] \in {"wantW", "writing", "sent"} THEN {target[t]} ELSE {}
Holds(t, s) == CASE t = "monitor" -> s \in retained
                 [] OTHER -> s \in todo[t] \cup Sending(t)
Holders(s) == {t \in Owners : Holds(t, s)}
Owned(s) == s \in listed \/ (pc["core"] = "wantL" /\ target["core"] = s)

\* References are exact: the refCount of a stream is the number of its owners,
\* the list (or the core that is about to list it, or main that took the list)
\* and each sender that retained it and has not released it.
RefsAreExact ==
    \A s \in Streams : refs[s] = Cardinality(Holders(s)) + IF Owned(s) THEN 1 ELSE 0

\* No thread but a stream's own reader ever touches a freed stream: not the
\* list, not the targets it retained, and not those of a broadcast, which are
\* not retained at all.
NoUseAfterFree ==
    /\ listed \cap freed = {}
    /\ \A t \in Owners : (todo[t] \cup Sending(t)) \cap freed = {}
    /\ retained \cap freed = {}

\* When main returns, every control stream that was ever accepted is freed and
\* no thread that could touch one is left.
CleanExit ==
    pc["main"] = "done" =>
       \A s \in Streams : /\ refs[s] = 0
                          /\ pc[s] \in {"unborn", "done"}
                          /\ pc[s] = "done" => s \in freed

Settled(s) == s \in closing \/ ~up \/ dataClosing

\* A control stream that opens while a prompt is on the screen, or that is open
\* when one appears, is told of it: by the event, by the monitor's
\* synchronisation, or both.
PromptReachesClients ==
    \A s \in Streams : (s \in listed /\ active) ~> (overlay[s] \/ ~active \/ Settled(s))

\* Every open control stream learns the session list as it is, also when the
\* list changes while the stream is being opened.
SessionsReachClients ==
    \A s \in Streams : s \in listed ~> (known[s] = sessions \/ Settled(s))

\* With one control stream whose client resolves nothing, a shutdown comes to
\* its end, whatever the threads are doing when it starts.
ShutdownEnds == (pc["main"] # "run") ~> (pc["main"] = "done")

\* DESIGN.md 7.11, "No Blocking in Nabto Callbacks": a callback never waits for
\* a mutex whose holder can only go on when the core event loop does.
CallbacksDoNotBlock ==
    (pc["core"] = "wantA" /\ lockA # NoThread) => pc[lockA] # "writing"
=============================================================================
