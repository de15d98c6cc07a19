-------------------------- MODULE ConnectionManager --------------------------
(***************************************************************************)
(* The connection cache of the iOS client for one device                   *)
(* (clients/ios/TmuxRemote/Services/ConnectionManager.swift; everything in *)
(* it is kept per device id, and no operation relates two devices).        *)
(*                                                                         *)
(* All of it runs on the main actor, so steps interleave only where the    *)
(* code awaits; but a task that was cancelled goes on when its await ends, *)
(* the SDK completes connects and loses connections at any time, and a     *)
(* CLOSED event reaches the main actor two queues later.  A connect task,  *)
(* the connection it makes, and the control stream task of that connection *)
(* are named alike.  Callers of the manager (device list, warmed cache,    *)
(* terminal and its reconnect loop) may call it at any time; a caller that *)
(* finds a cached connection or a connect under way changes nothing.       *)
(***************************************************************************)
EXTENDS Naturals

CONSTANTS Conns,     \* connections that can be made
          Pairable,  \* bound: those of them that a pairing may make
          None

ASSUME NoneAssumption == None \notin Conns

VARIABLES
    bookmarked,   \* the device is in the bookmark store: "never", "yes", "deleted"
    cache,        \* connections[deviceId]
    pending,      \* pendingConnects[deviceId], as the connect's id
    state,        \* deviceStates[deviceId]
    task,         \* [Conns -> how far connection(for:) or a pairing has got]
    cancelled,    \* connect tasks that were cancelled
    net,          \* [Conns -> the SDK's connection: "new", "open", "closed"]
    heard,        \* connections with an event receiver that waits for CLOSED
    events,       \* CLOSED events on their way to the main actor
    gen,          \* controlGenerations[deviceId]
    control,      \* controlStreams[deviceId]
    sessions,     \* deviceSessions[deviceId]: whose list it holds
    reader,       \* [Conns -> the control stream task]
    overruled     \* history: the connection that was cached when a pairing failed

app == <<bookmarked, overruled>>
manager == <<cache, pending, state>>
streams == <<gen, control, sessions, reader>>
sdk == <<net, heard, events>>
vars == <<app, manager, task, cancelled, sdk, streams>>

Init ==
    /\ bookmarked \in {"never", "yes"}
    /\ cache = None /\ pending = None /\ state = "unknown"
    /\ task = [c \in Conns |-> "unused"]
    /\ cancelled = {}
    /\ net = [c \in Conns |-> "new"]
    /\ heard = {} /\ events = {}
    /\ gen = None /\ control = None /\ sessions = None
    /\ reader = [c \in Conns |-> "none"]
    /\ overruled = None

InFlight == {"created", "connecting", "connected", "failed"}

Is(c, s) == task[c] = s
Becomes(c, s) == task' = [task EXCEPT ![c] = s]

\* stop(), or the last reference is gone: closed, as when the peer is lost.
Stopped(cs) == net' = [c \in Conns |-> IF c \in cs THEN "closed" ELSE net[c]]

\* closeControlStream; an aborted reader ends by itself.
CloseControl == gen' = None /\ control' = None /\ sessions' = None

\* openControlStream, which closes what was open.
OpenControl(c) ==
    /\ gen' = c
    /\ control' = None
    /\ sessions' = None
    /\ reader' = [reader EXCEPT ![c] = "opening"]

-----------------------------------------------------------------------------
(* connection(for:)                                                        *)

\* Callers hold the bookmark by value, and may come when it has been deleted.
BookmarkHeld == bookmarked # "never"

\* Neither cached nor pending: a task is created, which runs later.
Connect(c) ==
    /\ BookmarkHeld
    /\ cache = None /\ pending = None
    /\ Is(c, "unused")
    /\ pending' = c
    /\ Becomes(c, "created")
    /\ UNCHANGED <<app, cache, state, cancelled, sdk, streams>>

(***************************************************************************)
(* The task loads the private key and makes the connection, or fails.  It  *)
(* does not look whether it was cancelled, but a handler that is installed *)
(* then stops the connection at once.                                      *)
(***************************************************************************)
TaskStarts(c) ==
    /\ Is(c, "created")
    /\ state' = "connecting"
    /\ \/ Becomes(c, "connecting") /\ Stopped({c} \cap cancelled)
       \/ Becomes(c, "failed") /\ UNCHANGED net
    /\ UNCHANGED <<app, cache, pending, cancelled, heard, events, streams>>

Connected(c) ==
    /\ Is(c, "connecting")
    /\ net[c] = "new"
    /\ net' = [net EXCEPT ![c] = "open"]
    /\ Becomes(c, "connected")
    /\ UNCHANGED <<app, manager, cancelled, heard, events, streams>>

\* The connect fails, is cancelled, or is stopped after ten seconds.
ConnectFails(c) ==
    /\ Is(c, "connecting")
    /\ Stopped({c})
    /\ Becomes(c, "failed")
    /\ UNCHANGED <<app, manager, cancelled, heard, events, streams>>

\* The ten seconds are over just when the connect has succeeded: the timer's
\* task stops the connection before it sees that it is cancelled.
LateTimeout(c) ==
    /\ Is(c, "connected")
    /\ Stopped({c})
    /\ UNCHANGED <<app, manager, task, cancelled, heard, events, streams>>

\* Back on the main actor, and nobody has cancelled the task or taken its place.
TaskCaches(c) ==
    /\ Is(c, "connected")
    /\ c \notin cancelled /\ pending = c
    /\ heard' = heard \cup {c}
    /\ cache' = c
    /\ pending' = None
    /\ state' = "connected"
    /\ OpenControl(c)
    /\ Becomes(c, "cached")
    /\ UNCHANGED <<app, cancelled, net, events>>

\* It was cancelled, or the event receiver could not be added.
TaskGivesUp(c) ==
    /\ Is(c, "connected")
    /\ Stopped({c})
    /\ Becomes(c, "failed")
    /\ UNCHANGED <<app, manager, cancelled, heard, events, streams>>

\* Mutant of CleanUp: the pending connect is removed whoever's it is.
CleanUpBlind(c) ==
    /\ Is(c, "failed")
    /\ pending' = None
    /\ state' = IF cache = None THEN "disconnected" ELSE state
    /\ Becomes(c, "done")
    /\ UNCHANGED <<app, cache, cancelled, sdk, streams>>

\* Mutant of CleanUp: only the state is reset.
CleanUpForgets(c) ==
    /\ Is(c, "failed")
    /\ state' = IF pending = c THEN "disconnected" ELSE state
    /\ Becomes(c, "done")
    /\ UNCHANGED <<app, cache, pending, cancelled, sdk, streams>>

\* The caller that created the task gets its error.
CleanUp(c) ==
    /\ Is(c, "failed")
    /\ IF pending = c
         THEN /\ pending' = None
              /\ state' = IF cache = None THEN "disconnected" ELSE state
         ELSE UNCHANGED <<pending, state>>
    /\ Becomes(c, "done")
    /\ UNCHANGED <<app, cache, cancelled, sdk, streams>>

\* A step of the connect task that brings it nearer to its end.
Progress(c) == \/ TaskStarts(c) \/ Connected(c) \/ ConnectFails(c)
               \/ TaskCaches(c) \/ TaskGivesUp(c) \/ CleanUp(c)

ConnectTask(c) == Progress(c) \/ LateTimeout(c)

-----------------------------------------------------------------------------
(* disconnect(deviceId:), cancelPendingConnect(deviceId:)                  *)

\* The pending task is cancelled, which stops a connection it is waiting for.
Awaited == {c \in Conns : c = pending /\ task[c] \in {"connecting", "connected"}}

\* The manager's part of disconnect, after which the state reads s.
Drop(s) ==
    /\ cancelled' = cancelled \cup ({pending} \cap Conns)
    /\ Stopped(Awaited \cup ({cache} \cap Conns))
    /\ heard' = heard \ {cache}
    /\ CloseControl
    /\ cache' = None
    /\ state' = s

\* From the device list, a failed probe of the cached connection, disconnectAll
\* when the app goes to the background, or the end of a reconnect.
Disconnect ==
    /\ Drop("disconnected")
    /\ pending' = None
    /\ UNCHANGED <<app, task, events, reader>>

DeleteDevice ==
    /\ bookmarked = "yes"
    /\ Drop("disconnected")
    /\ pending' = None
    /\ bookmarked' = "deleted"
    /\ UNCHANGED <<overruled, task, events, reader>>

\* An attempt of the reconnect loop, up to its first await.
Reconnect(c) ==
    /\ BookmarkHeld
    /\ Is(c, "unused")
    /\ Drop("reconnecting")
    /\ pending' = c
    /\ Becomes(c, "created")
    /\ UNCHANGED <<app, events, reader>>

\* Mutant of CancelPendingConnect: no early return when nothing is pending.
CancelAnyConnect ==
    /\ cancelled' = cancelled \cup {pending}
    /\ Stopped(Awaited)
    /\ pending' = None
    /\ state' = IF cache = None THEN "disconnected" ELSE state
    /\ UNCHANGED <<app, cache, task, heard, events, streams>>

CancelPendingConnect ==
    /\ pending # None
    /\ cancelled' = cancelled \cup {pending}
    /\ Stopped(Awaited)
    /\ pending' = None
    /\ state' = IF cache = None THEN "disconnected" ELSE state
    /\ UNCHANGED <<app, cache, task, heard, events, streams>>

\* The reconnect loop backs off or gives up; .offline is not told apart here.
SetDeviceState ==
    /\ BookmarkHeld
    /\ state' = "reconnecting"
    /\ UNCHANGED <<app, cache, pending, task, cancelled, sdk, streams>>

-----------------------------------------------------------------------------
(* NabtoService.pair: connectForPairing, adoptConnection                   *)

\* PairingView refuses a device that has a bookmark.  Its Cancel leaves the
\* task running, so several pairings of one device may be under way.
PairBegin(c) ==
    /\ bookmarked # "yes"
    /\ c \in Pairable
    /\ Is(c, "unused")
    /\ state' = "connecting"
    /\ Becomes(c, "pairConnect")
    /\ UNCHANGED <<app, cache, pending, cancelled, sdk, streams>>

PairConnected(c) ==
    /\ Is(c, "pairConnect")
    /\ net' = [net EXCEPT ![c] = "open"]
    /\ state' = "connected"
    /\ Becomes(c, "pairAuth")
    /\ UNCHANGED <<app, cache, pending, cancelled, heard, events, streams>>

\* connectForPairing fails and leaves the state as it is; a later failure
\* resets it, whatever is cached by then.
PairFails(c) ==
    /\ \/ Is(c, "pairConnect") /\ UNCHANGED <<state, overruled>>
       \/ Is(c, "pairAuth") /\ state' = "disconnected" /\ overruled' = cache
    /\ Stopped({c})
    /\ Becomes(c, "done")
    /\ UNCHANGED <<bookmarked, cache, pending, cancelled, heard, events, streams>>

\* A receiver that cannot be added is done without.
AdoptConnection(c) ==
    /\ Is(c, "pairAuth")
    /\ heard' \in {heard, heard \cup {c}}
    /\ cache' = c
    /\ state' = "connected"
    /\ OpenControl(c)
    /\ bookmarked' = "yes"
    /\ Becomes(c, "cached")
    /\ UNCHANGED <<overruled, pending, cancelled, net, events>>

Pair(c) == PairBegin(c) \/ PairConnected(c) \/ PairFails(c) \/ AdoptConnection(c)

-----------------------------------------------------------------------------
(* The connection is lost                                                  *)

Lost(c) ==
    /\ net[c] = "open"
    /\ net' = [net EXCEPT ![c] = "closed"]
    /\ events' = events \cup ({c} \cap heard)
    /\ heard' = heard \ {c}
    /\ UNCHANGED <<app, manager, task, cancelled, streams>>

\* Mutant of HandleConnectionClosed: the state is left alone.
HandleClosedQuietly(c) ==
    /\ c \in events
    /\ events' = events \ {c}
    /\ CloseControl
    /\ cache' = None
    /\ UNCHANGED <<app, pending, state, task, cancelled, net, heard, reader>>

\* Whatever connection is cached by now is dropped, and is not stopped.
HandleConnectionClosed(c) ==
    /\ c \in events
    /\ events' = events \ {c}
    /\ CloseControl
    /\ cache' = None
    /\ state' = "disconnected"
    /\ UNCHANGED <<app, pending, task, cancelled, net, heard, reader>>

-----------------------------------------------------------------------------
(* The control stream task                                                 *)

\* Mutant of ControlOpened: the generation is not compared.
ControlOpenedStale(c) ==
    /\ reader[c] = "opening"
    /\ net[c] = "open"
    /\ control' = c
    /\ reader' = [reader EXCEPT ![c] = "reading"]
    /\ UNCHANGED <<app, manager, task, cancelled, sdk, gen, sessions>>

\* A stream that is open too late is aborted.
ControlOpened(c) ==
    /\ reader[c] = "opening"
    /\ net[c] = "open"
    /\ IF gen = c
         THEN control' = c /\ reader' = [reader EXCEPT ![c] = "reading"]
         ELSE UNCHANGED control /\ reader' = [reader EXCEPT ![c] = "over"]
    /\ UNCHANGED <<app, manager, task, cancelled, sdk, gen, sessions>>

(***************************************************************************)
(* controlReadLoop has a session list.  A frame that was read before the   *)
(* stream was closed is still applied, and then the loop sees that its     *)
(* task is cancelled.                                                      *)
(***************************************************************************)
ControlSessions(c) ==
    /\ reader[c] = "reading"
    /\ sessions' = c
    /\ reader' = [reader EXCEPT ![c] = IF gen = c THEN "reading" ELSE "over"]
    /\ UNCHANGED <<app, manager, task, cancelled, sdk, gen, control>>

\* An error, the end of the stream, or a length that is no frame's.
ControlEnds(c) ==
    /\ reader[c] \in {"opening", "reading"}
    /\ reader' = [reader EXCEPT ![c] = "over"]
    /\ IF gen = c THEN CloseControl ELSE UNCHANGED <<gen, control, sessions>>
    /\ UNCHANGED <<app, manager, task, cancelled, sdk>>

ControlTask(c) == ControlOpened(c) \/ ControlSessions(c) \/ ControlEnds(c)

-----------------------------------------------------------------------------

Next ==
    \/ \E c \in Conns : \/ Connect(c) \/ ConnectTask(c)
                        \/ Reconnect(c)
                        \/ Pair(c)
                        \/ Lost(c) \/ HandleConnectionClosed(c)
                        \/ ControlTask(c)
    \/ Disconnect \/ DeleteDevice \/ CancelPendingConnect \/ SetDeviceState

Spec == Init /\ [][Next]_vars

(***************************************************************************)
(* The main actor runs every job that is queued, and a connect ends, at    *)
(* the latest when its ten seconds are over.                               *)
(***************************************************************************)
FairSpec == Spec /\ \A c \in Conns : WF_vars(Progress(c))

-----------------------------------------------------------------------------

\* Types.
TypeOK ==
    /\ bookmarked \in {"never", "yes", "deleted"}
    /\ {cache, pending, gen, control, sessions, overruled} \subseteq Conns \cup {None}
    /\ state \in {"unknown", "disconnected", "connecting", "connected",
                  "reconnecting"}
    /\ task \in [Conns -> InFlight \cup {"unused", "cached", "done",
                                         "pairConnect", "pairAuth"}]
    /\ net \in [Conns -> {"new", "open", "closed"}]
    /\ reader \in [Conns -> {"none", "opening", "reading", "over"}]
    /\ {cancelled, heard, events} \subseteq SUBSET Conns

(***************************************************************************)
(* "Serialized per deviceId: concurrent callers for the same device await  *)
(* the same in-flight Task": of the connect tasks that have not failed,    *)
(* only the pending one is not cancelled.  A task that was replaced, by    *)
(* disconnect or by a reconnect attempt, neither takes the place of its    *)
(* successor nor makes the manager forget it.                              *)
(***************************************************************************)
SerializedConnect ==
    \A c \in Conns : task[c] \in InFlight \ {"failed"} => c \in cancelled \/ c = pending

(***************************************************************************)
(* The control stream that sendPatternResolve writes to is the one of the  *)
(* cached connection, although its task may be opening it while that       *)
(* connection is replaced.                                                 *)
(***************************************************************************)
ControlFollowsCache ==
    /\ gen # None => gen = cache
    /\ control # None => control = gen

(***************************************************************************)
(* The state shown agrees with the cache: "connected" means that there is  *)
(* a connection, cached or of a pairing that is authenticating, and        *)
(* "disconnected", on which an open terminal starts to reconnect, that     *)
(* none is cached.  The one exception is what NabtoService.swift:158 does: *)
(* a pairing that fails says "disconnected", and while it ran another one, *)
(* or a caller with the bookmark of a deleted device, may have cached a    *)
(* connection.                                                             *)
(***************************************************************************)
StateIsHonest ==
    /\ state = "connected" => cache # None \/ \E c \in Conns : Is(c, "pairAuth")
    /\ state = "disconnected" => cache \in {None, overruled}

(***************************************************************************)
(* Every caller of connection(for:) gets an answer, and the connect is no  *)
(* longer pending then, so that the next caller can start one.             *)
(***************************************************************************)
ConnectEnds ==
    \A c \in Conns : (task[c] \in InFlight \/ pending = c)
                        ~> (task[c] \notin InFlight /\ pending # c)

=============================================================================
